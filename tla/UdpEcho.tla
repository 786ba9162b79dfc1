------------------------------ MODULE UdpEcho ------------------------------
(***************************************************************************)
(* The UDP echo firmware of firmware/echo.c: the receive callback echo_rx  *)
(* and the main loop that sends its deferred reply.  External, from how    *)
(* echo.c uses them: the MAC's receive slots, and the calls of libliteeth  *)
(* -- udp_service handles one received frame, udp_arp_resolve keeps one    *)
(* (ip, mac) pair and polls udp_service until the MAC is known or it gives *)
(* up.  Payloads and lengths are in 32-bit words.                          *)
(***************************************************************************)
EXTENDS Integers, Sequences

CONSTANTS Clients,     \* IP addresses on the network
          NoIp,        \* the zero address of the cleared variables
          Ports,       \* UDP ports, the ECHO_PORT among them
          ECHO_PORT,
          Payloads,    \* sequences of words
          Depth,       \* words of the EchoSlave
          RxSlots,     \* receive slots of the MAC, 2
          MaxTries     \* polls before udp_arp_resolve gives up

ASSUME UdpAssumption ==
  /\ NoIp \notin Clients /\ ECHO_PORT \in Ports
  /\ \A p \in Payloads : Len(p) \in 0..Depth
  /\ RxSlots \in Nat \ {0} /\ MaxTries \in Nat \ {0}

Requests == [src_ip : Clients, src_port : Ports, dst_port : Ports, data : Payloads]
ArpReplies == [arp_ip : Clients]

VARIABLES rx,             \* frames waiting in the MAC, oldest first
          bram,           \* contents of the EchoSlave
          pending_src_ip, pending_src_port, pending_dst_port, pending_length,
          pending_reply,
          cached_ip, cached_mac,   \* libliteeth's ARP cache (mac: known or not)
          pc, tries,      \* main loop: "service", "check", "resolve", "send"
          tx,             \* the datagram this turn of the loop sent, at most one
          stored          \* ghost: the request echo_rx stored last, at most one

pending == <<pending_src_ip, pending_src_port, pending_dst_port, pending_length>>
cache == <<cached_ip, cached_mac>>
vars == <<rx, bram, pending, pending_reply, cache, pc, tries, tx, stored>>

-----------------------------------------------------------------------------
(* The callback *)

echo_rx(f) ==
  IF f.dst_port # ECHO_PORT
  THEN UNCHANGED <<bram, pending, pending_reply, stored>>
  ELSE /\ bram' = [a \in 0..(Depth - 1) |->
                     IF a < Len(f.data) THEN f.data[a + 1] ELSE bram[a]]
       /\ pending_src_ip' = f.src_ip
       /\ pending_src_port' = f.src_port
       /\ pending_dst_port' = f.dst_port
       /\ pending_length' = Len(f.data)
       /\ pending_reply' = TRUE
       /\ stored' = {f}

-----------------------------------------------------------------------------
(* The network and libliteeth (external) *)

Arrive == \E f \in Requests \cup ArpReplies :
  /\ Len(rx) < RxSlots
  /\ rx' = Append(rx, f)
  /\ UNCHANGED <<bram, pending, pending_reply, cache, pc, tries, tx, stored>>

udp_service ==
  IF rx = <<>>
  THEN UNCHANGED <<rx, bram, pending, pending_reply, cached_mac, stored>>
  ELSE LET f == Head(rx) IN
       /\ rx' = Tail(rx)
       /\ IF f \in Requests
          THEN echo_rx(f) /\ UNCHANGED cached_mac
          ELSE /\ cached_mac' = (cached_mac \/ f.arp_ip = cached_ip)
               /\ UNCHANGED <<bram, pending, pending_reply, stored>>

-----------------------------------------------------------------------------
(* The main loop *)

Service ==
  /\ pc = "service" /\ udp_service
  /\ pc' = "check" /\ tx' = {}
  /\ UNCHANGED <<cached_ip, tries>>

\* The test of pending_reply, and the entry of udp_arp_resolve: a hit in the
\* cache returns at once, a miss forgets the cached pair.
Check ==
  /\ pc = "check"
  /\ pending_reply' = FALSE
  /\ IF ~pending_reply
     THEN pc' = "service" /\ UNCHANGED <<cache, tries>>
     ELSE IF cached_ip = pending_src_ip /\ cached_mac
     THEN pc' = "send" /\ UNCHANGED <<cache, tries>>
     ELSE /\ pc' = "resolve" /\ tries' = 0
          /\ cached_ip' = pending_src_ip /\ cached_mac' = FALSE
  /\ UNCHANGED <<rx, bram, pending, tx, stored>>

\* One poll inside udp_arp_resolve; its failure is the continue of main.
Resolve ==
  /\ pc = "resolve" /\ udp_service
  /\ tries' = tries + 1
  /\ pc' = IF cached_mac' THEN "send"
           ELSE IF tries' = MaxTries THEN "service" ELSE "resolve"
  /\ UNCHANGED <<cached_ip, tx>>

\* The datagram udp_send builds: it is addressed to the cached pair, the rest
\* comes from the pending reply.
Datagram(length) ==
  [ip |-> cached_ip, src |-> pending_dst_port, dst |-> pending_src_port,
   data |-> [k \in 1..length |-> bram[k - 1]]]

\* Mutant of Send: the whole EchoSlave is read back, not pending_length words.
Send_Whole ==
  /\ pc = "send"
  /\ tx' = {Datagram(Depth)}
  /\ pc' = "service"
  /\ UNCHANGED <<rx, bram, pending, pending_reply, cache, tries, stored>>

\* Mutant of Send: pending_reply is cleared after the reply, not before.
Send_ClearLate ==
  /\ pc = "send"
  /\ tx' = {Datagram(pending_length)}
  /\ pc' = "service" /\ pending_reply' = FALSE
  /\ UNCHANGED <<rx, bram, pending, cache, tries, stored>>

\* The payload is read back from the EchoSlave and sent.
Send ==
  /\ pc = "send"
  /\ tx' = {Datagram(pending_length)}
  /\ pc' = "service"
  /\ UNCHANGED <<rx, bram, pending, pending_reply, cache, tries, stored>>

Main == Service \/ Check \/ Resolve \/ Send

Init ==
  /\ rx = <<>> /\ bram = [a \in 0..(Depth - 1) |-> 0]
  /\ pending_src_ip = NoIp /\ pending_src_port = 0 /\ pending_dst_port = 0
  /\ pending_length = 0 /\ pending_reply = FALSE
  /\ cached_ip = NoIp /\ cached_mac = FALSE
  /\ pc = "service" /\ tries = 0 /\ tx = {} /\ stored = {}

Next == Main \/ Arrive

Spec == Init /\ [][Next]_vars

\* The CPU never stops.
FairSpec == Spec /\ WF_vars(Main)

-----------------------------------------------------------------------------
(* Properties *)

(* A datagram that is sent carries the payload, the length and the ports of *)
(* one and the same request, never a mix of two, although a second request  *)
(* can overwrite the first one while the ARP query for it is out.           *)
ReplyIsOneRequest ==
  \A t \in tx : \E r \in stored :
    t.data = r.data /\ t.dst = r.src_port /\ t.src = r.dst_port

(* The request that echo_rx stored last is answered, to its own sender,     *)
(* unless a later one replaces it or its address does not resolve.  It      *)
(* rests on main clearing pending_reply before it resolves the address.     *)
LastAnswered ==
  \A r \in Requests :
    (stored = {r} /\ pending_reply) ~>
      \/ stored # {r}
      \/ \E t \in tx : t.ip = r.src_ip /\ t.dst = r.src_port /\ t.data = r.data
      \/ pc = "service" /\ cached_ip = r.src_ip /\ ~cached_mac

(* README.md: the firmware reads each payload back "and echoes it to the    *)
(* host": a reply goes to the client whose request it carries.              *)
ReplyToSender ==
  \A t \in tx : \E r \in stored : t.data = r.data /\ t.ip = r.src_ip
=============================================================================
