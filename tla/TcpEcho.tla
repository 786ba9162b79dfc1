------------------------------ MODULE TcpEcho ------------------------------
(***************************************************************************)
(* The TCP echo server of firmware-tcp/echo_tcp.c on lwIP's raw API, and   *)
(* the clients of host/measure_tcp.py.  A segment is handled in one step,  *)
(* as in the single-threaded main loop: the acknowledgement it carries,    *)
(* the callback, what tcp_write takes from the one heap that all           *)
(* connections share, and the tcp_output at the end of tcp_input.  Sizes   *)
(* are bytes.  Payload is told apart by its place in the client's stream:  *)
(* a stream is a sequence of runs <<first byte, number of bytes>>, joined  *)
(* where they meet, so <<<<0, n>>>> is the first n bytes in order.         *)
(* Segments of one direction keep their order; those to the board may be   *)
(* handed over in groups, as lwIP does when a gap is filled.               *)
(***************************************************************************)
EXTENDS Integers, Sequences, FiniteSets
LOCAL Ext == INSTANCE SequencesExt

CONSTANTS Sizes,       \* payload sizes of the samples of each client, in turn
          MaxTimeouts, \* bound: timeouts of recv_exact, for each client
          Interrupted, \* bound: the clients that may be stopped at any time
          MaxPcbs,     \* MEMP_NUM_TCP_PCB
          MemSize,     \* MEM_SIZE
          Mss,         \* TCP_MSS
          SndBuf,      \* TCP_SND_BUF
          QueueLen,    \* TCP_SND_QUEUELEN
          Hdr, Raw,    \* heap bytes of a pbuf beside its data, with room for
                       \* the protocol headers (PBUF_TRANSPORT) and without
          SynOpt       \* bytes of the MSS option of a SYN

\* Bound: each client connects once, in the order of their numbers.
Clients == DOMAIN Sizes

ASSUME TcpAssumption ==
  /\ {MaxPcbs, MemSize, Mss, SndBuf, QueueLen, Hdr, Raw, SynOpt} \subseteq Nat \ {0}
  /\ MaxTimeouts \in [Clients -> Nat] /\ Interrupted \subseteq Clients
  /\ \A c \in Clients : \A k \in 1..Len(Sizes[c]) : Sizes[c][k] \in 1..Mss

VARIABLES pcb,      \* per client: its tcp_pcb on the board
          halted,   \* the board is in LWIP_PLATFORM_ASSERT's loop
          net,      \* segments of the client that the board has not handled
          cl,       \* "new", "connecting", "ready", "reading", "closed"
          rcv,      \* how many of the board's segments the client's host has
          rcvd,     \* all bytes its host has received
          pos,      \* how many of them finished calls of recv_exact have taken
          got,      \* how many are in the buf of the present call
          sent, timeouts,  \* samples sent, and timeouts
          rtt       \* the last sample timed, and the bytes it was timed with

host == <<rcv, rcvd, pos, got, sent, timeouts, rtt>>
vars == <<pcb, halted, net, cl, host>>

-----------------------------------------------------------------------------
(* Streams *)

Bytes(s) == Ext!FoldLeft(LAMBDA n, r : n + r[2], 0, s)

Join(s, r) ==
  IF s # <<>> /\ s[Len(s)][1] + s[Len(s)][2] = r[1]
  THEN [s EXCEPT ![Len(s)][2] = @ + r[2]] ELSE Append(s, r)

Cat(s, t) == Ext!FoldLeft(Join, s, t)

RECURSIVE Take(_, _), Drop(_, _)
Take(s, n) ==
  IF n = 0 THEN <<>>
  ELSE IF n < s[1][2] THEN << <<s[1][1], n>> >>
  ELSE <<s[1]>> \o Take(Tail(s), n - s[1][2])

Drop(s, n) ==
  IF n = 0 THEN s
  ELSE IF n < s[1][2] THEN << <<s[1][1] + n, s[1][2] - n>> >> \o Tail(s)
  ELSE Drop(Tail(s), n - s[1][2])

\* Where sample k of a client begins in its stream.
Start(c, k) == Ext!FoldLeft(+, 0, SubSeq(Sizes[c], 1, k - 1))

Payload(c, k) == << <<Start(c, k), Sizes[c][k]>> >>

-----------------------------------------------------------------------------
(* lwIP's heap and send queues.  una and nxt count the segments of a        *)
(* connection that are acknowledged and sent; snd holds those after una.    *)

Closed == [state |-> "CLOSED", snd |-> <<>>, una |-> 0, nxt |-> 0, refused |-> "NULL"]

Pcbs == { c \in Clients : pcb[c].state # "CLOSED" }
InState(P, s) == { c \in Clients : P[c].state = s }

Align(n) == 4 * ((n + 3) \div 4)

Pbufs(p) == UNION { p.snd[k].blocks : k \in DOMAIN p.snd }
Blocks(P) == UNION { Pbufs(P[c]) : c \in Clients }

\* mem_malloc: the lowest address at which n bytes are free.
Fits(B, n) ==
  { a \in {0} \cup { b[1] + b[2] : b \in B } :
      a + n <= MemSize /\ \A b \in B : a + n <= b[1] \/ b[1] + b[2] <= a }
Alloc(B, n) == <<Ext!Min(Fits(B, n)), n>>

Queued(p) == Ext!FoldLeft(LAMBDA n, s : n + Bytes(s.data), 0, p.snd)
Unsent(p) == p.una + Len(p.snd) - p.nxt

\* tcp_write with TCP_WRITE_FLAG_COPY: the room left in the last unsent segment,
\* then a pbuf chained to it, then a new segment, in a block of the exact size
\* only when nothing is queued.  When a block is missing nothing is changed.
tcp_write(P, c, data) ==
  LET p == P[c]
      q == p.snd
      len == Bytes(data)
      last == q[Len(q)]
      one == IF Unsent(p) = 0 THEN 0 ELSE Ext!Min({last.room, len})
      space == IF Unsent(p) = 0 THEN 0 ELSE Mss - Bytes(last.data) - one
      two == Ext!Min({space, len - one})
      three == len - one - two
      size == Hdr + (IF q = <<>> THEN Align(three) ELSE Mss)
      B == Blocks(P)
      tail == IF two = 0 THEN {} ELSE {Alloc(B, Raw + Align(space))}
      n == Cardinality(Pbufs(p)) + Cardinality(tail)
      q1 == IF one + two = 0 THEN q
            ELSE [q EXCEPT ![Len(q)] =
                    [@ EXCEPT !.data = Cat(@, Take(data, one + two)),
                              !.blocks = @ \cup tail,
                              !.room = IF two = 0 THEN @ - one ELSE space - two]]
      seg == [data |-> Drop(data, one + two), fin |-> FALSE,
              room |-> IF q = <<>> THEN 0 ELSE Mss - three,
              blocks |-> {Alloc(B \cup tail, size)}]
  IN  IF /\ len <= SndBuf - Queued(p) /\ Cardinality(Pbufs(p)) < QueueLen
         /\ two > 0 => Fits(B, Raw + Align(space)) # {}
         /\ three > 0 => n < QueueLen /\ Fits(B \cup tail, size) # {}
      THEN [ok |-> TRUE,
            P |-> [P EXCEPT ![c].snd = IF three = 0 THEN q1 ELSE Append(q1, seg)]]
      ELSE [ok |-> FALSE, P |-> P]

\* tcp_output with Nagle: the last segment waits while others are out, unless it
\* is full, the buffer is, or a FIN or a failed tcp_write hurries it.
tcp_output(P, c, memerr) ==
  LET p == P[c]
      last == p.snd[Len(p.snd)]
      hurry == \/ memerr \/ last.fin \/ Bytes(last.data) >= Mss
               \/ Unsent(p) = 1 /\ p.nxt = p.una
               \/ Queued(p) = SndBuf \/ Cardinality(Pbufs(p)) >= QueueLen
  IN  IF Unsent(p) = 0 THEN P
      ELSE [P EXCEPT ![c].nxt = p.una + Len(p.snd) - (IF hurry THEN 0 ELSE 1)]

\* tcp_close_shutdown_fin in CLOSE_WAIT: the FIN rides on the last unsent
\* segment or needs a block; without one the connection stays TF_CLOSEPEND.
SendFin(P, c) ==
  LET p == P[c]
      k == Len(p.snd)
      fin == [data |-> <<>>, fin |-> TRUE, room |-> 0,
              blocks |-> {Alloc(Blocks(P), Hdr)}]
  IN  IF Unsent(p) > 0
      THEN tcp_output([P EXCEPT ![c].state = "LAST_ACK", ![c].snd[k].fin = TRUE],
                      c, FALSE)
      ELSE IF Fits(Blocks(P), Hdr) # {}
      THEN tcp_output([P EXCEPT ![c].state = "LAST_ACK", ![c].snd = Append(@, fin)],
                      c, FALSE)
      ELSE P

-----------------------------------------------------------------------------
(* Connections *)

\* Mutant of Removed: tcp_pcb_purge does not free the queued segments.
Removed_Mutant(p) == [p EXCEPT !.state = "CLOSED"]

\* tcp_pcb_remove and tcp_free.
Removed(p) == Closed

\* Mutant of Acked: what is on the unsent list is freed with it.
Acked_Mutant(p, ack) ==
  IF ack <= p.una THEN p
  ELSE [p EXCEPT !.una = ack, !.snd = SubSeq(@, ack - p.una + 1, p.nxt - p.una),
                 !.state = IF @ = "SYN_RCVD" THEN "ESTABLISHED" ELSE @]

\* tcp_free_acked_segments, and the handshake's end in tcp_process.
Acked(p, ack) ==
  IF ack <= p.una THEN p
  ELSE [p EXCEPT !.una = ack, !.snd = SubSeq(@, ack - p.una + 1, Len(@)),
                 !.state = IF @ = "SYN_RCVD" THEN "ESTABLISHED" ELSE @]

\* The FINs that tcp_handle_closepend tries again, in any order of the list.
Pending(P) == { c \in InState(P, "CLOSE_WAIT") : P[c].refused = "NULL" }
Handled == { Ext!FoldLeft(SendFin, pcb, s) : s \in Ext!SetToSeqs(Pending(pcb)) }

\* The connections after tcp_alloc: a pcb is free, or FINs that wait are tried
\* again and a connection in LAST_ACK is dropped, if there is one.
tcp_alloc ==
  IF Cardinality(Pcbs) < MaxPcbs THEN {pcb}
  ELSE UNION { IF InState(P, "LAST_ACK") = {} THEN {P}
               ELSE { [P EXCEPT ![d] = Removed(@)] : d \in InState(P, "LAST_ACK") }
             : P \in Handled }

\* A SYN arrives (tcp_listen_input).  Without a pcb or a block for the SYN|ACK
\* it is ignored, and the client's host sends it again.
Syn(c) ==
  /\ ~halted /\ cl[c] = "new" /\ \A d \in Clients : cl[d] = "new" => c <= d
  /\ \E P \in tcp_alloc :
       LET free == Cardinality({ d \in Clients : P[d].state # "CLOSED" }) < MaxPcbs
           syn == [data |-> <<>>, fin |-> FALSE, room |-> 0,
                   blocks |-> {Alloc(Blocks(P), Hdr + SynOpt)}]
       IN  IF free /\ Fits(Blocks(P), Hdr + SynOpt) # {}
           THEN /\ pcb' = [P EXCEPT ![c] = [Closed EXCEPT !.state = "SYN_RCVD",
                                                        !.snd = <<syn>>, !.nxt = 1]]
                /\ cl' = [cl EXCEPT ![c] = "connecting"]
           ELSE pcb' = P /\ UNCHANGED cl
  /\ UNCHANGED <<halted, net, host>>

\* Mutants of AckIn: tcp_output is not called at the end of tcp_input, and
\* LAST_ACK does not end.
AckIn_Mutant(c) ==
  /\ ~halted /\ pcb[c].refused = "NULL" /\ pcb[c].state # "CLOSED"
  /\ rcv[c] > pcb[c].una
  /\ LET P == [pcb EXCEPT ![c] = Acked(@, rcv[c])]
     IN  pcb' = IF P[c].state = "LAST_ACK" /\ P[c].snd = <<>>
                THEN [P EXCEPT ![c] = Removed(@)] ELSE P
  /\ UNCHANGED <<halted, net, cl, host>>

AckIn_KeepsPcb(c) ==
  /\ ~halted /\ pcb[c].refused = "NULL" /\ pcb[c].state # "CLOSED"
  /\ rcv[c] > pcb[c].una
  /\ pcb' = tcp_output([pcb EXCEPT ![c] = Acked(@, rcv[c])], c, FALSE)
  /\ UNCHANGED <<halted, net, cl, host>>

\* An ACK without data.  In LAST_ACK the last one frees the pcb.
AckIn(c) ==
  /\ ~halted /\ pcb[c].refused = "NULL" /\ pcb[c].state # "CLOSED"
  /\ rcv[c] > pcb[c].una
  /\ LET P == [pcb EXCEPT ![c] = Acked(@, rcv[c])]
     IN  pcb' = IF P[c].state = "LAST_ACK" /\ P[c].snd = <<>>
                THEN [P EXCEPT ![c] = Removed(@)] ELSE tcp_output(P, c, FALSE)
  /\ UNCHANGED <<halted, net, cl, host>>

\* A RST, or a segment for a connection that the board no longer has, which is
\* answered with a RST and ends the client.
Rst(c) ==
  /\ ~halted /\ pcb[c].refused = "NULL" /\ net[c] # <<>>
  /\ pcb[c].state = "CLOSED" \/ Head(net[c]).kind = "rst"
  /\ pcb' = [pcb EXCEPT ![c] = IF @.state = "CLOSED" THEN @ ELSE Removed(@)]
  /\ net' = [net EXCEPT ![c] = <<>>] /\ cl' = [cl EXCEPT ![c] = "closed"]
  /\ UNCHANGED <<halted, host>>

\* The timers: tcp_fasttmr tries a FIN again, and tcp_slowtmr gives up
\* handshakes and closes that take too long.
FastTmr(c) ==
  /\ ~halted /\ c \in Pending(pcb)
  /\ pcb' = SendFin(pcb, c)
  /\ UNCHANGED <<halted, net, cl, host>>

SlowTmr(c) ==
  /\ ~halted /\ pcb[c].refused = "NULL" /\ pcb[c].state \in {"SYN_RCVD", "LAST_ACK"}
  /\ pcb' = [pcb EXCEPT ![c] = Removed(@)]
  /\ UNCHANGED <<halted, net, cl, host>>

-----------------------------------------------------------------------------
(* echo_recv and tcp_input *)

\* Mutant of echo_recv: the loop does not advance past the first pbuf at once.
echo_recv_Mutant(P, c, chain) ==
  Ext!FoldLeft(LAMBDA r, data : IF r.ok THEN tcp_write(r.P, c, data) ELSE r,
               [ok |-> TRUE, P |-> P],
               IF chain = <<>> THEN chain ELSE <<chain[1]>> \o chain)

\* Each pbuf of the chain goes through the EchoSlave and to tcp_write; the first
\* error ends the loop and is returned, and the chain is freed in any case.  (A
\* pbuf holds at most TCP_MSS bytes: PBUF_POOL_BUFSIZE is one frame.)
echo_recv(P, c, chain) ==
  Ext!FoldLeft(LAMBDA r, data : IF r.ok THEN tcp_write(r.P, c, data) ELSE r,
               [ok |-> TRUE, P |-> P], chain)

\* The next n segments are delivered together, a FIN at most as the last.  Data
\* for which echo_recv returns an error is kept as refused_data, though it has
\* been freed, and a FIN behind it waits.
Input(c) ==
  /\ ~halted /\ pcb[c].refused = "NULL"
  /\ pcb[c].state \in {"SYN_RCVD", "ESTABLISHED"}
  /\ \E n \in 1..Len(net[c]) :
       LET segs == SubSeq(net[c], 1, n)
           fin == segs[n].kind = "fin"
           chain == [k \in 1..(IF fin THEN n - 1 ELSE n) |-> segs[k].data]
           r == echo_recv([pcb EXCEPT ![c] = Acked(@, segs[n].ack)], c, chain)
           P == [r.P EXCEPT ![c].state = IF fin THEN "CLOSE_WAIT" ELSE @,
                            ![c].refused = IF r.ok THEN @ ELSE "freed"]
       IN  /\ \A k \in 1..n : segs[k].kind # "rst"
           /\ pcb' = IF fin /\ r.ok THEN SendFin(P, c) ELSE tcp_output(P, c, ~r.ok)
           /\ net' = [net EXCEPT ![c] = SubSeq(@, n + 1, Len(@))]
  /\ UNCHANGED <<halted, cl, host>>

\* tcp_process_refused_data, from tcp_input for the next segment or from
\* tcp_fasttmr, hands the freed pbuf to echo_recv again.  Bytes that are there
\* by then may be echoed; its second pbuf_free fails its assertion.
Redeliver(c) ==
  /\ ~halted /\ pcb[c].refused = "freed"
  /\ halted' = TRUE
  /\ \E stale \in {<<>>, <<[data |-> <<<<-2, 1>>>>, fin |-> FALSE, room |-> 0,
                            blocks |-> {}]>>} :
       pcb' = [pcb EXCEPT ![c].snd = @ \o stale,
                          ![c].nxt = pcb[c].una + Len(pcb[c].snd) + Len(stale)]
  /\ UNCHANGED <<net, cl, host>>

-----------------------------------------------------------------------------
(* The client's host, external, and measure_tcp.py *)

Segment(c, kind, data) == [kind |-> kind, data |-> data, ack |-> rcv[c]]

\* A segment reaches the host.  What a closed socket cannot take is answered
\* with a RST; its host still acknowledges a FIN.
Deliver(c) ==
  /\ pcb[c].state # "CLOSED" /\ rcv[c] < pcb[c].nxt
  /\ LET seg == pcb[c].snd[rcv[c] - pcb[c].una + 1]
     IN  IF cl[c] = "closed" /\ ~(seg.fin /\ seg.data = <<>>)
         THEN /\ \A k \in DOMAIN net[c] : net[c][k].kind # "rst"
              /\ net' = [net EXCEPT ![c] = Append(@, Segment(c, "rst", <<>>))]
              /\ UNCHANGED <<cl, rcv, rcvd>>
         ELSE /\ rcv' = [rcv EXCEPT ![c] = @ + 1]
              /\ rcvd' = [rcvd EXCEPT ![c] = Cat(@, seg.data)]
              /\ cl' = [cl EXCEPT ![c] = IF @ = "connecting" THEN "ready" ELSE @]
              /\ UNCHANGED net
  /\ UNCHANGED <<pcb, halted, pos, got, sent, timeouts, rtt>>

\* sendall of the next payload.
Send(c) ==
  /\ cl[c] = "ready" /\ sent[c] < Len(Sizes[c])
  /\ cl' = [cl EXCEPT ![c] = "reading"] /\ sent' = [sent EXCEPT ![c] = @ + 1]
  /\ net' = [net EXCEPT ![c] = Append(@, Segment(c, "data", Payload(c, sent[c] + 1)))]
  /\ UNCHANGED <<pcb, halted, rcv, rcvd, pos, got, timeouts, rtt>>

NoRtt == [sample |-> 0, data |-> <<>>]

Unread(c) == Bytes(rcvd[c]) - pos[c] - got[c]

\* Whether bytes are those of a payload: byte p of sample k is the value
\* (p - Start(c, k)) % 256.
IsPayload(c, s) ==
  \A j \in DOMAIN s :
    LET before == Bytes(SubSeq(s, 1, j - 1))
        from == s[j][1]
        under == { k \in 1..sent[c] : /\ Start(c, k) < from + s[j][2]
                                      /\ from < Start(c, k + 1) }
    IN  from >= 0 /\ \A k \in under : (from - before - Start(c, k)) % 256 = 0

\* One recv of recv_exact: what is there, up to what is missing.  The last one
\* ends the sample: it is timed unless the bytes are not those of a payload.
Recv(c) ==
  /\ cl[c] = "reading" /\ Unread(c) > 0
  /\ LET n == Sizes[c][sent[c]]
         chunk == Ext!Min({Unread(c), n - got[c]})
         data == Take(Drop(rcvd[c], pos[c]), n)
     IN  IF got[c] + chunk < n
         THEN got' = [got EXCEPT ![c] = @ + chunk] /\ UNCHANGED <<cl, pos, rtt>>
         ELSE /\ got' = [got EXCEPT ![c] = 0] /\ pos' = [pos EXCEPT ![c] = @ + n]
              /\ cl' = [cl EXCEPT ![c] = "ready"]
              /\ rtt' = IF IsPayload(c, data)
                        THEN [rtt EXCEPT ![c] = [sample |-> sent[c], data |-> data]]
                        ELSE rtt
  /\ UNCHANGED <<pcb, halted, net, rcv, rcvd, sent, timeouts>>

\* socket.timeout: buf is lost, and the loop goes on with the next sample.
Timeout(c) ==
  /\ cl[c] = "reading" /\ Unread(c) = 0 /\ timeouts[c] < MaxTimeouts[c]
  /\ timeouts' = [timeouts EXCEPT ![c] = @ + 1]
  /\ pos' = [pos EXCEPT ![c] = @ + got[c]] /\ got' = [got EXCEPT ![c] = 0]
  /\ cl' = [cl EXCEPT ![c] = "ready"]
  /\ UNCHANGED <<pcb, halted, net, rcv, rcvd, sent, rtt>>

\* The client ends, and what it knows with it: at the end of main, or stopped
\* before.  Its host sends a FIN, or a RST when there is data it has not read.
Close(c) ==
  /\ \/ cl[c] = "ready" /\ sent[c] = Len(Sizes[c])
     \/ cl[c] \in {"connecting", "ready", "reading"} /\ c \in Interrupted
  /\ cl' = [cl EXCEPT ![c] = "closed"]
  /\ net' = IF cl[c] = "connecting" THEN net
            ELSE [net EXCEPT ![c] = Append(@,
                    Segment(c, IF Unread(c) > 0 THEN "rst" ELSE "fin", <<>>))]
  /\ pos' = [pos EXCEPT ![c] = 0] /\ got' = [got EXCEPT ![c] = 0]
  /\ rtt' = [rtt EXCEPT ![c] = NoRtt]
  /\ UNCHANGED <<pcb, halted, rcv, rcvd, sent, timeouts>>

Init ==
  /\ pcb = [c \in Clients |-> Closed] /\ halted = FALSE
  /\ net = [c \in Clients |-> <<>>] /\ rcvd = net
  /\ cl = [c \in Clients |-> "new"]
  /\ rcv = [c \in Clients |-> 0] /\ pos = rcv /\ got = rcv
  /\ sent = rcv /\ timeouts = rcv
  /\ rtt = [c \in Clients |-> NoRtt]

Next == \E c \in Clients :
  \/ Syn(c) \/ AckIn(c) \/ Rst(c) \/ FastTmr(c) \/ SlowTmr(c)
  \/ Input(c) \/ Redeliver(c)
  \/ Deliver(c) \/ Send(c) \/ Recv(c) \/ Timeout(c) \/ Close(c)

Spec == Init /\ [][Next]_vars

\* The main loop handles what arrives, and a link that loses nothing carries
\* segments and the acknowledgements of the client's host: again and again the
\* board has nothing left to handle for a client, and its host no segment to
\* come.  (Clients send finitely often, so this is weak fairness of Input, Rst,
\* AckIn and Deliver.)  No timer of the board is assumed to run.
CanHandle(c) == ~halted /\ pcb[c].refused = "NULL"
IsRst(c) == pcb[c].state = "CLOSED" \/ Head(net[c]).kind = "rst"
HasInput(c) ==
  /\ CanHandle(c) /\ net[c] # <<>> /\ ~IsRst(c)
  /\ pcb[c].state \in {"SYN_RCVD", "ESTABLISHED"}
HasRst(c) == CanHandle(c) /\ net[c] # <<>> /\ IsRst(c)
HasAck(c) == CanHandle(c) /\ pcb[c].state # "CLOSED" /\ rcv[c] > pcb[c].una
HasSegment(c) ==
  /\ pcb[c].state # "CLOSED" /\ rcv[c] < pcb[c].nxt
  /\ \A k \in DOMAIN net[c] : net[c][k].kind # "rst"

FairSpec ==
  Spec /\ \A c \in Clients :
            []<>~(HasInput(c) \/ HasRst(c) \/ HasAck(c)) /\ []<>~HasSegment(c)

-----------------------------------------------------------------------------
(* Properties *)

\* What the client's host has, what the board holds for it, and what the board
\* has not handled.
OnBoard(c) ==
  Ext!FoldLeft(LAMBDA s, seg : Cat(s, seg.data), <<>>,
               SubSeq(pcb[c].snd, rcv[c] - pcb[c].una + 1, Len(pcb[c].snd)))
InNet(c) == Ext!FoldLeft(LAMBDA s, seg : Cat(s, seg.data), <<>>, net[c])

FirstBytes(n) == IF n = 0 THEN <<>> ELSE << <<0, n>> >>

(* echo_tcp.c: "Each connected client receives back exactly what it sends". *)
(* What has come back is the beginning of what was sent, on every           *)
(* connection, also one that is closing, reset or dropped; and until        *)
(* tcp_write fails nothing is missing: what is received, queued (in a new   *)
(* segment, behind the last one or in a pbuf chained to it) and not yet     *)
(* handled makes up the whole stream.                                       *)
EchoExact ==
  \A c \in Clients :
    LET back == Cat(rcvd[c], OnBoard(c))
    IN  /\ pcb[c].refused = "NULL" \/ ~halted => back = FirstBytes(Bytes(back))
        /\ pcb[c].state # "CLOSED" /\ pcb[c].refused = "NULL" =>
             Cat(back, InNet(c)) = FirstBytes(Start(c, sent[c] + 1))

(* The heap is enough for a client in lock step that has the board to       *)
(* itself: echo_recv drops an echo (tcp_write returns an error) only after  *)
(* that client timed out, or while another connection exists; what ended    *)
(* connections had queued never stands in the way.                          *)
AloneNothingDropped ==
  [][\A c \in Clients :
       pcb[c].refused = "NULL" /\ pcb'[c].refused = "freed" =>
         timeouts[c] > 0 \/ \E d \in Pcbs \ {c} : TRUE]_vars

(* measure_rtt times each sample with its own echo as long as recv_exact    *)
(* has not timed out on the connection.                                     *)
TimesOwnEcho ==
  \A c \in Clients : rtt[c].sample > 0 /\ timeouts[c] = 0 =>
    rtt[c].data = Payload(c, rtt[c].sample)

\* Samples are on the way, on a connection that nothing has ended.
Owed(c) ==
  /\ Bytes(rcvd[c]) < Start(c, sent[c] + 1)
  /\ cl[c] # "closed" /\ pcb[c].state # "CLOSED"
  /\ pcb[c].refused = "NULL" /\ ~halted

(* Every sample comes back to its client, on a link that loses nothing,     *)
(* unless the connection ends, tcp_write fails for it, or the board has     *)
(* halted: no echo waits for ever behind Nagle's algorithm, though no timer *)
(* runs.                                                                    *)
EchoArrives == \A c \in Clients : []<>~Owed(c)

(* A connection that has reached LAST_ACK gives its pcb, one of two, back   *)
(* without the help of a timer.                                             *)
PcbComesBack ==
  \A c \in Clients :
    pcb[c].state = "LAST_ACK" ~> pcb[c].state = "CLOSED" \/ halted

(* lwIP's tcp.c on data its receive callback returned an error for: "data   *)
(* is still refused, pbuf is still valid".                                  *)
RefusedValid == \A c \in Clients : pcb[c].refused # "freed"

(* echo_tcp.c: "Only one client connection is accepted at a time."          *)
OneClient == Cardinality(InState(pcb, "ESTABLISHED")) <= 1

(* measure_rtt: "return RTTs in microseconds": a time it returns is that of *)
(* the sample's own round trip.                                             *)
ReturnsRtts ==
  \A c \in Clients : rtt[c].sample > 0 => rtt[c].data = Payload(c, rtt[c].sample)
=============================================================================
