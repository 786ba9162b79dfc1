------------------------------ MODULE MainLoop ------------------------------
(***************************************************************************)
(* The main loop of the TCP firmware, ethernetif_input and then            *)
(* sys_check_timeouts for ever, over both halves of the Ethernet driver    *)
(* and the timers.  One CPU runs all of it: lwIP's reaction to a frame or  *)
(* to a timeout may call low_level_output, which waits there until the MAC *)
(* is ready, while frames go on arriving and time goes on passing.  What   *)
(* lwIP sends is left open.                                                *)
(***************************************************************************)
EXTENDS EthTx

CONSTANTS RxSlots, RxFrames,
          TimerPeriod, TicksPerMs, U32, ArpInterval, TcpInterval, PoolSize, MaxLag,
          Traffic      \* sets of [rx, tx, time]: the frames that arrive, those
                       \* lwIP sends, and whether time passes

VARIABLES rslots, wslot, cur, wpos, stat, rpc, rxslot, rxlen, pb, input, rqueued,
          ticks, next_timeout, now, tpc, tcpip_tcp_timer_active, lag, pcbs, fired,
          at,          \* where the loop is: "input", "lwip" or "timers"
          calls,       \* lwIP may send a frame from the present callback
          traffic

rx == <<rslots, wslot, cur, wpos, stat, rpc, rxslot, rxlen, pb, input, rqueued>>
tm == <<ticks, next_timeout, now, tpc, tcpip_tcp_timer_active, lag, pcbs, fired>>
loop == <<at, calls, traffic>>
all == <<vars, rx, tm, loop>>

Rx == INSTANCE EthRx WITH slots <- rslots, pc <- rpc, queued <- rqueued,
                          Frames <- RxFrames
Tm == INSTANCE SysTimeouts WITH pc <- tpc

ASSUME LoopAssumption ==
  /\ Rx!RxConstants
  /\ \A t \in Traffic : t.rx \subseteq RxFrames /\ t.tx \subseteq Frames
  /\ Tm!TmConstants

-----------------------------------------------------------------------------
(* The CPU, when no output is in progress *)

\* ethernetif_input: nothing has arrived; the driver takes a frame out of its
\* slot; the frame is given to lwIP, if there was a pbuf for it.
NoFrame ==
  /\ at = "input" /\ rpc = "poll" /\ stat = <<>> /\ at' = "timers"
  /\ UNCHANGED <<vars, rx, tm, calls, traffic>>

Receive ==
  /\ at = "input" /\ (Rx!ethernetif_init \/ Rx!Poll \/ Rx!Copy)
  /\ UNCHANGED <<vars, tm, loop>>

Deliver ==
  /\ at = "input" /\ Rx!Clear
  /\ at' = IF pb = <<>> THEN "timers" ELSE "lwip"
  /\ UNCHANGED <<vars, tm, calls, traffic>>

\* Mutant of Handled: all frames that wait are taken before the timers.
Handled_Mutant ==
  /\ at = "lwip" /\ at' = "input" /\ calls' = TRUE
  /\ Tm!TcpReg \/ Tm!TcpRmv \/ UNCHANGED tm
  /\ UNCHANGED <<vars, rx, traffic>>

\* lwIP is done with the frame, which may have opened or ended a connection.
Handled ==
  /\ at = "lwip" /\ at' = "timers" /\ calls' = TRUE
  /\ Tm!TcpReg \/ Tm!TcpRmv \/ UNCHANGED tm
  /\ UNCHANGED <<vars, rx, traffic>>

\* sys_check_timeouts.
Check ==
  /\ at = "timers" /\ Tm!Check
  /\ UNCHANGED <<vars, rx, loop>>

Fire ==
  /\ at = "timers" /\ Tm!Fire /\ calls' = TRUE
  /\ UNCHANGED <<vars, rx, at, traffic>>

Return ==
  /\ at = "timers" /\ Tm!Return /\ at' = "input"
  /\ UNCHANGED <<vars, rx, calls, traffic>>

\* lwIP sends from the handling of a frame, or of a timeout before it is
\* entered in the list again.
Send ==
  /\ calls /\ (at = "lwip" \/ (at = "timers" /\ tpc = "loop" /\ Tm!Due))
  /\ Call /\ p' \in traffic.tx
  /\ calls' = FALSE
  /\ UNCHANGED <<rx, tm, at, traffic>>

Cpu ==
  \/ Output /\ UNCHANGED <<rx, tm, loop>>
  \/ /\ pc = "idle"
     /\ NoFrame \/ Receive \/ Deliver \/ Handled \/ Check \/ Fire \/ Return \/ Send

-----------------------------------------------------------------------------
(* The MAC and the clock *)

Mac ==
  \/ Reader /\ UNCHANGED <<rx, tm, loop>>
  \/ Rx!Writer /\ cur' \in traffic.rx \cup {<<>>} /\ UNCHANGED <<vars, tm, loop>>

Tick == traffic.time /\ Tm!Tick /\ UNCHANGED <<vars, rx, loop>>

LoopInit ==
  /\ Init /\ Rx!Init /\ Tm!Init
  /\ at = "input" /\ calls = TRUE /\ traffic \in Traffic

LoopNext == Cpu \/ Mac \/ Tick

\* The CPU runs, and the link takes the words the reader has for it.
LoopSpec == /\ LoopInit /\ [][LoopNext]_all
            /\ WF_all(Cpu) /\ WF_all(Reader /\ UNCHANGED <<rx, tm, loop>>)

-----------------------------------------------------------------------------
(* Properties *)

\* low_level_input copies the oldest frame, whatever arrives meanwhile.
CopiesOldest == Rx!CopiesOldest

\* lwIP gets the stored frames in order, and the loop frees every slot again,
\* however long it is busy sending or with timers.
ReceivesInOrder == Rx!ReceivesInOrder

\* There is one TCP timer when there are connections, wherever in the loop
\* they begin and end.
TcpTimerOnce == Tm!TcpTimerOnce

\* The list of timeouts stays in the order of TIME_LESS_THAN, however late
\* sys_check_timeouts is called.
DueOrder == Tm!DueOrder

\* sys_timeout_abs never finds its pool empty.
PoolSuffices == Tm!PoolSuffices

\* The loop goes round: a transmitter that is busy, frames that keep coming,
\* and timers that are late and catch up in one call of sys_check_timeouts do
\* not keep it from either of its calls.
LoopGoesOn == []<>(at = "input" /\ rpc = "poll") /\ []<>(at = "timers")
=============================================================================
