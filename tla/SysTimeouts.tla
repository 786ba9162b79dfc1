---------------------------- MODULE SysTimeouts ----------------------------
(***************************************************************************)
(* The timers of the TCP firmware: sys_now of firmware-tcp/sys_arch.c over *)
(* the free-running timer0, and lwIP's timeout list (core/timeouts.c) with *)
(* the two timers this build has, the cyclic ARP timer and the TCP timer   *)
(* that runs while there are connections.  u32_t arithmetic is modulo U32. *)
(***************************************************************************)
EXTENDS Integers, Sequences, FiniteSets

LOCAL Ext == INSTANCE SequencesExt

CONSTANTS TimerPeriod,   \* ticks after which timer0 repeats, 2^32
          TicksPerMs,    \* CONFIG_CLOCK_FREQUENCY / 1000, 50000
          U32,           \* 2^32, the modulus of a time in ms
          ArpInterval,   \* ARP_TMR_INTERVAL, 1000
          TcpInterval,   \* TCP_TMR_INTERVAL, 250
          PoolSize,      \* MEMP_NUM_SYS_TIMEOUT, 2
          MaxLag         \* ticks one turn of the main loop takes at most

\* As in the build: the millisecond clock wraps far below LWIP_MAX_TIMEOUT.
TmConstants ==
  /\ TicksPerMs > 0
  /\ (TimerPeriod \div TicksPerMs) + ArpInterval + TcpInterval < U32 \div 2

VARIABLES ticks,          \* ~timer0_value
          next_timeout,   \* the list, of [h, time]
          now, pc,        \* sys_check_timeouts: its local, "main" or "loop"
          tcpip_tcp_timer_active,
          lag,            \* ticks since the last call of sys_check_timeouts
          pcbs,           \* tcp_active_pcbs || tcp_tw_pcbs
          fired           \* the handler that ran last in this call, or "none"

vars == <<ticks, next_timeout, now, pc, tcpip_tcp_timer_active, pcbs,
          fired, lag>>

-----------------------------------------------------------------------------
(* Time *)

sys_now == ticks \div TicksPerMs

TIME_LESS_THAN(t, u) == (t - u) % U32 > (U32 \div 2) - 1

\* Mutant of sys_timeout_abs: a new timeout goes to the front of the list.
sys_timeout_abs_Mutant(l, time, h) == <<[h |-> h, time |-> time]>> \o l

\* The list l with a timeout added before the first later one.
sys_timeout_abs(l, time, h) ==
  LET later == Ext!SelectInSeq(l, LAMBDA t : TIME_LESS_THAN(time, t.time))
      place == IF later = 0 THEN Len(l) + 1 ELSE later
  IN  Ext!InsertAt(l, place, [h |-> h, time |-> time])

sys_timeout(l, msecs, h) == sys_timeout_abs(l, (sys_now + msecs) % U32, h)

-----------------------------------------------------------------------------
(* Handlers, on the list l without the timeout that is due *)

\* An interval counts from the time it was due, unless that is past already.
lwip_cyclic_timer(l, due) ==
  LET next == (due + ArpInterval) % U32
  IN  /\ next_timeout' =
           sys_timeout_abs(l, IF TIME_LESS_THAN(next, sys_now)
                              THEN (sys_now + ArpInterval) % U32 ELSE next, "arp")
      /\ UNCHANGED <<tcpip_tcp_timer_active, pcbs>>

\* tcp_tmr may remove the last connection.
tcpip_tcp_timer(l) ==
  /\ pcbs' \in {pcbs, FALSE}
  /\ tcpip_tcp_timer_active' = pcbs'
  /\ next_timeout' = IF pcbs' THEN sys_timeout(l, TcpInterval, "tcp") ELSE l

-----------------------------------------------------------------------------
(* The main loop *)

\* Mutant of TcpReg: every connection starts a timer.
TcpReg_Mutant ==
  /\ pc = "main"
  /\ pcbs' = TRUE /\ tcpip_tcp_timer_active' = TRUE
  /\ next_timeout' = sys_timeout(next_timeout, TcpInterval, "tcp")
  /\ UNCHANGED <<ticks, now, pc, fired, lag>>

\* A segment from the network creates a connection (TCP_REG) ...
TcpReg ==
  /\ pc = "main"
  /\ pcbs' = TRUE /\ tcpip_tcp_timer_active' = TRUE
  /\ next_timeout' = IF tcpip_tcp_timer_active THEN next_timeout
                     ELSE sys_timeout(next_timeout, TcpInterval, "tcp")
  /\ UNCHANGED <<ticks, now, pc, fired, lag>>

\* ... or ends the last one.  The TCP timer stops by itself.
TcpRmv ==
  /\ pc = "main" /\ pcbs
  /\ pcbs' = FALSE
  /\ UNCHANGED <<ticks, next_timeout, now, pc, tcpip_tcp_timer_active, fired, lag>>

\* sys_check_timeouts is called.
Check ==
  /\ pc = "main"
  /\ pc' = "loop" /\ now' = sys_now /\ fired' = "none" /\ lag' = 0
  /\ UNCHANGED <<ticks, next_timeout, tcpip_tcp_timer_active, pcbs>>

Due == next_timeout # <<>> /\ ~TIME_LESS_THAN(now, Head(next_timeout).time)

\* Mutant of Fire: the timeout that fires is neither unlinked nor freed.
Fire_Mutant ==
  /\ pc = "loop" /\ Due
  /\ IF Head(next_timeout).h = "arp"
     THEN lwip_cyclic_timer(next_timeout, Head(next_timeout).time)
     ELSE tcpip_tcp_timer(next_timeout)
  /\ fired' = Head(next_timeout).h
  /\ UNCHANGED <<ticks, now, pc, lag>>

Fire ==
  /\ pc = "loop" /\ Due
  /\ LET t == Head(next_timeout)
     IN  /\ IF t.h = "arp" THEN lwip_cyclic_timer(Tail(next_timeout), t.time)
            ELSE tcpip_tcp_timer(Tail(next_timeout))
         /\ fired' = t.h
  /\ UNCHANGED <<ticks, now, pc, lag>>

Return ==
  /\ pc = "loop" /\ ~Due
  /\ pc' = "main"
  /\ UNCHANGED <<ticks, next_timeout, now, tcpip_tcp_timer_active, pcbs, fired, lag>>

\* timer0 counts down from 2^32 - 1 and reloads.
Tick ==
  /\ lag < MaxLag /\ lag' = lag + 1
  /\ ticks' = (ticks + 1) % TimerPeriod
  /\ UNCHANGED <<next_timeout, now, pc, tcpip_tcp_timer_active, pcbs, fired>>

\* sys_timeouts_init starts the cyclic timer.
Init ==
  /\ ticks = 0 /\ next_timeout = sys_timeout(<<>>, ArpInterval, "arp")
  /\ now = 0 /\ pc = "main" /\ fired = "none" /\ lag = 0
  /\ tcpip_tcp_timer_active = FALSE /\ pcbs = FALSE

CheckTimeouts == Check \/ Fire \/ Return
Next == CheckTimeouts \/ TcpReg \/ TcpRmv \/ Tick

Spec == Init /\ [][Next]_vars

\* The clock runs and the main loop keeps calling sys_check_timeouts.
FairSpec == Spec /\ WF_vars(Tick) /\ WF_vars(CheckTimeouts)

-----------------------------------------------------------------------------
(* Properties *)

Timers(h) == { k \in 1..Len(next_timeout) : next_timeout[k].h = h }

(* The flag says exactly whether the TCP timer is in the list, and it is    *)
(* whenever there is a connection: never two of them, never none.           *)
TcpTimerOnce ==
  /\ Cardinality(Timers("tcp")) = (IF tcpip_tcp_timer_active THEN 1 ELSE 0)
  /\ pcbs => tcpip_tcp_timer_active

(* The list is in the order of TIME_LESS_THAN, so looking at its head is    *)
(* enough, also when timers are added while the clock wraps.                *)
DueOrder ==
  \A k \in 1..(Len(next_timeout) - 1) :
    ~TIME_LESS_THAN(next_timeout[k + 1].time, next_timeout[k].time)

(* The assertion of sys_timeout_abs, "pool MEMP_SYS_TIMEOUT is empty", does *)
(* not fail.                                                                *)
PoolSuffices == Len(next_timeout) <= PoolSize

(* sys_arch.c: "lwIP only uses differences between consecutive sys_now()    *)
(* calls, so 32-bit wrap-around is harmless."  Timers go on firing.         *)
WrapHarmless == []<>(fired = "arp")
=============================================================================
