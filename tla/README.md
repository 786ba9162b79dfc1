# A TLA+ model of the ECP5 Ethernet SoC

This directory models the programs of this repository that have behaviour worth
arguing about: a brute-force SAT engine in gateware with its bus slave and
its TCP firmware, a block RAM that echoes data, the UDP and TCP echo firmware,
the Ethernet driver below lwIP, lwIP's timers as this build uses them, and the
host programs as far as they are one end of a protocol. TLC checks small
instances; TLAPS proves the main safety properties for all sizes.

Source paths below leave out the leading `src/`.

## 1. The system

```
 host/sat_host.py ---TCP---+                       +--- soc/sat_slave.py --- soc/sat_solver.py
 host/measure_tcp.py -TCP--+-- MAC -- ethernetif.c |
                                 |   lwIP, timers  | Wishbone
                                 +-- sat_tcp.c ----+
                                 +-- echo_tcp.c ---+--- soc/echo_slave.py
 host/measure.py ----UDP------ MAC -- libliteeth -- firmware/echo.c -- soc/echo_slave.py
```

A board runs one of three firmwares: `firmware/echo.c` (UDP echo),
`firmware-tcp/echo_tcp.c` (TCP echo) or `firmware-tcp/sat_tcp.c` (SAT over
TCP). Each is a single thread that polls the network and the timers, and all
reactions run inside callbacks of that loop. The concurrency is therefore
between the CPU and what runs beside it: the SAT engine, the bus slave,
the DMA engines of the MAC, the free-running timer and the hosts.

### Inventory

| Part | State | Operations | Talks to | What is hard |
|---|---|---|---|---|
| SAT engine, `soc/sat_solver.py` | assignment, running, done, sat, model, cycles | start, step, found, exhausted, idle edge | slave | formula edited or search restarted under way; end by equality with a bound that depends on `n_vars` |
| SAT slave, `soc/sat_slave.py` | start pulse, sizes, literal registers, ack | bus write, bus read, self-clear of start | CPU, engine | pulse and clear in one register; a done bit of the last search |
| SAT firmware, `firmware-tcp/sat_tcp.c` | packet buffer, parse position, values read back | `sat_recv`, `sat_accept`, main loop | lwIP, slave | packets that lie about their size; registers left from the last formula; an unbounded poll |
| SAT host, `host/sat_host.py` | connection | `solve`, `encode_packet`, `decode_response`, `_parse_dimacs` | SAT firmware | the sign bit, the number of bytes to wait for |
| Echo RAM, `soc/echo_slave.py` | memory, read latch, ack | read, write | CPU | back-to-back requests, synchronous read port |
| UDP echo, `firmware/echo.c` | pending reply, RAM | `echo_rx`, main loop | libliteeth, RAM | requests that arrive during ARP resolution |
| TCP echo, `firmware-tcp/echo_tcp.c` | connections, send queues, heap | `echo_accept`, `echo_recv`, `echo_through_slave` | lwIP, RAM | two connections and one heap for all clients, partial words |
| Ethernet driver, `firmware-tcp/ethernetif.c` | transmit slot | `ethernetif_init`, `low_level_output`, `low_level_input` | MAC DMA, lwIP | slots shared with DMA, lost events |
| Timers, `firmware-tcp/sys_arch.c`, lwIP `timeouts.c` | timeout list, TCP-timer flag | `sys_now`, `sys_check_timeouts`, TCP and ARP timers | timer0, lwIP | wrap-around, a pool of two |
| Latency hosts, `host/measure.py`, `host/measure_tcp.py` | socket, samples | `measure_rtt`, `recv_exact` | echo firmware | a late echo after a timeout |
| lwIP core (TCP, ARP, IP, pbuf, memp) | | | | third party; modelled only where the firmware's callbacks meet it |
| Build scripts, start-up code, linker scripts, configuration | none at run time | | | |

`PROJECT.json` repeats this list with the status of each part, gives the source
lines of every definition, and lists the hazards at the lines where they bite.

## 2. Modules

`X.tla` is a component, `XProofs.tla` the theorems about it, `MCX.tla` with a
`.cfg` a finite instance of it. Definitions named `..._Mutant`, or with a suffix
that names a fault, such as `StartEdge_KeepDone`, are versions of the
definition below them with a plausible mistake. No specification uses them; putting one
in the place of its original must make a property fail, which shows that the
property depends on that code.

| Module | Models | Uses |
|---|---|---|
| `BruteForceSAT` | the engine, any environment | |
| `SATSlave` | registers, decoder and handshake around the engine; any bus master | instance of `BruteForceSAT` |
| `SatProtocol` | byte format: encoding, decoding, meaning of a packet | |
| `SatService` | abstract: what the accelerator promises its client | `SatProtocol` |
| `SatFirmware` | `sat_recv` on the CPU as master of the slave | instance of `SATSlave` |
| `EchoSlave` | the block RAM, any bus master | |
| `EchoFirmware` | `echo_through_slave` as master of the RAM | extends `EchoSlave` |
| `UdpEcho` | `echo_rx` and the UDP main loop | |
| `FrameFifo` | abstract: a bounded queue of frames, lossless or lossy | |
| `EthTx`, `EthRx` | the two halves of the driver against the MAC's DMA | refine `FrameFifo` |
| `SysTimeouts` | `sys_now` and the timeout list | |
| `MainLoop` | the loop of the TCP firmware on one CPU | extends `EthTx`, instances of `EthRx`, `SysTimeouts` |
| `TcpEcho` | the echo callbacks, lwIP's connections, send queues and heap, the measuring clients | |

### Hardware

One step is one clock edge. A component's edge is the conjunction of
its register updates (`AckEdge /\ StartEdge /\ WriteEdge /\ ...`), each reading the values
before the edge and fixing the ones after it. Blocks are wired by `INSTANCE ...
WITH`: `SATSlave` substitutes slices of its literal registers for the
engine's inputs, as the code does. Widths are kept: registers are integers in
`0..2^w-1` and additions, truncations and slices are `%` and `\div`.

* `BruteForceSAT`: `StartEdge`, `SatEdge`, `UnsatEdge`, `StepEdge` and
  `IdleEdge` are the branches of the `If`/`Elif` tree in `elaborate`. The
  environment may raise `start` and change one formula register at every edge.
  The ghost `fresh` says that the formula is unchanged since the last start.
* `SATSlave`: the master holds a request until it sees the ack and may put the
  next up at once or after any pause.
* `EchoSlave`: the same bus; `rd_data` latches the word before the
  edge, as the synchronous read port does. The ghost `written` is what the master
  believes the memory holds.

### Firmware

A firmware module adds a program counter and the callback's locals. `SatFirmware` and
`EchoFirmware` keep the clock: the CPU issues the bus access its `pc` calls for,
holds it, and moves on at the edge that sees the ack, with any number of cycles
in between. The others step from one point where something outside can
intervene to the next.

* `SatFirmware`: `Receive` is the flattening and the validation with their early
  returns, then the clear loop (`ClearNext`, `ClearDone`), the parser (`LiteralNext`,
  `Terminator`, `Surplus`, `ParseDone`), the three writes (`WriteNext`), the poll
  loop (`PollNext`), the two reads (`CtrlNext`, `ModelNext`) and `Respond`.
* `EchoFirmware`: the write loop and the read loop of `echo_through_slave`, with
  the byte-to-word copy of the last, partial word.
* `UdpEcho`: `Service`, `Check`, `Resolve`, `Send` are the points of the main
  loop; every poll inside `udp_arp_resolve` can run `echo_rx`. `udp_service` and
  `udp_arp_resolve` belong to libliteeth, which is not in this repository; they are modelled from
  their use. Lengths are in words.
* `EthTx`, `EthRx`: the driver's loops, word by word where the DMA can
  interleave. The DMA engines belong to LiteEth and are modelled from the
  registers the driver uses.
* `SysTimeouts`: `Fire` runs one handler, including its re-arming;
  `TIME_LESS_THAN` is lwIP's modular comparison; the clock is
  `ticks \div TicksPerMs` of a counter with its own period, as `sys_now` has it.
* `MainLoop`: one program counter for the whole CPU. `ethernetif_input` takes at most
  one frame, lwIP's reaction to it may call `low_level_output` and opens or ends a
  connection, then `sys_check_timeouts` runs all timers that are due, each of which
  may send as well. What lwIP sends is left open.
* `TcpEcho`: one step is one call of `tcp_input` or of a timer, with everything it
  calls. `Syn` is `tcp_listen_input` with `tcp_alloc`, which retries pending FINs and
  takes over a connection in LAST_ACK; `Input` handles data and FIN, with `echo_recv`,
  and `AckIn` a bare ACK, both with the `tcp_output` at the end; `Rst`, `FastTmr` and
  `SlowTmr` end connections; `Redeliver` is the second delivery of refused data.
  `tcp_write` is modelled by its three phases, with heap blocks at addresses
  (`mem_malloc` is first fit), because it depends on the layout of the heap whether it
  fails. `Send`, `Recv`, `Timeout` and `Close` are `measure_rtt`, one `recv` of
  `recv_exact`, its timeout and the end of `main`; `Deliver` is the client's host.
  The bytes of a stream are runs of positions in what the client sent, so a lost,
  repeated or exchanged byte shows, while the client compares values only, which
  repeat every 256 bytes.

## 3. What TLC checks

`tlc -config X.cfg M` in this directory. All bounds are constants of the modules,
given in the `.cfg` or the MC module. Deadlock is checked in every run but those of
`TcpEcho`, where all clients may be done or the board halted.

| Run | Module, configuration | Properties | Result |
|---|---|---|---|
| `solver` | `MCBruteForceSAT` | `TypeOK` `SearchInv` `DoneMeansIdle` `AnswerExact` `AnswerMeansSatisfiable` `Termination` | holds |
| `slave` | `MCSATSlave` | `TypeOK` `StartPulse` `NoStaleDone` `AckAnswersRequest` `EngineSpec` | holds |
| `sat_firmware` | `MCSatFirmware` | `TypeOK` `WritesMapped` `RunsOnlyWhilePolled` `ReadsOwnResult` `HostAnswer` `ImplementsService` | holds |
| `echo_firmware` | `MCEchoFirmware` | `ReadsLastWrite` `MemInv` `EchoIdentity` `LegalMaster` `CallReturns` | holds |
| `udp_echo` | `MCUdpEcho` | `ReplyIsOneRequest` `LastAnswered` | holds |
| `udp_reply_to_sender` | `MCUdpEcho`, `MCUdpEchoSender.cfg` | `ReplyToSender` | violated |
| `main_loop` | `MCMainLoop` | `TypeOK` `TxIntact` `CopiesOldest` `TcpTimerOnce` `DueOrder` `PoolSuffices` `SendsInOrder` `ReceivesInOrder` `LoopGoesOn` | holds |
| `timeouts_wrap` | `MCSysTimeouts`, `MCSysTimeoutsWrap.cfg` | `WrapHarmless` | violated |
| `tcp_echo` | `MCTcpEcho` | `EchoExact` `TimesOwnEcho` `AloneNothingDropped` `EchoArrives` `PcbComesBack` | holds |
| `tcp_refused` | `MCTcpEcho`, `MCTcpEchoBurst.cfg` | `RefusedValid` | violated |
| `tcp_one_client` | `MCTcpEcho`, `MCTcpEchoClients.cfg` | `OneClient` | violated |
| `tcp_rtt` | `MCTcpEcho`, `MCTcpEchoRtt.cfg` | `ReturnsRtts` | violated |

### What the runs show, and why their bounds are enough

**`solver`.** Two variables, two clauses of two literals, `n_vars` from 0 to one
more than the engine has, literals unused, of either sign, and one that names a
variable past `MaxVars`. `n_vars = 3` makes `max_assign` wrap to the width of the
assignment, and lowering `n_vars` during a search leaves the assignment past
the bound, so both edges of the search's end occur. `AnswerExact` is about the
bits; `AnswerMeansSatisfiable` compares the verdict with a definition of
satisfiability that mentions none of the hardware. `Termination` assumes only
that the environment stops restarting and editing.

**`slave`.** Every kind of register is written, including one past the last
literal and values wider than a register, at any spacing, back to back included.
`AckAnswersRequest` goes both ways: an ack comes only for a request that has stood
unanswered, and a register or the start pulse changes only with the ack of a write.
`NoStaleDone` is what
the poll loop of the firmware rests on: an acknowledged read of CTRL with `done` set
has no start still on its way. `EngineSpec` is a refinement: seen through the
wiring the slave is one of the environments `BruteForceSAT` allows, which is why
what holds of the engine holds behind the bus.

**`sat_firmware`.** The whole stack from packet to reply, packets in any order
and number, for an engine of two variables and two clauses: all formulas
over five clauses that use only declared variables, and eleven packets that
are short, too long for the buffer, invalid, or disagree with their own header.
Two packets in a row are enough for anything one formula can leave behind for
the next; the run has no limit on their number. `ImplementsService` shows that
the callback, slave and engine implement `SatService`, fairness included, so every accepted
packet is answered. `HostAnswer` closes the loop at the host: from the formula
given to `solve`, through `encode_packet`, and back through `decode_response`,
the result is the truth about that formula.

**`echo_firmware`.** Two words of two bytes, a byte being one bit, and all
buffers from one byte to the full memory, one call after the other: each
remainder of a word, and each shorter buffer after a longer one. Every write of
a buffer differs from the stale memory for some pair of buffers.
`LegalMaster` is the refinement that lets `EchoCorrect` below apply.

**`udp_echo`, `udp_reply_to_sender`.** Two clients, two ports, payloads of two
and of one word, two receive slots, two polls of an ARP resolution. A long and
a short payload make a mixed reply visible. A reply is always one request's,
and the request stored last is answered; the reply may go to another client (see
findings).

**`main_loop`, `timeouts_wrap`.** Two slots of two words (the build has two slots),
frames shorter than a slot, equal to one and, when sending, too long for one. Frames
differ in words, so a slot that is overwritten too early shows. Frames may have a bad
checksum, arrive before `ethernetif_init`, or find no pbuf. A millisecond is two
ticks, the clock repeats after 8 ms (12 in `timeouts_wrap`), the intervals are 4 and
1 ms in the place of 1000 and 250, and, as in the build, the clock wraps far below half
of the modulus. The loop is at most `MaxLag` ticks late. Four mixtures of traffic
divide the cases, as all of them at once are too many: time passes only under light
traffic.

**`tcp_echo`.** The numbers of `lwipopts.h`: a heap of 3072 bytes, an MSS of 1460, a
send buffer of two of them, a queue of eight pbufs, two pcbs; and 80 bytes of the heap
for the headers of a block, 24 without room for protocol headers. The first client
sends 256, 512 and 512 bytes with up to two timeouts. So it can have all three in
flight, the second waiting for Nagle in an oversized block and the third filling it.
The second client sends 1400 bytes, half of the heap, and the third finds no pcb while
both are connected. They connect in this order, once each; the third may be stopped at
any time. All sizes are among those of `measure_tcp.py`.

* `EchoExact` covers every connection, also closing and ended ones. What came back is
  a prefix of what was sent, and until `tcp_write` fails nothing is missing. Only a
  connection whose refused data the board has halted on is exempt: bytes of a freed
  pbuf may have been sent there.
* `AloneNothingDropped` says when `tcp_write` cannot fail: one client, no timeout.
  Both conditions are needed, as a second connection shares the heap.
* `EchoArrives` and `PcbComesBack` need no timer, which matters because finding 2
  says that the timers stop.

**`tcp_refused`, `tcp_one_client`, `tcp_rtt`.** Two clients, three samples of 1400
bytes each, two timeouts each. `tcp_refused` ends after two samples that arrive
together; with segments one by one a third is needed.

### Fairness

Liveness is stated only under weak fairness of what cannot stop: the clock while a
search or a call is going on (`BruteForceSAT`, `SatFirmware`, `EchoFirmware`: nothing
has to happen when they are idle); the CPU, which has a single thread and no sleep
(`MainLoop`, `UdpEcho`, `SysTimeouts`, and in `SatFirmware` and `EchoFirmware` its next
access within a call); timer0 (`SysTimeouts`); and the MAC's transmitter, which the link never blocks
(`MainLoop`). In `TcpEcho` it is the main loop, which handles what arrives, and a link and
hosts that carry and acknowledge segments. No timer of the board is assumed to run, so
nothing rests on retransmission. It is written as "again and again nothing is left to
handle", which is the same for clients that send finitely often. Nothing is assumed of
host programs: no packet need arrive, no client need send, read or close.

### Findings

Five statements of the repository do not hold of the code.

1. `firmware/echo.c:148` (`udp_reply_to_sender`). `udp_arp_resolve` is called with
   the address of one request and polls the network while it waits. A request of
   another client that arrives then replaces the pending ports, length and
   payload, and `udp_send` sends them to the address resolved for the first. The
   comment at line 81 says that nothing writes the RAM in between.
2. `firmware-tcp/sys_arch.c:32` (`timeouts_wrap`). `sys_now` divides a 32-bit tick
   counter, so it wraps at 85 899 ms and not at 2^32 ms. A timeout due past that
   value is compared modulo 2^32 and stays in the future: the list blocks behind
   it and the timers stop. The comment at line 25 calls the wrap-around harmless.
3. `firmware-tcp/echo_tcp.c:127-131` (`tcp_refused`). When `tcp_write` fails,
   `echo_recv` frees the pbuf and returns the error; lwIP takes an error to mean that
   the callback has left the pbuf alone, keeps it as refused data and delivers it again
   at the next event, where the second `pbuf_free` halts the board in an assertion.
   It fails because 3 KB hold one full segment and one oversized block at most.
4. `firmware-tcp/echo_tcp.c:151` (`tcp_one_client`). The header of the file says that
   one client is accepted at a time and a second one refused; `echo_accept` takes
   every connection and there are two pcbs.
5. `host/measure_tcp.py:69` (`tcp_rtt`). `measure_rtt` is said to return round-trip
   times. After a timeout the next sample reads the late echo of the one before, which
   has the same bytes, and records the time until then; this goes on until the end of
   the sweep. When the size changes the payloads no longer line up, and samples are
   dropped as mismatches or, where the shift is a multiple of 256, still recorded.

## 4. What TLAPS proves

`tlapm XProofs.tla`. The theorems hold for all values of the constants that
satisfy the named assumptions, and for unbounded runs.

| Theorem | Says | From |
|---|---|---|
| `BruteForceSATProofs!TypeCorrect` | every register keeps its width | `ParamAssumption`, `InputAssumption` |
| `BruteForceSATProofs!SolverCorrect` | `SearchInv`, `DoneMeansIdle`, `AnswerExact` always hold | the same |
| `SatFirmwareProofs!HandshakeCorrect` | `RunsOnlyWhilePolled`, `ReadsOwnResult` always hold | `PacketsAssumption` (sizes positive, packets are bytes) |
| `EchoSlaveProofs!EchoCorrect` | `ReadsLastWrite`, `MemInv` always hold | `EchoAssumption` |
| `EthTxProofs!TxCorrect` | `TypeOK`, `TxIntact` always hold | `TxAssumption` |
| `EthTxProofs!TxIsFifo` | the transmit path implements the lossless `FrameFifo` | `TxAssumption` |

**The engine.** `AnswerExact` is not inductive: that unsat means every
assignment failed depends on what the search did before it stopped. `SearchInv`
adds that: while a search runs on a fresh formula, every assignment below the
current one has been rejected, the current one is not past `max_assign`, and
`cycles` equals it. `SolverInv` joins them with the types and
`DoneMeansIdle`; there is one case per kind of edge. The only fact needed about
the environment is `FormulaDetermines`: an unchanged formula has the same verdict on
each assignment. `ParamAssumption` says that the cycle counter is
wider than the assignment (20 bits to 10 in the code), so it does not wrap in
a search. Powers of two are handled by a finite case analysis over the widths,
hence the bounds 15 and 30 on them.

**The handshake.** `ReadsOwnResult` depends on timing: the poll must not be
answered before the start has cleared `done`. `BusInv` says that what is on the
bus is the access the program counter calls for, and that the start pulse is high
exactly in the ack cycle of the write at `pc = "start"`. `EngineInv` says that
the engine runs only at `pc = "poll"`, and that from there on the formula is
fresh. The step that matters is the ack of the start write, where `start`
is up: at that same edge the engine clears `done`, so no read issued after it can see the old one.

**The echo RAM.** `MemInv` says that memory and belief differ only in the word
being acknowledged; with "an ack has a request" it is inductive, because the master
holds its request.

**The transmit path.** `TxInv` adds to the types that the queued commands
occupy the slots cyclically and end just before `txslot` (`OrderInv`), so that with
a free place in the FIFO `txslot` is none of theirs; that the copied part of the current
frame stands in that slot (`CopyInv`); and that the reader has sent a prefix of the
oldest frame (`ReadInv`). The refinement mapping takes the ghost `queued` for the abstract queue:
`Start` is `Accept`, `FrameSent` is `Deliver`, all else stutters.

### Only model-checked

All liveness (`Termination`, `CallReturns`, `LoopGoesOn`, `LastAnswered`, `EchoArrives`,
`PcbComesBack`, the fair parts of `ImplementsService`, `SendsInOrder` and `ReceivesInOrder`): the
prover does not do fairness or ENABLED. What an encoding computes
for every input (`AnswerMeansSatisfiable`, `HostAnswer`, `ImplementsService`,
`EchoIdentity`) needs induction over data, which is out of its reach as well. The
invariants of `SATSlave`, `EthRx`, `SysTimeouts` and `UdpEcho` are provable and
planned; those of `TcpEcho` rest on recursive operators on streams.

## 5. What is not modelled

* lwIP beyond what the callbacks meet: sequence numbers, retransmission, windows,
  congestion control and checksums. The link of `TcpEcho` loses nothing and keeps the
  order, except that lwIP may hand over several segments at once, as after a gap. The
  removal of a connection after too many retransmissions is left out, and so is a
  host that disappears: without keep-alive its idle connection is never freed. ARP is
  taken as resolved. Segments still under way when a connection is removed are lost
  with it. lwIP is a third-party stack with its own tests.
* What the board does after the assertion of finding 3: it is halted. An
  out-of-order segment can put the assertion off, which is not modelled.
* `sat_accept`, the close path of `sat_recv` and the result of its `tcp_write`,
  which the code ignores: the connection itself is modelled for the echo server only.
* A formula that TCP delivers in two segments; `SAT_INTEGRATION.md` states that it arrives in
  one.
* The UDP host `measure.py`, and in both hosts the statistics and plots. `_parse_dimacs`.
* Odd lengths in `UdpEcho`, where payloads are counted in words; `EchoFirmware` covers them for TCP.
* LEDs and printing. Build scripts, start-up code and linker scripts, which
  have no behaviour after reset beyond the initial states of the modules.

## 6. Plan

Done, in this order, the behaviour that everything rests on first: engine,
slave, SAT firmware against its service, engine and handshake proofs; echo RAM, its
firmware and proof; Ethernet driver and the transmit proof; UDP echo; timers; the main
loop; TCP echo with its heap and its measuring clients.

Next:

1. `EthRxProofs`: `CopiesOldest` and the refinement of the lossy `FrameFifo`,
   with a cyclic-slot invariant like `OrderInv`; `DueOrder` and `TcpTimerOnce` of `SysTimeouts`.
2. `SATSlave`: `StartPulse`, `NoStaleDone` and the refinement `EngineSpec` proved, so that
   `SolverCorrect` holds behind the bus by proof; then `WritesMapped` and the
   types of `SatFirmware` for every packet.
3. A session module: `solve` with its connection and timeout, packets split over
   segments, a failing `tcp_write`, against `SatService`.
4. `measure.py` as a client of `UdpEcho`: the late echo after a timeout, the
   empty payloads at multiples of 256.
5. `LegalMaster` proved, which carries `EchoCorrect` over to `EchoFirmware`; the
   invariants of `UdpEcho`.
