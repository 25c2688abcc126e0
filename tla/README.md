# SCDT: a verification development

The repository holds an ns-3 application, `ScdtServer`, that builds a multicast
tree over the hosts of a simulated network, together with the stock applications
of ns-3 (`src/src/applications`) that it was grown from, their generated Python
bindings, and the BRITE topology helper (`src/src/brite`) that its scenarios
(`src/scratch`) run on. This
directory holds TLA+ models of it, TLC configurations that check them on small
instances, and proofs for TLAPS. All paths below start at the repository's root;
`scdt-server.cc:617` is short for line 617 of
`src/src/applications/model/scdt-server.cc`; the other files of
`src/src/applications/model`, and those of `src/src/applications/bindings`, are
named in the same way.

    tlc -workers 2 -config join_wide.cfg MCScdtServer.tla
    tlc -workers 2 -config data_phase.cfg MCScdtData.tla
    tlc -workers 2 -config udp_flow.cfg UdpFlow.tla
    tlc -workers 2 -config bindings.cfg Bindings.tla
    tlapm ScdtTreeProofs.tla

## The system

### Components

| component | state | operations | hard part |
|---|---|---|---|
| `ScdtServer`, joining | `m_children`, `m_shortestPing`, `m_serializedChildren`; `m_pings`, `m_pingTime`, `m_numPings`; `m_possibleParents*`, `m_nextPotentialParent`; `m_parentIp` | start, stop, one handler per packet (ATTACH, PING, PINGRESPONSE, TRY, ATTACHSUCCESS, REATTACH) | several conversations share one table of pings; answers carry no number; children are sent away; UDP, no retry |
| `ScdtServer`, data | `m_childrenSockets`, `m_parentSocket`, three timers | open the listening socket (280 s after the start), connect to the children (290 s), the root sends (300 s), forward what arrives | timers relative to each node's own start; children that change after the sockets were built |
| `ScdtServer`, leftovers | `m_data`, `m_size`, `m_sent` | `SetFill`, `Send`, ... of `UdpEchoClient` | none: nothing schedules `Send` |
| scenarios, `ScdtServerHelper` | - | create the nodes, choose the root, start times, delays | start order: the root first, or all together |
| `PacketLossCounter`, `UdpServer`, `UdpClient`, `SeqTsHeader` | bit map of a window, `m_lost`, `m_lastMaxSeqNum`; counters, one event | `NotifyReceived`, `SetBitMapSize`, `HandleRead`, `Send` | reordered and repeated packets, numbers that share a bit, a window that changes |
| `BulkSendApplication`, `PacketSink` | `m_totBytes`, `m_connected`, sockets | `SendData`, `DataSend`, the connection callbacks, `HandleAccept`, `HandleRead` | a full socket buffer, packets taken in part, the last packet, a restart |
| `OnOffApplication` | `m_residualBits`, `m_lastStartTime`, two pending events | start and stop sending, `SendPacket`, `CancelEvents`, `ScheduleNextTx` | events that cross a stop, periods that end between packets, unsigned arithmetic |
| Python bindings (`modulegen__gcc_LP64.py`) | the names the module knows, converters, skipped wrappers | `register_types`, `register_methods`, `register_functions`, and what the driver calls between them | thousands of generated calls whose order matters; errors that are only warnings |
| `UdpEchoClient`, `UdpEchoServer`, `UdpTraceClient` | counters, position in the trace | send, echo | little |
| `BriteTopologyHelper` | nodes and edges of the topology | build once, assign addresses | none: before the simulation |
| 32-bit bindings, wscripts, `time.py`, tests | - | generated, build, test code | - |

The applications run in one simulator thread. An event - an application starts
or stops, a timer fires, a socket has packets - runs to its end before the next;
the interleaving of the system is the order of the events of different nodes,
which the delays of the network decide. The stock applications do not interact with
`ScdtServer`; client and server, and sender and sink, interact over a socket of the
simulated network. The bindings are produced once, at build time, by a sequential
program.

### How the overlay is built

A starting node sends ATTACH to the root. Whoever receives ATTACH sends PING to
the asker; the PINGRESPONSE comes to `UpdateChildren`, which (1) adopts the asker
if there is room (ATTACHSUCCESS), (2) refreshes the ping time of a child, (3)
replaces a child (REATTACH to the child, ATTACHSUCCESS to the asker), or (4)
refuses with TRY and the list of its children. TRY makes the asker ping all
hosts of the list and, when the last has answered, send ATTACH to the nearest.
REATTACH makes a node ask the root again. All pings of a node, those for askers
and those of its own search, are in one ring of `MAX_PINGS` entries;
`m_possibleParentsSet` tells which entries belong to the search.

What has to be right: a node has one place in the tree or one request for one,
never two and (without losses) never none, and a lost packet costs no more than the
place of one node; no circle; the root is nobody's child; a search ends; a time in the
table is that of a ping to the host beside it; a node that believes in a parent is known
to it; a refusal names
the current children.

### What else has to be right

* The loss count of `UdpServer`: no packet that came is counted as lost, and none
  that is lost is forgotten, as long as none is later than the window. (The first packet
  of `UdpClient` is: its number, 0, is never counted.)
* A bulk transfer sends exactly `MaxBytes`, goes on whenever the buffer has room
  again, and closes its connection with these bytes out and not before. (An unlimited
  one is closed at once if its first packet does not fit into the buffer; and a restarted one
  does not go on.)
* An on-off flow is silent in Off periods and takes earned bits over to the next On period,
  all but a part of a bit for each interruption; the unsigned difference of
  `ScheduleNextTx` does not wrap; the flow ends at its limit.
* The bindings: every name is registered before it is looked up, every class that is
  handed out by pointer is reference counted, and no class of this module loses a
  method to a type that PyBindGen does not know.

## Modules

| module | contents |
|---|---|
| `MulticastTree` | the abstract specification: a tree that grows by leaves |
| `MulticastTreeProofs` | its theorems |
| `ScdtServer` | the join protocol, its properties, the refinement mapping to `MulticastTree` |
| `ScdtServerProofs` | the inductive invariant of the join protocol and its theorems |
| `ScdtParentProofs` | extends that invariant: what nodes believe about their parents |
| `ScdtTreeProofs` | extends it for behaviours in which nobody is sent away: the refinement of `MulticastTree`, one place for each node |
| `MCScdtServer` | instances for TLC: node sets, ping times, start orders, symmetry |
| `DataRelay` | the abstract specification of the data phase: each node takes over what its parent has |
| `ScdtData` | the data phase: timers, sockets to the children, forwarding, over a tree at rest; the refinement mapping to `DataRelay` |
| `ScdtDataProofs` | its inductive invariant, the refinement, and theorems |
| `MCScdtData` | a tree of four nodes for TLC |
| `PacketLossCounter` | the loss counter, as operators on a record |
| `UdpFlow`, `UdpFlowProofs` | `UdpClient` and `UdpServer` around it, over a network that loses, repeats and reorders; theorems |
| `BulkTransfer`, `BulkTransferProofs` | `BulkSendApplication` and `PacketSink` with a TCP connection between them; theorems |
| `OnOff`, `OnOffProofs` | `OnOffApplication` in discrete time; theorems |
| `BindingTypes` | the calls of `register_types`, as a table of what each looks up and registers |
| `BindingMethods` | the calls of `register_methods`, as a table of the types each class names |
| `Bindings` | the generation that works through these tables |

### `ScdtServer` and the code

The variables are the fields of the application, as functions of the node and
without the prefix `m_`, plus `net` (a FIFO queue of packets for each pair of
nodes: between two given hosts, packets take one fixed route of FIFO queues),
`status` and `lost`. `children` is `m_children[0 .. m_numChildren-1]`,
`serializedChildren` the content of the buffer `m_serializedChildren`,
`possibleParentsStk` the stack with its top last.

| action | code |
|---|---|
| `StartApplication`, `StopApplication` | 212-262 (with `DoSetup`, 189-210, as `Init`), 363-402 |
| `HandleAttach`, `HandlePing`, `HandleReattach`, `HandleTry`, `HandleAttachSuccess` | the branches of `InterpretPacket`, 599-693 |
| `PingRespUnmatched`, `PingRespPossibleParent`, `PingRespAttacher` | the PINGRESPONSE branch, 611-662: no entry, an entry of the search, an entry of an asker |
| in the last: `AddChild`, `RefreshChild`, `ReplaceChild`, `Redirect` | the four exits of `UpdateChildren`, 736-791 |
| in the second: `ChooseParent` | the end of a search, 631-660 |
| `Discard`, `Lose` | outside the repository: a host without an open socket, a full queue on the route |

Each action is a whole handler. `SendPings` takes a list so that the loop of the
TRY handler is one step, as in the code. `ChooseParent` states the result of the
two loops over the stack: the stack is emptied from its top; the candidates that
are nearer than all popped before are kept, the last of them is chosen and the
others go back in their old order.

Ports are left out (all nodes use one), and a host has one address. The texts of
the packets are model strings, and their dispatch by `memcmp` a comparison of
types: no text is a prefix of another one. Log output, `times.txt` and
`child.txt` are left out. The last branch of `InterpretPacket` (forward to the
children) is not modelled: no node sends a packet that none of the other branches
takes.

**Time.** The protocol reads the clock only to measure pings. `RoundTrip[n][s]`
is the set of the times a ping of `n` to `s` may take. The measured time is
*now - m_pingStartTime of the matched entry*, and the matched entry is the first
one with the address, which need not be that of the ping that is answered.
`Measured` works out from the queues which ping is being answered (queues are
FIFO, so answers come in the order of the pings): a round trip if it is the
matched one, a longer time if it is a later ping, a shorter one if it is an
earlier one; `Elapsed` supplies the times. A path with a delay that varies is a
set with several times. The model keeps no clock, so it allows some combinations
of times that no run of the simulator shows; a property that holds here holds for
all of them.

**Address padding.** `UpdateChildren` compares addresses with `memcmp` over the
whole `Address` object (755), bytes included that no constructor sets.
`StalePadding` says whether these may differ: then the comparison may miss a
child, at any time.

### `ScdtData` and the code

The join protocol and the data phase share only `m_children`: 280 s after an
application starts the overlay is at rest, and nothing of the data phase sends a
packet of the protocol. So the data phase is a module of its own, over a constant
`Children` of which it assumes what is checked and proved of the join protocol (`TreeAssumption`:
no node is twice a child, the root is nobody's; compare `OverlayIsTree`,
`RootIsNobodysChild` and the theorem `DataPhaseFits`, which proves this very formula of
`m_children`).

| action | code |
|---|---|
| `Init` | the three `Simulator::Schedule` of `StartApplication`, 251-260, with the start times chosen freely from `StartTimes`, none before the root's |
| `SetTcpReceiveSocket`, `SetSockets`, `rootSendData` | the functions of these names, 264-276, 302-345, 346-361 |
| `HandleTcpRead` (with `SendData`) | 283-300, 821-827 |
| `HandleAccept` | 278-281: the connection is made |
| `ConnectionFailed` | the TCP stack of a host whose port 500 is closed; the callbacks of 835-838 are not even registered |
| `Tick` | the simulator: the clock jumps to the next timer |

Packets are numbers, and a read takes any piece of what has arrived. TCP delivers
in order and without loss, at any time after the events of the present instant;
the delays are unbounded, which allows more than a network does. The send buffers
are unbounded: the 1000 packets of 100 bytes of the root fit in the default buffer of ns-3 TCP,
128 kB. `m_childrenSockets` is an array of null pointers until `SetSockets`; a use of
a null pointer ends the simulation (`aborted`).

Not modelled: `StopApplication`, which cancels none of these timers and closes none
of these sockets (the scenarios stop with the simulation, long after the data),
and children that change after `SetSockets`, which would need a newcomer or an
eviction more than four minutes after the start.

### `UdpFlow` and the code

`PacketLossCounter` is translated as operators on a record (`packet-loss-counter.cc`
31-127), so that `UdpFlow` can use it as `UdpServer` does, and a later user too. The
byte and the bit in it that `GetBit` and `SetBit` work out are the ring index
`seqNum % size`. `FoundLost` and `Ring` state the result of the loop of
`NotifyReceived`.

| action | code |
|---|---|
| `StartClient`, `Send`, `StopClient` | `udp-client.cc` 111-161, 170-209, 163-168 |
| `StartServer`, `HandleRead`, `StopServer`, `SetPacketWindowSize` | `udp-server.cc` 113-146, 159-197, 148-157, 85-90 |
| `Drop` | outside the repository: loss, a closed socket, a socket without a callback |

`inFlight` is a set: the network may reorder as it likes. A repeated packet is a
`HandleRead` that leaves its number in flight. `judged`, `inTime` and `orderly` are
history: the reference against which the counter is compared does not look at the
ring. Numbers are unbounded: `m_sent` never passes `m_count`, a `uint32_t` (or 1, if
that is 0).

The server has a socket for IPv4 and one for IPv6; the client uses one of them (`ipv6`).
`StopApplication` takes the receive callback from the first only, so what comes over IPv6
is read and counted after the stop too (`Attended`).

What one learns here: number 0 is never counted as lost, since `m_lastMaxSeqNum` starts at 0
with all bits set (`udp_first_lost`; `LaterLossesExact` is what holds instead); a packet that
is later than the window sets the bit of another
number and hides a loss, so `LostNeverOvercounts` is all that holds then; and a client
with `MaxPackets` 0 sends one packet, as `Send` is scheduled before the test.

### `BulkTransfer` and the code

| action | code |
|---|---|
| `StartApplication`, `StopApplication`, `SetMaxBytes` | `bulk-send-application.cc` 113-158, 160-173, 88-93 |
| `ConnectionSucceeded`, `ConnectionFailed`, `DataSend` with `SendData` | 219-241, with 178-217 |
| `StartSink`, `StopSink`, `HandleAccept`, `HandleRead` | `packet-sink.cc` 110-145, 147-161, 209-214, 163-195 |
| `Reset` | outside the repository: the TCP of a host whose sink has closed its sockets |

Bytes are counted, not carried. The socket is what the application relies on: a buffer
of `BufSize` bytes that takes a whole packet, a part of it or nothing (`Added`), and
calls `DataSend` when an acknowledgement frees space. `SendSize` may be above the buffer,
as its attribute allows; the socket then takes a part of the packet or nothing.

An accepted socket of the sink is `"open"` or, after `StopSink`, `"closed"`; its receive callback
stays in either case (`packet-sink.cc` takes it from the listening socket only), so what
still comes is read and counted, until the sender's connection is reset.

Two things that happen here contradict the comment of the class: a restarted application
finds `m_socket` set and sends nothing (`bulk_restart`), and an unlimited transfer of which
nothing fits into the buffer is closed (`ClosedWhenAllOut` says that this is the only case).
A third, that a sender that starts while the sink is down gets `ConnectionFailed`, which
nothing retries, contradicts none.

### `OnOff` and the code

| action | code |
|---|---|
| `StartApplication`, `StopApplication` | `onoff-application.cc` 148-187, 189-202 |
| `StartSending`, `StopSending` | 221-235, with `ScheduleStopEvent` and `ScheduleStartEvent` (258-274) |
| `SendPacket` | 277-307, with `ScheduleNextTx` (238-256) |
| `CancelEvents` | 204-218 |
| `SetDataRate`, `SetMaxBytes` | the attributes of these names, 58-61 and 114-119 |
| `Tick` | the simulator's clock between two events |

Time is in ticks, `Second` of which are a second, and rates are in bits per second, so that
periods can end between two packets and even within a bit. Two quotients are
whole numbers in the code: the bits that `CancelEvents` keeps (`bits.GetHigh ()`, 213)
and the time that `ScheduleNextTx` computes (a `Time` is a whole number of its resolution).
`Truncated` is what they come to: the fraction is cut off, and a quotient that is exact may be one
less, since the code multiplies by a rounded inverse or divides in floating point. (That
a floating-point quotient is rounded *up* to a whole number is left out: it takes a fraction that
differs from 1 by less than the precision of a `double`.) `Word` stands
for 2^32: the residual is computed modulo `Word`. `m_cbrRateFailSafe` has no initial value in
the code, and any rate in `Init`. `pace`, `earned` and `cuts` are history;
`earned` counts On time in units of a bit divided by `Second`, so that it is exact.

What the properties are conditioned on is what the code guarantees no further.
`PacketsAreEarned` allows each interruption of a packet (`cuts`) to cost a bit, and
`LimitReached` asks that each On period be longer than a bit; with shorter ones nothing is
ever kept and nothing sent.
`ResidualFits` holds for one change of the rate. With two changes that restore the old rate,
with a packet between them, `m_cbrRateFailSafe` cannot tell and the residual
exceeds a packet: the unsigned difference wraps and the next packet waits for 2^32
bits. (Lowering the attribute `PacketSize` in an Off period does the same; that
change is not modelled.) A limit lowered while a packet is scheduled lets that packet
out; a rate changed in an Off period costs the residual of the following period; and
`StartSending` schedules `StopSending` even when `ScheduleNextTx` has just ended the flow
for good, which `DoneIsQuiet` allows for by being about flows that were ended by
`SendPacket`, the only way as long as the limit stays.

### `Bindings` and the code

A call of the generated file is a record: what it looks up in the module, what it
registers, whether it passes a reference counting policy, whether the class belongs to
this module (`own`) or is imported from another one, which type an alias stands for;
for methods, the types that the wrappers of the class name (`uses`) or point to with
a `Ptr` (`pointees`), and the pure virtual methods it declares and overrides. The tables
keep the order of the file; the texts of signatures, the parameter names and the
built-in types are left out. `Bindings` executes them.

| action | code |
|---|---|
| `RegisterType` | the next call of `register_types`, `modulegen__gcc_LP64.py` 20 ff., and of the namespace functions it calls |
| `PostRegisterTypes` | `modulegen_customizations.py` and `callbacks_list.py`, as the driver of ns-3 calls them |
| `RegisterMethods` | the next call of `register_methods`, and the `register_..._methods` function it calls |
| `RegisterFunctions` | the next call of `register_functions` |

PyBindGen is outside the repository; of it the model has what the file relies on: a
lookup of an unknown name is a `KeyError`, which ends the run (the action is disabled and
`Finishes` fails), and a wrapper with an unknown type is skipped, because the error
handler of the file (8-14) returns true. `driven` tells the two ways to run the file
apart: without the driver the callbacks have no converter, and wrappers that take one
are skipped.

What is skipped with the driver, too: wrappers that name an iterator of a standard
container, `ios_base::openmode`, `RngStream`, `SimulatorImpl`, `DataCollector` or an alias
of one of these, and the constructors of `Hash32` and `Hash64`, whose parameter is an
alias of a function pointer. All belong to classes that are imported from other modules; `OwnApiWhole` says
that this module's own classes lose nothing. `ScdtServer` and its helper are missing in
the file: it was generated before they were written.

## Runs

The first six below are of `MCScdtServer`, except `data_phase`, which is of
`MCScdtData`; the others are of `UdpFlow`, `BulkTransfer`, `OnOff` and `Bindings`, as their
names say. `CHECK_DEADLOCK FALSE` everywhere: an
overlay that is complete, a transfer or a flow that has ended, a client that was stopped
and a generation that is done have no step left. Bounds of the join runs: 3 to 5
nodes, `MAX_FANOUT` 1 or 2 (4 in the code), so that the second or third newcomer already
finds a full parent; `MAX_PINGS` 3, 5 or 8 (100 in the code), so that the ring wraps in
`join_detour` and `wrap_pings` and does not in the others; `MaxLost` bounds the
lost packets, `EarlyStop` names the nodes that may stop. No other counter of these needs a
bound. The bounds of the others are `MaxPackets`, `MaxCopies`, `MaxResizes`
(`UdpFlow`), `MaxTotal`, `MaxChanges` (`BulkTransfer`), `MaxTotal`, `MaxRates`,
`MaxLimits` (`OnOff`); all are guards of the actions that count. All state spaces are
finite and those of passing runs explored completely.

| run | instance | shows |
|---|---|---|
| `join_wide` | 5 nodes, fan-out 2, equal round trips, symmetry | searches over lists of two: `OneConversation`, `CounterCountsAwaited`, `OverlayIsTree`, `ParentAdopted`, `NumPingsCountsHosts` |
| `join_unreliable` | 4 nodes, fan-out 1, equal round trips, one lost packet, one stopping node | `TypeOK`, `AtMostOneConversation`, the refinement `GrowsAsATree`, `LeftOutForGood`, `TimesAreRoundTrips`; `LossesStayLocal` in the behaviours without a stop, `EveryoneAdopted` in those without a loss either |
| `join_detour` | 5 nodes, fan-out 1, `MAX_PINGS` 5, starts in turn, one near pair, stale padding | an inner node sends its child away, the child pings its way back, and the ring wraps, so that an answer finds no entry: `ParentBacked`, `SerializedIsFresh`, `RootIsNobodysChild` |
| `data_phase` | 4 nodes in three levels, starts at 1, 11 or 22 s, 2 packets | exactly 10 s apart is in time, 11 s and 21 s are too late: `Forwarded`, the refinement `ForwardsInOrder`, `SocketsReady`, `EveryoneServed`, `TypeOK` |
| `evict_parent` | 4 nodes, fan-out 1, nodes along a street | violates `ParentAdopted`, which holds in `join_wide` |
| `wrap_pings` | 4 nodes, `MAX_PINGS` 3 | violates `NumPingsCountsHosts`, which holds in `join_wide` |
| `udp_flow` | up to 6 packets, windows of 2 and 3 numbers, one repetition, one change of the window (509,370 states) | `LaterLossesExact`, `LostNeverOvercounts`, `AllSent`, `TypeOK` |
| `udp_first_lost` | up to 4 packets, a window of 2 | violates `LostIsExact` |
| `bulk_transfer` | packets of 3 or 6 bytes, a buffer of 5, limits 0, 4, 7 and 10 with one change (21,020 states) | `WithinLimit`, `ClosedWhenAllOut`, `ConnectedIsOpen`, `EverythingArrives`, `TypeOK` |
| `bulk_restart` | packets of 3 bytes, a limit of 7, any number of stops and starts | violates `RestartContinues` |
| `on_off` | packets of 16 bits, rates 5, 8 and 11, 2 ticks in a second, On periods of 1 and 5 ticks, limits 0, 3 and 4, two changes of the rate and one of the limit (1,505,924 states) | `SilentWhenOff`, `ResidualFits`, `PacketsAreEarned`, `DoneIsQuiet`, `LimitReached`, `TypeOK` |
| `bindings` | the whole file, with and without the driver (1,219 states) | `Finishes`, `PointeesCounted`, `OwnApiWhole`, `OwnClassesConcrete`, `CallbacksConverted` |

Four nodes with fan-out 1 give chains of three levels below which a newcomer is
passed down twice; the root and four more with fan-out 2 give the smallest overlay in
which a search has two candidates and a newcomer arrives while another one is passed
down. Six packets go twice around a window of three, and a packet can be late by more
than either window. The buffer of five bytes takes one packet of three and a part of the
next, or a part of a packet of six; limits of 4, 7 and 10 are one packet of three and a part,
two and a part, three and a part. A
packet of 16 bits takes 6 ticks (6.4 cut off), 4 exactly, or 2 (2.9), and a tick is worth 2.5, 4
or 5.5 bits, so that interruptions cut something off. On periods of one tick need several for a packet,
those of five end within one or between two. The bindings need no
bound: the instance is the program. Symmetry is used only where all nodes but the root are alike
(`UniformRoundTrip`) and for no liveness property.

For each of these properties there is a plausible mistake that breaks it, kept
beside the definition it would replace under a name with `Bug` (no action uses
it): an off-by-one in the test for room or in the count of a TRY, a list of hosts that is counted
as one, a missing REATTACH, a missing reset of the best ping, a list that is not serialized after a
replacement, answers of candidates taken for those of askers, a newcomer that
wins a tie, a root that sends an ATTACH, a list of candidates that resets the times of
all pings, a refusal that offers the refuser itself, a best ping that no candidate can be
below, data that is sent on before what is still waiting; a ring of bits that is not cleared, a
maximum that is the latest number, a client that stops one packet early; a loop that goes
over the limit, a close in an unlimited transfer, a flag that stays; periods that
cancel nothing, bits that are kept for the wrong rate or not at all; a class without
its reference counting, a container or a converter that is not registered.

**What does not hold.** Two of the four violations share a background: the join
protocol is right as long as nobody is sent away. Then a host is in `m_pings` once, the
overlay grows by leaves, and every node is adopted. With evictions a host is in
the table several times and its answers are booked on the first entry
(`evict_parent`): nodes get adopted by hosts they never asked, others wait for
ever. `wrap_pings` shows that the ring index doubles as the number of entries. For this
reason `OneConversation`, `OverlayIsTree`, `ParentAdopted`, `GrowsAsATree` and
`EveryoneAdopted` (and `LossesStayLocal`, `LeftOutForGood`, `TimesAreRoundTrips`) are checked for
equal round trips, where nobody is sent away, and all
but `EveryoneAdopted` are proved for any round trips as long as nobody is. What is claimed under
evictions (`join_detour` and the other proofs) is weaker: the root stays the root, beliefs
are backed, refusals are fresh.

The other two are comments that the stock applications do not meet: a transfer that was
stopped does not continue after a restart (`bulk_restart`, against
`bulk-send-application.h:84-88`), and packet 0 is never considered lost (`udp_first_lost`,
against `packet-loss-counter.h:42-43`).

Four more comments disagree with the code in a single place, which one reads off the
definition that models it and no run is spent on:

* `scdt-server.cc:765`, "Determine if other node has shorter ping", with variables
  `maxPingTime` and `maxPingIndex`: the loop finds the *nearest* child (770), so that a newcomer
  nearer than the farthest child is turned away unless it is nearer than all.
* `bulk-send-application.h:88-90`, no upper bound for `MaxBytes` 0: see `ClosedWhenAllOut`.
* `onoff-application.h:67-68`, the first packet comes after the time of one packet:
  `StartApplication` begins with an Off period, which comes on top.
* `onoff-application.h:69-72`, the remaining time is cached: only whole bits are, hence
  `cuts` in `PacketsAreEarned` and the condition of `LimitReached`.

**Fairness.** `FairSpec` has weak fairness of each start and of the processing of
each packet queue: the simulator runs every scheduled event, a start is
scheduled once for each node, and a packet that is not dropped is delivered.
There is none for `Lose` and `StopApplication`. A packet that is lost is sent by nobody
again, so `EveryoneAdopted` is about behaviours without a loss and a stop; that a node is
left out for good then is `LeftOutForGood`, and that a lost packet costs only one node
its place, `LossesStayLocal`. In
`ScdtData` weak fairness of `Next` is enough for `EveryoneServed`: every behaviour ends, because each timer fires once
and each packet crosses each connection once.

In `UdpFlow` the client is started (weak fairness) and a socket does not refuse every packet for
ever (strong fairness of `Accepted`: between two attempts the event is always scheduled
again, but a stop may end it). Nothing is assumed of the network: `AllSent` is about the
sender. `BulkTransfer` has weak fairness of the first start of both applications, of
what TCP does for an open connection (answer, deliver, acknowledge, report) and none of
stops, restarts, changes of the limit and resets; `RestartContinues` is about behaviours in which
the application, however often it was stopped, runs for good in the end. `OnOff` has weak fairness of each event
that is due and of the clock, which is what a discrete-event simulator is. `Bindings` is
sequential: weak fairness of `Next`.

**Start times.** `SetSockets` runs 290 s after a node's own start and
`SetTcpReceiveSocket` 280 s after the child's, so a child that starts more than
10 s after its parent refuses the only connection its parent ever opens, and its
whole subtree gets nothing; and data may reach a node that started more than 10 s
after the root before it has sockets, a null pointer. `EveryoneServed` and
`SocketsReady` therefore have the conditions `InTimeForParent` and `InTimeForRoot`.
`scratch/scdt-brite-2.cc:162` draws the starts from 1 to 50 s and does not meet them;
no comment or test claims that such a run delivers everywhere, so no
violation is recorded.

## Proofs

`ScdtServerProofs` holds for every set of nodes, every `MAX_FANOUT` that fits in
the byte `m_numChildren`, every `MAX_PINGS` not smaller, every assignment of ping
times shorter than the marker values of the code, any number of lost packets and
any stopping nodes; these are the named assumptions of `ScdtServer`.

* `TypeCorrect`: `Spec => []TypeOK`. It includes that `m_children`,
  `m_shortestPing` and the tables of pings are never indexed past their ends.
* `RootNeverAdopted`: `Spec => []RootIsNobodysChild`.
* `SerializedAlwaysFresh`: `Spec => []SerializedIsFresh`.

The inductive invariant `IInv` has five parts, one for each group of variables.
Neither `TypeOK` nor `RootIsNobodysChild` is inductive: the root could become a
child if it were in the table of pings, it could get there if it were in a list
of hosts or sent an ATTACH, and it would send one if it received REATTACH or were
in a search, which a TRY would start. `SafePackets(s, d)` therefore says which
packets may be between two nodes, and `SearchInv` that the root has no search.
`SerializedIsFresh` is part of the invariant because a TRY to a non-root must list
non-roots. The lemmas follow the code: queues (`PostSafe`, `TakenSafe`,
`PostPingsSafe`), the table (`SendPingsInv`), measured times (`MeasuredTime`), the
exits of `UpdateChildren`, the end of a search (`ChooseParentInv`), then one lemma
for each action and `NextInv` for all.

`ScdtParentProofs` adds, for `MaxLost = 0` and otherwise all of these constants,

* `ParentAlwaysBacked`: `Spec => []ParentBacked`.

It holds with children that are sent away, rings that wrap and nodes that stop. `ParentBacked`
is not inductive, because a belief begins with an ATTACHSUCCESS that may be in the queue
long after the child was sent away again. `BackedInv` therefore looks at queues: every
ATTACHSUCCESS from *p* to *n* has a REATTACH behind it, unless *n* is a child of *p*. The
lemmas say what taking one packet (`TailBacked`), posting one (`AppendBacked`) and
posting pings (`ConcatBacked`) do to one queue, then to the network, then one lemma for
each action. A lost REATTACH breaks it, as in the code.

`ScdtTreeProofs` holds for every finite set of nodes and all these constants, whatever
the round trips are, under two hypotheses. `[]NobodySentAway`: in the behaviour at hand no
child is ever sent a REATTACH, because no newcomer is nearer to a full node than its
nearest child. (`Spec` has no fairness, so this covers every behaviour up to its first
REATTACH too: stop it there.) `SmallOverlay`: there are no more nodes than slots in
`m_pings`, so that the index does not wrap (100 slots in the code). They are the border
of what is true: `evict_parent` refutes `ParentAdopted` where somebody is sent away, and
`wrap_pings` refutes `NumPingsCountsHosts` where the table is full. Packets may be lost and
applications stop at any time in

* `OverlayGrows`: `Spec /\ []NobodySentAway => GrowsAsATree`, the refinement of
  `MulticastTree`;
* `OverlayAlwaysTree`: `... => []OverlayIsTree`, through that refinement: the module
  instantiates `MulticastTreeProofs` and cites its theorems;
* `DataPhaseFits`: `... => []FitsDataPhase`, the assumption under which `ScdtData` is
  checked and proved;
* `NobodyTwice`: `... => []AtMostOneConversation`;
* `SearchesEnd`: `... => []CounterCountsAwaited`;
* `PingsAreCounted`: `... => []NumPingsCountsHosts`;
* `TimesAreMeasured`: `... => []TimesAreRoundTrips`;
* `LeftOutStaysOut`: `... => LeftOutForGood`.

With `RootStartsFirst` in addition (as in the drivers that do not start everybody at the
same instant: an ATTACH to a root without a socket is lost, and no count of lost packets
would show it) it proves

* `LossesCostOneEach`: `... => []LossesStayLocal`.

With `Reliable` (the root first, no losses and no stops) it proves

* `NobodyForgotten`: `... => []OneConversation`;
* `EveryoneHasParentAtRest`: `... => []ParentAdopted`.

The first hypothesis is a theorem where all pings of one host take the same time, as in a
star or any network with one delay (`EqualRoundTrips`, which `join_wide` and
`join_unreliable` meet):

* `EqualSendNobodyAway`: `Spec => []NobodySentAway`;
* `EqualTree`, `EqualLosses` and `EqualReliable`: all of the above as properties of `Spec`.

None of these is inductive. That nobody is adopted twice needs that a host that answers as an
attacher has no other request under way, and this needs that it is never pinged twice
by the same node; that needs an argument on where a searching node has been. The
inductive invariant (`OverlayInvariant`, parts in `ScdtTreeProofs`) is stated on
relations between hosts (who has whom as a child, in its table, without an answer, which
type of packet is on its way):

* `TableInv`, `StackInv`, `ChildInv`: no host is twice in a table or a list of children;
  the stack of a search holds entries of the table, none twice, and the counter counts the
  open ones. With different round trips the end of a search leaves candidates on the
  stack that a later search may choose; what makes this right is that they have answered,
  and that the one that was chosen is gone.
* `OnceInv`, `EchoInv`, `TryInv`: of each type at most one packet is on its way between
  two hosts, and no REATTACH; a ping or its answer belongs to an open entry; a TRY lists
  the children of a full node, which do not change any more.
* `Exclusive(Engagements)`: a node is in one relation about its place, with one host:
  child, ATTACH, ping as an attacher, TRY, or search.
* `IdleInv`: nobody knows a node that has not started.
* `SeekInv`: a node without a place walks down the tree. Whom it asks is in the tree, by a
  parent that has refused it already; whom it has pinged are children of such
  nodes. Hence it never comes to a host for the second time, not even through what an
  earlier search has left on its stack.

What a loss does is counted, not located. A node is `Unharmed` if it has a place or a request
for one, if each open ping that it waits for, or that somebody waits for to place it, has its
question or its answer under way, and if, as a child, it knows its parent or the
ATTACHSUCCESS is on its way. `Harmed` are the others that have started, and the invariant
`HarmInv` (theorem `LossesHarmOneEach`) says that, until somebody stops, they are no more than the lost packets. Two
things carry it: each of the five types of packets is about the place of one node, although pings run in both
directions (`LoseHarmsOne`), and no step but a loss harms anybody (`NobodyHarmed`); `AwakeInv`
says that nobody sends to a node that has not started, where a packet would vanish
without being counted. At rest an unharmed node has a parent and knows it
(`UnharmedAtRest`), hence `LossesCostOneEach`; with no loss nobody is harmed
(`ReliableInvariant`), hence the two theorems about `Reliable`. The proof of each step says first how the
handler changes these relations (the lemmas on queues, tables and stacks), then why each part
of the invariant survives the change.

`ScdtDataProofs` holds for every tree, every set of start times, every `SENDTCPTIME`
more than 20 s after the last of them and every number of packets.

* `DataTypeCorrect`: `Spec => []TypeOK`.
* `AlwaysForwarded`: `Spec => []Forwarded`.
* `SocketsAlwaysReady`: `Spec => []SocketsReady`.
* `DataIsRelayed`: `Spec => ForwardsInOrder`, the refinement of `DataRelay`, in which the
  log of the root is its data from the moment at which it sends, and that of another node
  what it has received.
* `EverybodyInOrder`: what `DataRelay` promises, of `ScdtData`: everybody has the first
  packets of the root (`InOrder`), and nobody more than its parent (`NeverAhead`).

The inductive invariant says that pending timers are not in the past
(`TimersInv`), that nothing travels before the root has sent and that this is
300 s after its start (`QuietInv`, `SentInv`), that sockets are null exactly while
`SetSockets` is pending (`SocketsInv`), and `Forwarded` for the null sockets too
(`StreamsInv`), so that it holds when they are created. `ReaderHasSockets` is the
argument for `SocketsReady`: whoever reads does so 300 s after the root's start, hence
at least 290 s after its own, and all timers of that instant have fired. The refinement
follows from `Forwarded`: what a read takes from the stream is the next part of what the parent
has (`TakenFromParent`). `EverybodyInOrder` needs no induction along the tree: a beginning of a
beginning is a beginning (`PrefixOfPrefix`), and a child has one parent.

`UdpFlowProofs` holds for every number of packets, all sets of window sizes and every
number of repetitions and changes of the window.

* `FlowTypeCorrect`: `Spec => []TypeOK`; the ring is never indexed outside.
* `LossesExact`: `Spec => []LaterLossesExact`.
* `LossesNeverOvercounted`: `Spec => []LostNeverOvercounts`.

The invariant behind them says what the bits mean: of the numbers inside the window, a
clear bit belongs to one that is not judged yet and has not been received, and in an
orderly flow a set bit to one that was received (`BitsInv`). A step of `NotifyReceived` then counts exactly
the numbers that leave the window without having come; the lemmas about ring positions
(two numbers of one window never share a bit) carry the argument, and a lemma on
cardinalities carries it over to the count.

`BulkTransferProofs` holds for every packet size, buffer, set of limits and number of
changes; a packet may be larger than the buffer.

* `BulkTypeCorrect`, `ConnectedAlwaysOpen`: the invariants of these properties.
* `LimitKept`: `Spec => WithinLimit`; `ClosedExactly`: `Spec => ClosedWhenAllOut`, two
  action properties that follow from the bounds on what `SendData` adds. That an unlimited
  transfer is closed only when its packets are larger than the empty buffer is part of
  the second: a packet that fits is always sent on a new connection, so 0 is not
  compared with 0.

`OnOffProofs` holds for all rates, periods, limits, packet sizes and resolutions of time,
with any number of changes.

* `OnOffTypeCorrect`, `OffIsSilent`, `ResidualAlwaysFits`, `DoneStaysQuiet`: the
  invariants.
* `EachPacketEarned`: `Spec => PacketsAreEarned`, at most a tick too early and, at one rate, at
  most a bit too late for each interruption.

None of the four properties is inductive alone. `IInv` adds when an event is pending at all
(`QuietInv`), which rate its time was computed with (`PaceInv`), that the elapsed and
the remaining ticks are those of the missing bits, but for one tick (`TimeInv`), and that the
residual bits and those of the pending packet are earned, and nothing is lost but a bit for each
interruption (`EarnedInv`). The arithmetic of a quotient that is cut off (`TruncatedQuotient`)
and what `CancelEvents` keeps (`KeptBits`) are lemmas of their own.

`MulticastTreeProofs` proves of the abstract tree, for every set of nodes, that
every node has one parent (`EveryNodeHasOneParent`), that no set of nodes is cut
off from the root (`EveryNodeReachesRoot`), and, for every natural `MaxFanout`,
that nobody has more children (`FanoutNeverExceeded`).

Only model-checked: the liveness properties (`EveryoneAdopted`, `EveryoneServed`,
`AllSent`, `EverythingArrives`, `LimitReached`, `Finishes`), since liveness under fairness is
out of the prover's reach; and the invariants of `Bindings`, which are about one
fixed table, of which the complete run is already the whole truth. Where children are
sent away or tables wrap around, no more is known of the overlay, checked or proved, than
`TypeOK`, `RootIsNobodysChild`, `SerializedIsFresh` and `ParentBacked`: the stronger
properties are false there.

## Not modelled

* The bindings for 32 bits: the same calls, less 30 classes and the namespace tests; the
  tables would be repeated.
* The helpers (`src/src/applications/helper`) and the BRITE topology: executed once,
  before the simulation, without a state that an event reads.
* `UdpEchoClient`, `UdpEchoServer`, `UdpTraceClient`: a counter and an event each, of
  the kind that `UdpFlow` has; `ApplicationPacketProbe`: keeps the last packet.
* The leftovers of `UdpEchoClient` in `ScdtServer`: nothing schedules `Send`.
* In the data phase, `StopApplication`: it closes the UDP socket and cancels an event
  that is never scheduled, so it touches nothing that `ScdtData` has (the timers fire and
  the data flows on). And children that change after `SetSockets`.
* In `OnOff`, changes of `PacketSize` and a second start of the same application.
* `time.py`: a maximum and an average over a file. (If no node received anything, all
  entries are 0 and the average is a division by zero.)

## Plan

Done: everything above. What would come next, in this order: what is left of the tree once
somebody has been sent away (`Exclusive(Engagements)` fails then, but perhaps not
for nodes that no eviction has touched); a data phase over children that may change, with
the late newcomer that finds a null socket; the echo pair and the trace client.
