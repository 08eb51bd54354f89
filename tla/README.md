# A verification project for the conference controller

`src/controller` is the host of a digital conference system: a daemon that
finds the microphone units ("terminals") and the central control units of a
hall over IEEE 1722.1 (AVDECC), opens and closes microphones by connecting and
disconnecting their streams, decides who may speak, and takes orders from an
upper computer, from ARCS devices and from the chairman's terminal. It is
written in C with four threads that share queues, lists and flags, most of
them without a common lock.

This directory holds TLA+ models of its core, the TLC configurations that check
them, and proofs about them. `PROJECT.json` lists the components, the runs, the
lines every definition stands for, one mutation of the code per property, the
hazards and the findings.

    tlc -workers 2 -config MCDiscussion.cfg MCDiscussion.tla
    tlapm Sending_proofs.tla

Contents: [the system](#1-the-system), [the modules](#2-the-modules),
[the runs](#3-the-runs), [what the code does otherwise than it
says](#4-what-the-code-does-otherwise-than-it-says), [the
proofs](#5-the-proofs), [what is not modelled](#6-what-is-not-modelled),
[the plan](#7-the-plan).

## 1. The system

### Threads

| thread | code | what it runs |
|---|---|---|
| receive | `app/avdecc_funhdl_native.c` `pthread_recv_data_fn` | the 20 ms check of the send queue, the first-speak queues, the microphone manager and its callbacks, frames of the upper computer and of ARCS |
| work | `app/avdecc_funhdl_native.c` `thread_func_fn` | commands of the upper computer and keys, from the function work queue |
| send | `lib/send_module/send_pthead.c` `thread_send_func` | pops the send queue, transmits, waits after a conference command |
| epoll | `app/avdecc_funhdl.c` `fn_netif_cb`, `fn_timer_cb` | frames of the raw network, the 25 ms tick that resends and expires commands |

A SIGINT handler runs `system_close` on top of whichever thread it hits.

### Components

Each line: the state a component keeps, its operations, whom it meets, what is
hard about it, and what makes it correct.

| component | state | operations and partners | hard behaviour | correct when |
|---|---|---|---|---|
| **Send queue** (`lib/send_module`, `lib/packet_events/system_packet_tx.c`) | one static frame buffer, write queue, read queue, one mutex, one condition | any thread builds a frame and saves it; the send thread swaps, pops and transmits; the receive thread checks; shutdown empties | the buffer is shared without a lock; emptiness tested and frames popped without the mutex; wait without a predicate loop; shutdown pops from under the send thread | every frame is sent once and in order; the shutdown ends |
| **In-flight commands** (`lib/end_station_manager`, `lib/send_module`, `app/avdecc_funhdl.c`) | list `command_send_guard`, `wait_msg`, `gsend_pro_idle` | the send thread tracks and waits; the epoll thread resends, expires and takes answers; the receive thread takes others | lost, late and duplicated answers; timer against answer; unlocked wait state | each command ends once, by its own answer or after its resend; the send thread always comes back |
| **Receive channels** (`lib/host_connect/central_control_recieve_unit.c`) | per unit: unconnected and connected channels, counters; a global counter | the connector takes a free channel, the disconnector all channels of a talker; the observer moves them when a command is concluded | counters kept apart from lists; several units; outcome after a second request | counters agree, limits hold, the host believes in a stream exactly if it is there |
| **Transmit units** (`lib/host_connect/conference_transmit_unit.c`) | stream state and protection time of each talker's output | connect, disconnect; posts the outcome to the microphone manager | timeouts; a talker operated a moment ago | the manager is told of every outcome it waits for |
| **Connection subject** (`lib/host_connect/connector_subject.c`) | list of observers | notifies all observers of a concluded command, in order | the receive thread runs between two observers | observers see outcomes in a safe order |
| **Microphone manager** (`lib/conference_host_with_endstation/terminal_disconnect_connect_manager.c`) | three priority queues per manager, two state machines, event queue | any thread requests or cancels; the receive thread runs the machines; callbacks into the discussion | requests taken out and put back while others are added; events that name another talker; full queues | no request is lost or ended twice; a machine takes its own outcome; every request ends |
| **Discussion** (`.../terminal_pro.c`) | `gdisc_flags` (mode, limits, speakers, applicants, index), microphone states, first-speak queues | keys, the chairman's examination, the upper computer's settings, callbacks of the manager | a key tested and acted on in two critical sections; mode changes and cancelling under way; closing past the manager | microphones shown agree with streams; the lists hold exactly the speakers and applicants |
| **Address allotment** (`terminal_pro.c`, `terminal_common.c`, `terminal_system_func.c`) | queue of requests, the request served, table of addresses, address file | the epoll thread queues requests and takes confirmations; the receive thread offers addresses; the operator starts over | late and lost messages; a confirmation against its timeout; a crash between two writes; starting over without the lock | no address has two owners; no slot leaks; every request is served |
| **Registration, sign-in, vote** (`terminal_pro.c`) | registered terminals, rounds, the gate of the polls, results | the receive thread queries and polls; the epoll thread takes answers; operators and the chairman begin and end rounds | answers that are late, repeated or missing; rounds that end and begin in between; state read and written later | only those admitted vote; nobody waits for ever; every terminal is registered |
| **System state** (`terminal_system.c`) | state of the system and the one before | set by registration, rounds, camera presets, interposition | nested states entered and left in any order | what was interrupted is returned to |
| **Function work queue** (`lib/message_func`, `app`) | linked queue, mutex, condition, active flag, tables of permissions | any thread calls, the work thread too while it runs a command; the SIGINT handler empties | flags tested before the lock; shutdown on top of any thread | nothing lost, overtaken or left asleep; the shutdown ends |
| **ARCS query queue** (`lib/arcs`) | ring of reports, `qrFinishFlag`, last sequence number, FIFO to ARCS | one report out at a time; its answer or expiry lets the next out | flag set after the hand-over and cleared by other threads; repeated requests; failing port | one report out; a repeated request runs once; reports do not wait for ever |
| **ADP entities** (`lib/packet_events`, `lib/end_station_manager`) | entities with their time to live | discovery, return, departure, restart | a unit that restarts with connections and commands | its channels are released and it is read again |
| **Descriptors and AVDECC reading** (`lib/end_station_manager`) | what is stored of each entity | a chain of reads, each by the answer to the one before | answers that are missing or come twice | every input of a unit becomes one channel |
| Connect manager (`lib/connect_manager`) | multicast connections | connect and disconnect the host's own output | answers out of order | table agrees with the network |
| Other host connection units (`lib/host_connect`) | input and output of the central units | the observer scheme of the receive channels | as there | as there |
| Ring buffer and lists (`lib/system_work_tool_uits`) | arrays with two indices | used across threads | wrap-around, full and empty | what goes in comes out once |
| Upper computer (`lib/upper_computer`) | none of its own | decodes orders for the work thread | an order in two messages | orders reach the discussion in order |
| Profile, camera, matrix, UART, user interface, logging, raw network, command line, frame controller, `jdksavdecc` | settings, presets, sockets | I/O and formatting | — | — |

The path of "press a key, be heard": a key frame → work queue → **Discussion**
(may this terminal speak?) → first-speak queue → **Microphone
manager** (request by priority) → **Receive channels** (a free channel) →
**Send queue** → **In-flight commands** → network → an answer or a timeout →
**Connection subject** → *Transmit units* (an event for the manager) and then
*Receive channels* (the channel moves) → manager → callback → **Discussion**
(the microphone is open, the speaker is listed). The models follow that path.

## 2. The modules

The head of each module names the files it models, and `PROJECT.json` "map" the
lines of every definition. The convention throughout: what one thread does under one
lock without blocking is one step; every unlocked read of shared state that is
used later is a step of its own; helper calls belong to the step of their
caller. Frames, names and addresses are model values. Variables marked *ghost*
or *history* are read by properties and bounds only, never by a guard of the
code; every bound is a CONSTANT named `Max...`.

### SendQueue, FifoChannel — `lib/send_module`

`wq` and `rq` are `gwrite_send_queue` and `net_send_queue`, `buf` the static
buffer of `system_raw_queue_tx`. The program counters `ppc`, `spc`, `rpc`, `cpc`
stand for a producer, the send thread, the receive thread in
`send_common_check_squeue` and `system_close`. `Fill`, `ReadWriteEmpty`,
`ReadReadEmpty`, `Save` and `ProducerSignal` are the producer: the frame is built
in the buffer, two emptiness tests without the mutex, the append under it, and
the signal. `SenderLoop` … `Transmit` are the send thread: the swap under the
mutex when its own queue is empty, `pthread_cond_wait` (which may also wake
without a signal: `SpuriousWakeup`), and the pop without the mutex in two steps,
reading the head (`Load`) and advancing it (`Advance`). `TimerElapses`,
`CheckListen`, `CheckReadEmpty`, `CheckSignal` are the 20 ms check, `Stop` …
`Exit` the shutdown. A signal only moves a thread that already waits
(`AfterSignal`): that is how signals get lost. `SaveFails` is `malloc` returning
NULL.

`FifoChannel` is the promise: one first-in first-out channel that loses frames
only after the shutdown began. `ImplementsChannel` is the refinement, under the
mapping `InFlight` (what the send thread holds, then the read queue, then the
write queue).

### Inflight, CommandLifecycle — `lib/end_station_manager`, `lib/send_module`, `app/avdecc_funhdl.c`

`list` is `command_send_guard`, one record per in-flight command with its
`retried` count and whether its timer has elapsed. `TransmitCommand` and
`TransmitReply` are the send thread in `tx_packet_event` for the five kinds of
command the code treats differently; it hands over `MaxSent` commands at most.
After a conference command the thread (`tpc`) goes through `Activate` (wait_msg
active), `Arm` (`gsend_pro_idle` cleared), the wait loop that ends on a release, an
empty list or after 200 ms (`LeaveWait`), and `SetIdle`. The epoll thread is `Resend`,
`Expire` (one elapsed timer per tick, the first in the list, as in
`time_event.c`), `ReceiveAnswer` and the three steps of `fn_netif_cb` that
release the send thread (`AckTest`, `AckStatus`, `AckRelease`). The network may
lose, delay and duplicate answers (`net` holds up to two per command and nothing
forces their delivery). The assert of `fn_netif_cb` that fails leads to
`epc = "aborted"`.

`CommandLifecycle` is the promise: a command is sent at most twice, ends once
and is never sent after its end. `ImplementsLifecycle` is the refinement. The names
of `Inflight` are distinct from those of `SendQueue` (`InflightInit`,
`InflightTypeOK`, ...), for one module holds the proofs about both.

### RecieveUnit, MicManager — `lib/host_connect`, `terminal_disconnect_connect_manager.c`

`RecieveUnit` has the channels' state and operations; it has no next-state
relation of its own. `MicManager` extends it: `Request`, `CancelTask` and
`CancelAllTask` are the calls of any thread (`Room` is the queue's full test,
which leaves one place unused); `ReceiveEvent`, `Tick` and `Pass` are the three
parts of `Terminal_micManagerTask`, `recvPc` says which comes next. A pass of a
machine takes the head of the highest non-empty queue (or of the queue it
stopped at), and either ends it with a callback (`EndAnswered`,
`EndNotExecuted`, `EndRefused`), sends a command (`Send`), puts it back and
waits (`KeepWaiting`), or is refused (`Refused`). `Conclude` and
`UpdateChannels` are the two observers of a concluded command, in the epoll
thread: first the event, then the channel. `failureTimes` wraps as a byte
(`Decremented`, `% ByteValues`). `DirectDisconnect` is the disconnecting past
the manager that closing all microphones does.

### Discussion — `terminal_pro.c`

`conf` is the record of `gdisc_flags` with the microphone states and the queues;
a handler is an operator from one `conf` to the next. A key is tested for tasks
of its terminal first: with one it can only cancel it (`KeyOfBusy`), without one
(`KeyOfIdle`) it takes effect in a second critical section (`KeySpeak`, by type
of terminal and mode: `CommonDown`, `VipDown`, `ChairmanDown`, `KeyUp`), with
`keyPc` between the two. `ServeFirstSpeak` passes
requests on to the manager; `SendCommand`, `Conclude`, `TakeEvent` and
`EndUnsent` are the manager as `MicManager` shows it: one command in flight per
machine, its outcome by an event, one callback per request. The callbacks are
`OpenMicCallback` and `CloseMicCallback`; the first lists the speaker and takes
it off the applicants, the second unlists it and gives the place to the first
applicant (`LimitModeApplyTSpeak`). `RefuseApply`, `NextApply`, `ApproveApply`
and `SelectApply` are the examination by the chairman or the upper computer,
`SetDiscussMode` and `SetSpeakLimit` the settings, `CloseAllMic`, `StartDiscuss`
and `ConcludeDirect` the closing past the manager.

The removal from the arrays (`DeletedAt`) is modelled by what the C code does to
them, with the places behind the count kept. Two history variables mark what the
code does not try to keep in step: `past` (streams closed past the manager, which
have no callback) and `overlap` (terminals that were opened twice at once, or
were opened while listed as applicants). `MicAgrees` and `SpeakersListed` are
stated for the rest; section 6 says what is excluded by that.

### FuncWorkQueue — `lib/message_func`, `app/avdecc_funhdl_native.c`

`Call`, `Check`, `Lock`, `Save` and `Signal` are `find_func_command_link`: the
search of the command table, the tests of permissions, system state and `active`
outside the lock, the append under it and the signal. `WorkLock`, `FindEmpty`,
`CondWait`, `FindInactive`, `Take` and `Return` are the work thread, which runs a
command without the mutex; the command may itself call (`MayCall`). The mutex has
an `owner`, because `Stop(t)` puts the SIGINT handler on top of any thread `t`,
inside a critical section too, and never gives the thread back. `DrainLock` …
`Exit` are `system_close` on that thread; on the owner of the mutex it waits for
ever (`Hung`). `ImplementsChannel` is the refinement to `FifoChannel`, the same
promise the send queue keeps.

### Allotment — `terminal_pro.c`, `terminal_common.c`, `terminal_system_func.c`

`table` and `index` are the address table and the slot the search stands on,
`allotQueue` and `cur` the queued requests and the one served, `fileNum` and
`fileRecs` the head and the records of the address file. `RecvRequest`,
`RecvConfirm` and `RecvRegistration` are the epoll thread;
`AllotBegin`, `SearchEnds`, `AllotStale`, `AllotFinish`, `WriteRecord` and
`AllotExpire` the receive thread in `Terminal_allotPro`: the head of the file
is written before the record, so a crash (`Restart`) may find a file that
`Readable` refuses, and every address is then given anew. `NewAddrs` is the search for a free slot as it is
written, with the table it never leaves (`Endless`). `ReallotBegin` …
`ReallotSend` are the operator starting over, in the operator's own thread and without the lock.
Offers and confirmations are sets of messages that may be delivered late, out of
order, or never.

### Session — `terminal_pro.c`, `terminal_system.c`

One module for what three threads do to one state without a lock. `sys` and
`pre` are `gsystem_state` and its predecessor; `SetSys` is the setter with its
rule about the states that interrupt another (`Nested`). Registration is
`RegisterStart`, `RegisterQuery`, `RegisterNote`, `RegisterDone` and
`RegisterTimer` in the receive thread and `RegisterAnswer` followed by
`RegisterSet` in the epoll thread. A round of polls is `Poll`, `PollAnswer`,
`PollTimeout` and `PollStop`, with the gate that lets one query out at a time.
`StartSign`, `EndSign`, `BeginVote`, `EndVote`, `ReturnDiscuss`, `CardSign`,
`ReadKey` and `Interpose`, `EnterPreset` and `EscPreset` are the operators, the
chairman and the cards; `Leave` and `Return` the terminals. Vote, election and
grading share their code and are one vote. Steps that read the state and write it later are two
actions (`registering`, `pollPc`, `keyRead`).

### ArcsQuery — `lib/arcs`

`queue` is the ring, `finish` is `qrFinishFlag`, `lastSeq` the number of the last
request. The receive thread's turn is `NoMessage`, `TakeAnswer`, `MatchAnswer`,
`TakeQuery`, `TakeCommand`, `NoReport`, `Pop`, `ReportSaved` or `ReportLost`, and
`Mark`, which sets the flag only after the report was handed over. `SendTracked`,
`SendFails`, `Resend`, `Expire` and `Remove` are the report's life in the send
thread and the in-flight list, under its mutex (`MutexFree`); the list itself is
module `Inflight`. `BeginRegistration` is the registration of terminals, during
which the FIFO is read by no one; `PortFails` the FIFO closing.

### Enumeration — `handle_1722_packet_from_raw.c`, `end_station_prcs.c`, `central_control_recieve_unit.c`

How the lists of `RecieveUnit` come to be and go. `Discover`, `Depart`, `Refresh`
and `Restart` are the advertisements and the time to live. `AnswerEntity`,
`AnswerConfig` and `AnswerInput` take the answer to a read, store it and send the
reads that follow from it (`Read`, which chooses how often each is answered:
never, once or twice). An input is put in a slot of the unit (`SlotFor`,
`Enlist`). A restart releases the unit's slot: `ReleaseDone` when nothing is
connected, else `ReleaseNode` and then `ReleaseHead` for ever, which is what the
loop does (section 4). `Find` and `Talk` are two steps, for the channel is found
before the mutex is taken; `Conclude` searches the first slot only.

### MC modules

`MCSendQueue`, `MCInflight`, `MCMicManager`, `MCDiscussion`, `MCFuncWorkQueue`,
`MCAllotment`, `MCSession`, `MCArcsQuery` and `MCEnumeration` give the constants
of the instances. No configuration replaces a definition.

## 3. The runs

| run | checks | distinct states | bounds, and why they are enough |
|---|---|---|---|
| `send_queue` | `FifoInv`, `ImplementsChannel`, `EveryFrameSent`, `CloseEnds` | 214 k | two producers, one call each: a frame can be in every place (buffer, write queue, read queue, in hand) while another is being added, and the shutdown meets all of them. `FifoInv` and the refinement are proved without bounds. |
| `send_queue_own` | *violated:* `FramesAreOwn` | | two producers |
| `inflight` | `TrackingInv`, `AnswerIsOwn`, `ImplementsLifecycle`, `EveryCommandEnds`, `SenderReturns` | 180 k | any two of six commands, one of each of the five kinds the code treats differently and one conference command twice under one key, with two sends each, as in the code: what can go wrong is between two neighbours of the list, or the list and the wait of the send thread. All but the liveness is proved without bounds. |
| `inflight_assert` | *violated:* `StatusAccepted` | | two commands of one kind |
| `mic_manager` | `RequestsKept`, `ConnectOutcomeIsOwn`, `ListsAgree`, `RecordedIsAcknowledged`, `RequestsEndOrStrand` | 450 k | talkers of the highest and the lowest priority, two units of two and one channel, three requests, one outcome that is not a success: a machine can be interrupted by a request of higher priority, refused, retried and cancelled; queues of three (two usable) fill up. The invariants are proved without bounds. |
| `discussion` | `TypeOK`, `MicAgrees`, `ListsAgree`, `NoApplicantForgotten` | 591 k | three common terminals, a VIP and the chairman; all four modes; limits one and two; a list of three speakers and as many streams, as in the code, so the limit, the list and the streams all run out; four keys or orders (examining the applicants is not counted) and one failing command; first-speak queues of the code's sizes (6, 15 and 30), which four keys do not fill. All four properties are proved without bounds, so for full queues too. |
| `allotment` | `RequestsAgree`, `AddressesAgree`, `RequestsServed` | 468 k | two terminals for two addresses, so the table fills up; three requests, so a terminal asks again while served; one crash and one starting over, at any step. `RequestsAgree` and `AddressesAgree` are proved without bounds. |
| `session` | `VotersAdmitted`, `CountInv`, `ShutGateIsOpened`, `EarlyEndMeansAll`, `PhaseKept`, `TerminalsRegister` | 224 k | two terminals, one of which may leave two queries unanswered; any two events out of commands, keys, cards, presets and departures: one that begins a round or a nested state and one that comes in between. All but `TerminalsRegister` is proved without bounds. |
| `work_queue` | `TypeOK`, `QueueInv`, `ImplementsChannel`, `EveryCommandRuns`, `CloseEnds` | 52 k | a producer with two calls, the work thread with one of its own, one change of permissions, SIGINT on any thread. All but the liveness is proved without bounds. |
| `arcs` | `OneAtATime`, `QueryInv`, `RunsOnce`, `ReportsDrain` | 741 k | a ring of three places (two usable) and queries of up to three reports, so it overflows; three reports, one sequence number beside 0. All but `ReportsDrain` is proved without bounds; with four reports, where a report first expires while two others are out, `OneAtATime` was checked once (7.8 M states). |
| `enumeration` | `UnitsAgree`, `ListedOnce`, `ConnectionsKept`, `EnumerationCompletes` | 315 k | two units of two inputs for two slots, so slots run out; one unit meets two faults (restart, departure, a read not answered once), the other none; two calls to talk, one connection per unit. All but `EnumerationCompletes` is proved without bounds. |
| `enumeration_release` | *violated:* `ReleaseEnds` | | as above, one call |

Some properties are conjunctions of named parts that one run checks together:

| module | property | parts |
|---|---|---|
| SendQueue | `FifoInv` | `TypeOK`, `FifoConserved`, `SenderView`, `PopView` |
| Inflight | `TrackingInv` | `InflightTypeOK`, `WaitAgrees`, `ListTracksPending`, `AnswersAreDue`, `KeysApart` |
| MicManager | `RequestsKept` | `TypeOK`, `WaitHoldsHead`, `RequestsAccounted` |
| MicManager | `ListsAgree` | `TalkerOnOneChannel`, `CountsAgree`, `ChannelsHeld`, `TalkersApart`, `AcksAhead` |
| Discussion | `ListsAgree` | `SpeakersListed`, `CurrentInList` |
| Allotment | `RequestsAgree` | `TypeOK`, `QueuedOnce`, `ServingKept`, `NodesKept`, `PendingAccounted` |
| Allotment | `AddressesAgree` | `AddressesDistinct` and `SlotsInOrder` always, `SavedNotOffered` |
| FuncWorkQueue | `QueueInv` | `OwnerHolds`, `WorkerView`, `NotStranded`, `TakenInOrder` |
| ArcsQuery | `OneAtATime` | `WindowBounded`, `FlagMeansPending` |
| ArcsQuery | `QueryInv` | `TypeOK` and `ReportsAccounted`: `OnceInOrder`, `EachTwiceAtMost`, `WindowKept`, `FlagKept` |
| Session | `CountInv` | `TypeOK`, `CountKept` |
| Enumeration | `UnitsAgree` | `TypeOK`, and `SlotsHold`, `ListsApart`, `CountsAgree` until a release is astray |

Each property has a mutation of a mapped definition that breaks it under the
run's own configuration (`PROJECT.json` "mutants"; the mutated operators stand
before the originals, marked "Mutation"). Terminals that differ in nothing are
symmetric in `discussion`; runs with liveness properties use no symmetry.

Deadlock is not checked in `discussion`, `allotment`, `session` and the two
enumeration runs: nothing happens any more there when the bound on keys, requests,
events or faults is used up and all that was begun has ended. `SendQueue`,
`Inflight` and `FuncWorkQueue` name their ends (`Terminated`, `Aborted`, `Hung`).

### Fairness

* **SendQueue.** Weak fairness of every producer inside its call, of the send
  thread, of the check and of the shutdown: running threads keep running, and
  the mutex is held only across steps that cannot block. No fairness of calls,
  of `Stop`, nor of waking without a signal: `EveryFrameSent` must not rest on a
  spurious wakeup. `TimerElapses` is fair because the 20 ms timer is read from
  the clock.
* **Inflight.** Weak fairness of the send thread's wait, of the 200 ms interval,
  of the release and of every command's timer: time passes. Strong fairness of
  the tick: one turn of `epoll_wait` serves every descriptor that is ready, so a
  stream of frames cannot keep the timer descriptor from its turn. No fairness
  of the network: answers need not come.
* **MicManager.** Weak fairness of the receive thread's loop and of the epoll
  thread, which concludes every command by its answer or by its expiry
  (`EveryCommandEnds` of Inflight). No fairness of requests or mode changes.
* **FuncWorkQueue.** Weak fairness of callers inside a call, of the work thread
  and of the shutdown, and strong fairness of taking the mutex: it is released
  again and again, and a waiting thread gets it in the end. No fairness of
  calls, of SIGINT, of permissions.
* **Allotment.** Weak fairness of the receive thread's pass over the request it
  serves, timed by `ALLOT_CMD_TIMEOUT`, and of the operator's thread once begun.
  Requests, confirmations and offers need not arrive.
* **Session.** Weak fairness of registration, its queries and its timer, of the
  end of a round, of the state set after an answer, and of the answer to a query
  of a terminal that is there: terminals that are there answer in the end. None
  of polls, operators or terminals that leave.
* **ArcsQuery.** Strong fairness of the receive thread's turn, of the send thread
  and of the timers: the mutex is free, and no registration under way, again and
  again (a turn comes every millisecond, an expiry every two seconds). A
  registration that has begun ends. ARCS need not answer.
* **Enumeration.** Weak fairness of taking the answers that come and of the
  release. Units need not come back, talkers need not end.
* **Discussion** states no liveness.

## 4. What the code does otherwise than it says

Three runs end in a violation; each is a disagreement of the code with a comment
or an assert of its own.

1. `send_queue_own`: every frame is built in the static `gsys_tx_buf`
   (`system_packet_tx.c:62`) and copied only later, under the mutex of the queue,
   although `send_work_queue.c:21` says that the frame passed points to heap
   space of its own. Two threads that send at once may queue one frame twice and
   lose the other.
2. `inflight_assert`: `fn_netif_cb` tests `wait_msg` active and then sets its
   status under `assert( msr_status == 0 )` (`app/avdecc_funhdl.c:139`). The
   answer it has just taken emptied the list, which ends the send thread's wait,
   so the send thread may set `wait_msg` idle in between: the process aborts.
3. `enumeration_release`: "all the connected channels of the id are put on the
   unconnected list" (`central_control_recieve_unit.c:720`), by a loop that goes
   on from the node it has moved and so never comes to the end of the list it
   began with: a unit that restarts while it has a connection stops the epoll
   thread, and the counters run down.

Seen while modelling, modelled as they are, and without a run of their own. The
models contain each of these, and the properties say where they leave it out.

* A conference answer ends any command of its kind to its terminal
  (`aecp_controller_machine.c:399`): the second answer to a command sent twice
  ends the next one. `AnswerIsOwn` is about behaviours in which no key is used
  again while a command or an answer under it is still on its way (the ghost
  `clash` is set once one is).
* A connect that times out posts no event unless the talker is connected
  (`conference_transmit_unit.c:561`), so the connector waits for ever and the
  channel stays in hand. `RequestsEndOrStrand` shows that an event that never
  comes is the only way a request fails to end.
* `finish` is TRUE before the loop over the units
  (`central_control_recieve_unit.c:398`), so only the first is searched when a
  command is concluded: a stream through another unit is never recorded.
* Selecting an applicant leaves `currect_first_index` alone
  (`terminal_pro.c:3257`): the approval that follows opens the one at the old
  index.
* The count of listed speakers is taken modulo the size of the list
  (`terminal_pro.c:5807`, `MAX_LIMIT_SPK_NUM`), and there are as many streams as
  places (`CHANNEL_MUX_NUM`). When the last place is written the count falls to 0
  and the list is taken for empty: closing a microphone removes nobody (`:6146`,
  `if (cLimitSpkNum > 0)`), the limit lets as many again pass, and a VIP or the
  chairman finds nobody to replace. `SpeakersListed` is stated until then (`WasFull`).
* A higher limit of speakers empties the list of applicants and asks for each of
  them; a request the first-speak queue has no room for is logged and dropped, and
  its microphone goes on showing that it waits (`terminal_pro.c:1706`; where one
  applicant's turn comes, `:5897`, it is set closed). `NoApplicantForgotten` is
  stated while the queue has room.
* With a full address table and the current slot 0 the search for a free slot
  never ends (`terminal_pro.c:1049`); with another current slot it ends with the
  address of another slot. After a crash between the two writes to the address
  file, or with a gap in it, addresses are given twice.
* SIGINT on the thread that holds the mutex of the work queue waits for that
  mutex (`func_proccess.c:32`): the shutdown never ends.
* "Who has not signed in cannot vote" (`terminal_pro.c:3901`), but the beginning of
  a vote sets the vote state of registered terminals only (`:3893`), and a sign-in
  leaves that state alone. A terminal that was to be polled in one vote, is unsigned
  by the next sign-in and is away when the next vote begins keeps the state of the
  first one, and is polled once it has registered again. `VotersAdmitted` is
  therefore about the terminals that were registered when the vote began (the ghost
  `called`).
* The end of a poll round stops the running flag after it has looked at the list
  (`terminal_pro.c:8566`): a vote begun in between is not polled until a flag is
  set again.
* ARCS: the ring of 343 places holds 342 reports where 1024 terminals and three
  host units make 343 (`arcs_common.c:69`), and the last is lost; a query that
  was refused is acknowledged and not run when it is repeated, and so is a first
  request with the number 0; the length of a request shorter than its head is
  read uninitialised (`arcs_common.c:346`, `:407`); data that comes during a
  registration closes the FIFO for good (`:241`); of frames that come together
  only the first is seen.
* A unit that restarts is cleared and named `UNKNOWN`
  (`handle_1722_packet_from_raw.c:125`); its entity is read again but the name is
  stored with a new node only (`end_station_prcs.c:506`), so its inputs are
  refused for good. Its slot and its channels stay counted and are not used again.
* Only the unconnected channels of a slot that is not full are compared when an
  input is listed, so a second answer to its read doubles a connected channel or
  opens a second slot, and the unit then takes more connections than
  `PER_CCU_CONNECT_MAX_NUM`. A read that was given up is never repeated.

## 5. The proofs

Eight modules hold proofs, each about the component it is named for but
`Sending_proofs`, which is about two: the frames that are handed to the send
thread and the commands it tracks (`SendQueue`, `Inflight`). What is proved
holds for every value of the constants that the assumption of the module allows;
TLC evaluates the assumption in the module's run, and checks every property
below, the parts of the inductive invariants included, on the instance of that
run. (The invariants of Discussion, `MicInv`, and of Enumeration, `IInv`, are stated
beside their proofs and were checked on the states of the `discussion` and
`enumeration` runs before they were proved.)

| module | theorems | what they state |
|---|---|---|
| `Sending_proofs` | `TypeCorrect`, `FifoCorrect`, `Refinement` | of SendQueue `TypeOK`, `FifoInv`, `ImplementsChannel` |
| | `TrackingCorrect`, `AnswerCorrect`, `LifecycleRefinement` | of Inflight `TrackingInv`, `AnswerIsOwn`, `ImplementsLifecycle` |
| `FuncWorkQueue_proofs` | `TypeCorrect`, `QueueCorrect`, `Refinement` | `TypeOK`, `QueueInv`, `ImplementsChannel` |
| `MicManager_proofs` | `RequestsCorrect`, `ConnectOutcomeCorrect`, `ListsCorrect`, `AcknowledgedCorrect` | `RequestsKept`, `ConnectOutcomeIsOwn`, `ListsAgree`, `RecordedIsAcknowledged` |
| `Discussion_proofs` | `MicInvariant`, `TypeCorrect`, `MicsAgree`, `ListsCorrect`, `NoneForgotten` | `MicInv`, `TypeOK`, `MicAgrees`, `ListsAgree`, `NoApplicantForgotten` |
| `ArcsQuery_proofs` | `AccountsCorrect`, `OneAtATimeCorrect`, `RunsOnceCorrect` | `QueryInv`, `OneAtATime`, `RunsOnce` |
| `Allotment_proofs` | `RequestsCorrect`, `AddressesCorrect` | `RequestsAgree`, `AddressesAgree` |
| `Session_proofs` | `CountCorrect`, `VotersCorrect`, `ShutGateCorrect`, `EarlyEndCorrect`, `PhaseCorrect` | `CountInv`, `VotersAdmitted`, `ShutGateIsOpened`, `EarlyEndMeansAll`, `PhaseKept` |
| `Enumeration_proofs` | `UnitsCorrect`, `ListedOnceCorrect`, `ConnectionsCorrect` | `UnitsAgree`, `ListedOnce`, `ConnectionsKept` |

The assumptions say that sentinels are no values of the kind they stand beside,
that bounds are naturals, and what the code fixes: a queue has two places
(`QueueSize`, one of them unused), the receive units' channels are listed once
and belong to one unit (`RecieveUnitAssumption`), a request may fail at least once
and its counter is a byte that holds the maximum (`MicManagerAssumption`), each
terminal has one slot and there is one terminal at least (`SessionAssumption`),
the terminals of the discussion are finitely many, each first-speak queue has two
places and the list of applicants one more than is used (`DiscussionAssumption`),
addresses are numbers, two at least (`AllotmentAssumption`), and a byte counts the
channels of all slots (`EnumerationAssumption`: 24 slots of 4, and 256 values).

**SendQueue.** `TypeCorrect` goes by induction, one step per action. The state is
typed in groups; `TypesStutter` carries the groups an action leaves alone.
`FifoConserved` alone is not inductive: that the pop in `Advance` removes the
frame the send thread holds, and that `Swap` puts the write queue behind an empty
read queue, depend on what the send thread read without the mutex some steps
before. `SenderView` says what these readings still mean at each of its steps
before the shutdown: only the send thread empties the write queue or fills the
read queue, so "not empty" stays true while producers append. `PopView` says what
is left of it while the shutdown pops the same queue. `FifoInv`, the conjunction,
is inductive. The lemmas `SaveKeeps`, `SwapKeeps`, `AdvanceKeeps`, `TransmitKeeps`
and `PopViewKept` treat the actions that change the concatenation,
`ConservedStutter`, `ViewStutter` and `SignalKeeps` all others. `Refinement`
follows from `FifoInv`: the initial states map to an empty channel; `SavePuts`
maps the append to `Put`, `TransmitDelivers` the transmission to a delivery,
`DrainStep` and `AdvanceStep` the pops, which may lose the front of the channel
once the shutdown has begun (`DropFront`, `DropMiddle`, `DropBehind` are the facts
on sequences); every other step leaves `InFlight` alone (`FlightStutter`).

**FuncWorkQueue.** That no wake-up is lost (`NotStranded`) and that commands run in
order (`TakenInOrder`) both rest on the mutex, and the mutex on who is inside it:
`OwnerHolds` counts the ways out of every critical section, among them the nested
call of the work thread from a command it runs. What made the invariant inductive is
`WorkerView`: the work thread calls only while it runs a command, so it never
waits for the mutex it holds, and what it found empty before it sleeps is still
empty. The refinement needs `TypeOK` only: each step adds at the end, takes the
head, or drains while the close has begun (`DrainLoses`).

**Inflight.** The inductive invariant is `TrackingInv /\ AnswerIsOwn`. That the
list has exactly the commands in flight (`ListTracksPending`) is not inductive
without `AnswersAreDue`, no answer without a transmission, nor `AnswerIsOwn`
without `KeysApart`: as long as no key was used again too soon one command at a
time has it, in the list or on an answer's way, which is what makes the search of
the list by key find the answer's own command. The four lemmas
`AppendTracks`, `UpdateTracks`, `RemoveTracks` and `OthersStay` are the list
operations, on any list; the actions that change the list are instances of them.
`LifecycleRefinement` maps each step to a step in the life of one command or to none
(`LifecycleStep`).

**RecieveUnit, MicManager.** The four theorems come from one invariant, `IInv`: the
machines (`MachinesKept`) and the lists (`ListsAgree`) have to be known at once.
The machines need `OneConnect`, which is `ConnectOutcomeIsOwn` with the
cardinality taken apart: of all commands and events of a connect there is one, and
the connector waits with a request of its talker at the head. The dispatch may
therefore take any event it finds. The lists need three parts that no
single operation shows. `ChannelsHeld`: a channel taken for a command stays taken
until the receive unit has heard of the end, so the second of the two observers
finds it where the first left it. `TalkersApart`: between the event for the
connector and the record of the receive unit the talker is not connected, no other
connect of it is on its way, and its output is protected, so a repeated request is
refused; without the protection time one talker would get two channels.
`AcksAhead`: acknowledged and recorded streams differ by the outcomes still on
their way. The proof goes by operation: `RecordConnectIs`, `RecordDisconnectIs`,
`RecordFailureIs` and `RecordOutcomeIs` say what the receive unit does to lists and
counters; `MachineMoves` says when a pass keeps the machines; then one lemma per
action (`RequestStep` … `UpdateChannelsStep`).

**Discussion.** `MicAgrees` speaks of a terminal for which nothing is under way; to
be inductive it has to say what explains a difference while something is.
`MicOK` does: a microphone shown open is heard or asked to close, one heard is shown
open or asked to be connected; and outside `overlap` at most one opening of a
terminal is under way, none waits for a terminal already heard, and a listed
applicant is heard only while its opening has not been answered. Closing
requests need this of the machines: `Working`, a machine at work has its request at
the head of the queue it stopped at and one event at most, and `EventsTrue`, what an
event reports is still so or a later event of the other machine for the same
terminal has undone it. Without `EventsTrue` a callback could show open what has
been closed between the outcome and the callback. `InList` is what lets a callback
find the next applicant; `ApplicantsOK` says what the places behind the count hold,
which an index outside the list reads.

A handler is a composition of updates to one record, so the proof does not look at
the record after each: `Moves(s, r, K)` says how far a handler may go from `s` to `r`:
requests to the manager are only added, first-speak requests only of terminals of
`K.asked`, microphones are opened of `K.opened` and shown otherwise of `K.shown`
only. It is transitive (`MovesTrans`), each helper has a lemma (`FirstSpkOK`,
`DeleteAtOK`, `NextAfterOK`, ...), and each handler follows by composing them. The
steps then fall in three groups. What keys, examinations and settings do is shown
once for all of them (`PlainStep`). `SendCommand`, `Conclude`, `ConcludeDirect` and
`KeyOfIdle` leave `conf` alone and change what is heard or under way. `TakeEvent` and
`EndUnsent` remove the request at the head, run its callback and have to show, by
`EventsTrue`, that the callback shows what is so. `NoneForgotten` comes out of the
same lemmas: `Remembered` says of each handler which applicants it takes off the
list and what it does with them.

The list of speakers is treated like the microphones shown open. `ListOK` says of a
common terminal outside `overlap` that it is listed or asked to be connected if it is
heard, and heard or asked to be closed if it is listed; `Listing`, a part of `Moves`,
that a handler lists nobody but those it opens and unlists nobody but those it shows
otherwise (`SpeakerListed`, `SpeakerUnlisted`). A place of the list is one of
the openings of which `MicOK` allows one at a time (`PlacesFacts`), so nobody is listed
twice, and with nothing under way this is `SpeakersListed`. The proof did not go through for the list
as a whole: a speaker listed in the last place makes the count 0. As places behind the
count are kept, that place tells whether this has happened (`WasFull`), and the
property is stated until then; TLC shows that without the condition it fails
(section 4).

The disjunct of `NoApplicantForgotten` about the room was found by the proof. The
first-speak queue of the common terminals has 29 usable places; four keys never fill
it. An applicant whose turn comes while it is full is shown closed, but a higher
limit (`SetSpeakLimit`) takes all applicants off the list and asks for each: those
the queue has no room for are left waiting on no list (section 4).

**ArcsQuery.** `OneAtATime` bounds the reports out by those sent again or expired.
Counted so it is not inductive: an answer that was late may let out a report, so
answers under way have to be counted with what is in the list. `ReportsAccounted`
keeps the four accounts. Reports go out in the order of their numbers
(`OnceInOrder`). Each is sent again once and expires once at most, and no more
answers are owed for it than it was sent (`EachTwiceAtMost`). Reports
waiting, and answers that would let out one more (`Spare`), are
together no more than those sent again, those expired, and one for the flag
(`WindowKept`). The flag is raised for the report popped last (`FlagKept`).
`WindowStep` shows for each action that the two sides move together; types come
with the accounts, for the bounds of what ARCS owes are theirs. `RunsOnce` needs
`Remembered`, that the number remembered is that of the request taken last.

**Allotment.** `RequestsAgree` and `AddressesDistinct` are inductive with three
parts about what the threads leave to each other. `ServingKept`: while the lock is
held a request is served, and what is being written to the file is what the
current slot holds, although confirmation, expiry and starting over come from
three threads. `NodesKept`: a node has an address only once its terminal has
registered with it. `SlotsInOrder`: each slot holds the address of its own number,
and a saved address is in its slot. `SavedNotOffered`, about steps, follows: a new
address comes from a free slot (`NextFreeFinds`, by the least distance from the
current one), and a saved one is in none (`OfferedUnsaved`).

**Session.** `EarlyEndMeansAll`, that the start of the host ends early only when every
terminal is registered, follows from `CountKept`: the count is never ahead of
the registered terminals, so a count as high as their number means all. `CountKept`
also bounds the count's type, so the two are proved together (`CountCorrect`).
`PhaseKept` and `VotersAdmitted` share `PhaseStep`, which says of every step which
phase it may set. `ShutGateIsOpened` is inductive as it stands. `FirstFromFinds`
and `NextSlotFinds` say what the search over the slots returns.

**Enumeration.** `UnitsAgree` and `ConnectionsKept` need each other's reasons, so one
invariant, `IInv`, holds them all. That a unit has one slot (`OneSlot`) rests on two
facts. `ReadsOnce`: while no read of a unit was answered twice, the answer to the
read of an input is owed once at most, and never for an input that is listed,
because the reads of the inputs go out when the configuration is stored for the
first time and a restart is never named again. `FullIs`: a second slot is opened
only when the first is full, and a full slot has a channel for every input, for its
nodes are of different inputs of the unit and as many as there are inputs (the
pigeonhole principle); so no input is left to open one for. `Numbered`, that the
nodes of an input are numbered without a gap, makes a node that is listed a new one.

That a connection takes one node of the free list to the connected list needs
`Handled`: one command at a time is under way for a node, it connects the node if the
node is free, and a node found or asked for is the head of its list in a slot with
room below the limit. Without it an answer could connect a node that is connected, or pass
the limit between `Find` and `Conclude`. That a node connected is in the first slot
(`FirstOnly`) is what the search of the code amounts to. `ConnectedIs` and
`NotConnectedIs` say what an answer does to lists and counters, `EnlistIs` what a new
channel does; `ListsMoved` and `MoveIs` are the move of a node between the lists. The
counters are cardinalities, not sums over the slots, because what a fold computes for
every input is out of reach. Lists and counters are claimed until a release
goes astray (section 4): from then on the loop takes apart the list it walks. `TypeOK`,
`ListedOnce` and `ConnectionsKept` hold beyond.

Only model-checked is liveness (`EveryFrameSent`, `CloseEnds`, `EveryCommandEnds`,
`SenderReturns`, `RequestsEndOrStrand`, `EveryCommandRuns`, `RequestsServed`,
`TerminalsRegister`, `ReportsDrain`, `EnumerationCompletes`): it rests on fairness
and ENABLED, which are out of the prover's reach. The three properties that runs
find violated are refuted, not proved.

## 6. What is not modelled

Whole components: those with status `not_modelled` in `PROJECT.json`, with the
reason. Pure I/O and formatting (profile, camera, matrix, UART, user interface,
raw network, logging), third-party code (`jdksavdecc`) and code the build does
not call stay out; the others are in the plan. Of the 134 000 lines of the
repository about 77 000 are the headers and generated accessors of `jdksavdecc`
and about 10 000 more are menus, command tables and file formats, so the share
of lines the models stand for stays small by nature; within the protocol and
concurrency code it is most of them.

Inside the modelled components:

* SendQueue: the leak of the node in `send_work_queue.c:41-46`; what a frame
  contains beside whose it is.
* Inflight: the observers of an ACMP answer, which are in MicManager; the
  descriptor callbacks of an AEM answer, which are in Enumeration; the layout of
  frames.
* RecieveUnit: the polls of stream states. Its lists are complete from the start
  for MicManager; how they come to be is Enumeration.
* MicManager: the list of transmit units and the search for the longest speaker.
* Discussion: the interposition state of the chairman and its queues; setting
  `apply_limit` (a constant); the lamps queued for sending; the time limit
  between two keys of a terminal. Clearing an address list by `memset` with half
  its size in bytes is modelled as clearing, for the places behind the count are
  never read. The manager's decision that a request succeeded is one step here
  and two in `MicManager`.
* FuncWorkQueue: the commands themselves, which are operations of other modules.
* Allotment: the query of the next address and the settings kept in the nodes.
* Session: the reports to the upper computer, lamps and timers of speaking; the
  three kinds of vote are one, with one key.
* ArcsQuery: the bytes of a message, what a report contains, what a command does
  to terminals, matrix and camera.
* Enumeration: stream outputs and transmit units, entities that are no receive
  unit, the reboot command, what the descriptors contain, the protection times of
  a channel.

What `overlap` leaves out of `MicAgrees` and `SpeakersListed` is listed among the
hazards: a key that goes up while the approval is in flight cancels it without
taking the applicant off the list; an approval followed by a turn of the page
takes another applicant off than the one that was opened; a terminal can apply
twice.

## 7. The plan

Order: what decides whether a speaker is heard first, then what feeds it.

| step | module | composes | promise | state |
|---|---|---|---|---|
| 1 | SendQueue | | FifoChannel | checked; type, FIFO order and refinement proved |
| 2 | Inflight | | CommandLifecycle | checked; safety and refinement proved |
| 3 | RecieveUnit, MicManager | MicManager over RecieveUnit | every request ends once | checked; safety proved |
| 4 | Discussion | over the abstraction of MicManager | microphones agree with streams | checked; safety proved |
| 5 | FuncWorkQueue | | FifoChannel | checked; safety and refinement proved |
| 6 | ArcsQuery | over the abstraction of Inflight | one report out at a time | checked; safety proved |
| 7 | Allotment | address file, table and queue | no address has two owners | checked; safety proved |
| 8 | Session | registration, sign-in and vote over the system state | phases kept, only those admitted vote | checked; safety proved |
| 9 | Enumeration | with the lists of RecieveUnit | every input one channel | checked; safety proved |
| 10 | ConnectManager, HostUnits | over the connection subject | table agrees with the network | to do |
| 11 | RingBuffer, observer list | | pure algorithms against a reference | to do |

Every safety property of a passing run is proved; new proofs come with new modules.
