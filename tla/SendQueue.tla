------------------------------ MODULE SendQueue ------------------------------
(***************************************************************************)
(* The double send queue of the controller (lib/send_module): any thread   *)
(* hands a frame to system_tx, which copies it to the buffer all threads   *)
(* share, gsys_tx_buf, and calls system_packet_save_send_queue, which      *)
(* appends a copy of the buffer to the write queue gwrite_send_queue; the  *)
(* send thread thread_send_func swaps the write queue with its own empty   *)
(* read queue net_send_queue and pops frames from there.  Both queues      *)
(* share one mutex and one condition variable, but the emptiness of either *)
(* is tested without the mutex, the send thread pops without it, and it    *)
(* waits on the condition without a predicate loop.  The receive thread    *)
(* repairs lost signals with the 20 ms check of send_common_check_squeue.  *)
(*                                                                         *)
(* A critical section that cannot block is one step, guarded by the mutex  *)
(* being free; every unlocked read of shared state is a step of its own.   *)
(* What the transmission itself does is the module Inflight.               *)
(***************************************************************************)
EXTENDS Naturals, Sequences, FiniteSets

CONSTANTS
    Producers,   \* the threads that call system_tx
    BufferSize,  \* TRANSMIT_DATA_BUFFER_SIZE
    MaxCalls     \* bound: calls each producer makes

ASSUME SendQueueAssumption ==
    /\ BufferSize \in Nat \ {0}
    /\ MaxCalls \in Nat

VARIABLES
    wq,        \* gwrite_send_queue.work, head first
    rq,        \* net_send_queue.work, head first
    buf,       \* gsys_tx_buf: the call whose frame it holds, or <<>>
    ppc,       \* where each producer is in system_tx
    plen,      \* the frame_len of the call in progress
    sawEmpty,  \* write_empty && read_empty as far as the producer has read them
    calls,     \* ghost: calls made by each producer, numbers its frames
    spc,       \* where the send thread is in thread_send_func
    sw,        \* the send thread's local write_empty
    node,      \* the send thread's local p: <<>> for NULL, or <<frame>>
    rpc,       \* where the receive thread is in send_common_check_squeue
    cw,        \* its local write_empty
    elapsed,   \* the timer CHECK_SYSTEM_SEND_QUEUE_INDEX has elapsed
    running,   \* m_isRunning
    cpc,       \* where system_close is
    cnode,     \* the q_node of destroy_network_send_work_queue
    accepted,  \* ghost: the frames queued so far, in order
    sent       \* ghost: the frames handed to tx_packet_event, in order

queues == <<wq, rq>>
prodVars == <<buf, ppc, plen, sawEmpty, calls>>
checkVars == <<rpc, cw, elapsed>>
closeVars == <<running, cpc, cnode>>
vars == <<wq, rq, prodVars, spc, sw, node, checkVars, closeVars, accepted, sent>>

FrameLens == 0 .. BufferSize + 1
CallIds == Producers \X (1 .. MaxCalls)
Frames == [call : CallIds, len : 1 .. BufferSize, data : CallIds]

ProducerSteps == {"idle", "readWrite", "readRead", "save", "signal"}
SenderSteps == {"loop", "readRead", "swap", "wait", "waiting", "woken",
                "load", "advance", "transmit", "done"}
CheckSteps == {"listen", "readRead", "signal"}
CloseSteps == {"none", "stopped", "load", "advance", "signal", "exit", "exited"}

(* The mutex is held across steps only by the loop that empties the queue. *)
MutexFree == cpc \notin {"load", "advance"}

(* The process is alive: exit(0) in the signal handler ends every thread. *)
Alive == cpc # "exited"

Init ==
    /\ wq = <<>> /\ rq = <<>>
    /\ buf = <<>>
    /\ ppc = [p \in Producers |-> "idle"]
    /\ plen = [p \in Producers |-> 0]
    /\ sawEmpty = [p \in Producers |-> FALSE]
    /\ calls = [p \in Producers |-> 0]
    /\ spc = "loop" /\ sw = FALSE /\ node = <<>>
    /\ rpc = "listen" /\ cw = FALSE /\ elapsed = FALSE
    /\ running = TRUE /\ cpc = "none" /\ cnode = <<>>
    /\ accepted = <<>> /\ sent = <<>>

(* pthread_cond_signal: wakes the send thread if it is waiting, else lost. *)
AfterSignal(pc) == IF pc = "waiting" THEN "woken" ELSE pc

-----------------------------------------------------------------------------
(* system_tx and system_packet_save_send_queue *)

(* Mutation: no test of the frame length. *)
FillUnchecked(p, len) ==
    /\ Alive /\ ppc[p] = "idle" /\ calls[p] < MaxCalls
    /\ calls' = [calls EXCEPT ![p] = @ + 1]
    /\ buf' = <<p, calls'[p]>>
    /\ plen' = [plen EXCEPT ![p] = len]
    /\ ppc' = [ppc EXCEPT ![p] = "readWrite"]
    /\ UNCHANGED <<queues, sawEmpty, spc, sw, node, checkVars, closeVars, accepted, sent>>

(* A frame longer than the buffer is refused; any other is copied to it,   *)
(* over what it holds.  A copy torn by another is not told from one that   *)
(* is overwritten.                                                         *)
Fill(p, len) ==
    /\ Alive /\ ppc[p] = "idle" /\ calls[p] < MaxCalls
    /\ calls' = [calls EXCEPT ![p] = @ + 1]
    /\ IF len > BufferSize
       THEN UNCHANGED <<buf, ppc, plen>>
       ELSE /\ buf' = <<p, calls'[p]>>
            /\ plen' = [plen EXCEPT ![p] = len]
            /\ ppc' = [ppc EXCEPT ![p] = "readWrite"]
    /\ UNCHANGED <<queues, sawEmpty, spc, sw, node, checkVars, closeVars, accepted, sent>>

(* The length is tested once more, to no effect, and write_empty read. *)
ReadWriteEmpty(p) ==
    /\ Alive /\ ppc[p] = "readWrite"
    /\ sawEmpty' = [sawEmpty EXCEPT ![p] = wq = <<>>]
    /\ ppc' = [ppc EXCEPT ![p] = "readRead"]
    /\ UNCHANGED <<queues, buf, plen, calls, spc, sw, node, checkVars, closeVars,
                   accepted, sent>>

ReadReadEmpty(p) ==
    /\ Alive /\ ppc[p] = "readRead"
    /\ sawEmpty' = [sawEmpty EXCEPT ![p] = @ /\ rq = <<>>]
    /\ ppc' = [ppc EXCEPT ![p] = "save"]
    /\ UNCHANGED <<queues, buf, plen, calls, spc, sw, node, checkVars, closeVars,
                   accepted, sent>>

(* The call's locals are not used again. *)
AfterSave(p) ==
    /\ Alive /\ ppc[p] = "save" /\ MutexFree
    /\ ppc' = [ppc EXCEPT ![p] = IF sawEmpty[p] THEN "signal" ELSE "idle"]
    /\ plen' = [plen EXCEPT ![p] = 0]
    /\ sawEmpty' = [sawEmpty EXCEPT ![p] = FALSE]
    /\ UNCHANGED <<rq, buf, calls, spc, sw, node, checkVars, closeVars, sent>>

(* send_work_queue_message_save appends a copy of the buffer ... *)
Save(p) ==
    LET frame == [call |-> <<p, calls[p]>>, len |-> plen[p], data |-> buf] IN
    /\ plen[p] > 0
    /\ wq' = Append(wq, frame)
    /\ accepted' = Append(accepted, frame)
    /\ AfterSave(p)

(* ... or returns -1: an empty frame, or malloc finds no space. *)
SaveFails(p) ==
    /\ AfterSave(p)
    /\ UNCHANGED <<wq, accepted>>

ProducerSignal(p) ==
    /\ Alive /\ ppc[p] = "signal"
    /\ spc' = AfterSignal(spc)
    /\ ppc' = [ppc EXCEPT ![p] = "idle"]
    /\ UNCHANGED <<queues, buf, plen, sawEmpty, calls, sw, node, checkVars,
                   closeVars, accepted, sent>>

-----------------------------------------------------------------------------
(* thread_send_func *)

(* The top of the loop, once the send interval has elapsed. *)
SenderLoop ==
    /\ Alive /\ spc = "loop"
    /\ IF running
       THEN sw' = (wq = <<>>) /\ spc' = "readRead"
       ELSE spc' = "done" /\ UNCHANGED sw
    /\ UNCHANGED <<queues, prodVars, node, checkVars, closeVars, accepted, sent>>

SenderReadEmpty ==
    /\ Alive /\ spc = "readRead"
    /\ spc' = IF rq # <<>> THEN "load" ELSE IF sw THEN "wait" ELSE "swap"
    /\ UNCHANGED <<queues, prodVars, sw, node, checkVars, closeVars, accepted, sent>>

Swap ==
    /\ Alive /\ spc = "swap" /\ MutexFree
    /\ rq' = wq /\ wq' = rq
    /\ spc' = "load"
    /\ UNCHANGED <<prodVars, sw, node, checkVars, closeVars, accepted, sent>>

CondWait ==
    /\ Alive /\ spc = "wait" /\ MutexFree
    /\ spc' = "waiting"
    /\ UNCHANGED <<queues, prodVars, sw, node, checkVars, closeVars, accepted, sent>>

(* pthread_cond_wait may return without a signal. *)
SpuriousWakeup ==
    /\ Alive /\ spc = "waiting"
    /\ spc' = "woken"
    /\ UNCHANGED <<queues, prodVars, sw, node, checkVars, closeVars, accepted, sent>>

(* The mutex is taken again and released, and the loop continues. *)
Wake ==
    /\ Alive /\ spc = "woken" /\ MutexFree
    /\ spc' = "loop"
    /\ UNCHANGED <<queues, prodVars, sw, node, checkVars, closeVars, accepted, sent>>

(* queue_get, called without the mutex: the head is read ... *)
Load ==
    /\ Alive /\ spc = "load"
    /\ node' = IF rq = <<>> THEN <<>> ELSE <<Head(rq)>>
    /\ spc' = "advance"
    /\ UNCHANGED <<queues, prodVars, sw, checkVars, closeVars, accepted, sent>>

(* Mutation: the head that was read stays in the queue. *)
AdvanceNot ==
    /\ Alive /\ spc = "advance"
    /\ IF node = <<>> \/ node[1].len > BufferSize
       THEN spc' = "loop" /\ node' = <<>>
       ELSE spc' = "transmit" /\ UNCHANGED node
    /\ UNCHANGED <<queues, prodVars, sw, checkVars, closeVars, accepted, sent>>

(* ... and moved on; a NULL or oversized node is passed over. *)
Advance ==
    /\ Alive /\ spc = "advance"
    /\ rq' = IF rq = <<>> THEN <<>> ELSE Tail(rq)
    /\ IF node = <<>> \/ node[1].len > BufferSize
       THEN spc' = "loop" /\ node' = <<>>
       ELSE spc' = "transmit" /\ UNCHANGED node
    /\ UNCHANGED <<wq, prodVars, sw, checkVars, closeVars, accepted, sent>>

(* The frame is copied, the node freed, and tx_packet_event called. *)
Transmit ==
    /\ Alive /\ spc = "transmit"
    /\ sent' = Append(sent, node[1])
    /\ node' = <<>>
    /\ spc' = "loop"
    /\ UNCHANGED <<queues, prodVars, sw, checkVars, closeVars, accepted>>

-----------------------------------------------------------------------------
(* send_common_check_squeue, called by every turn of pthread_recv_data_fn *)

TimerElapses ==
    /\ Alive /\ ~elapsed
    /\ elapsed' = TRUE
    /\ UNCHANGED <<queues, prodVars, spc, sw, node, rpc, cw, closeVars, accepted, sent>>

CheckListen ==
    /\ Alive /\ running /\ rpc = "listen" /\ elapsed
    /\ cw' = (wq = <<>>)
    /\ rpc' = "readRead"
    /\ UNCHANGED <<queues, prodVars, spc, sw, node, elapsed, closeVars, accepted, sent>>

(* Mutation: only the read queue is looked at. *)
CheckReadOnly ==
    /\ Alive /\ rpc = "readRead"
    /\ rpc' = IF rq # <<>> THEN "signal" ELSE "listen"
    /\ UNCHANGED <<queues, prodVars, spc, sw, node, cw, elapsed, closeVars, accepted, sent>>

CheckReadEmpty ==
    /\ Alive /\ rpc = "readRead"
    /\ rpc' = IF rq # <<>> \/ ~cw THEN "signal" ELSE "listen"
    /\ UNCHANGED <<queues, prodVars, spc, sw, node, cw, elapsed, closeVars, accepted, sent>>

CheckSignal ==
    /\ Alive /\ rpc = "signal"
    /\ spc' = AfterSignal(spc)
    /\ elapsed' = FALSE
    /\ rpc' = "listen"
    /\ UNCHANGED <<queues, prodVars, sw, node, cw, closeVars, accepted, sent>>

-----------------------------------------------------------------------------
(* system_close, run by the SIGINT handler; then exit(0) *)

(* Mutation: the queue is emptied before m_isRunning is cleared. *)
StopLate ==
    /\ cpc = "none"
    /\ cpc' = "stopped"
    /\ UNCHANGED <<queues, prodVars, spc, sw, node, checkVars, running, cnode, accepted, sent>>

Stop ==
    /\ cpc = "none"
    /\ running' = FALSE /\ cpc' = "stopped"
    /\ UNCHANGED <<queues, prodVars, spc, sw, node, checkVars, cnode, accepted, sent>>

(* destroy_network_send_work_queue holds the mutex and empties rq only. *)
DrainLoad ==
    /\ cpc \in {"stopped", "load"}
    /\ IF rq = <<>>
       THEN cpc' = "signal" /\ UNCHANGED cnode
       ELSE cpc' = "advance" /\ cnode' = <<Head(rq)>>
    /\ UNCHANGED <<queues, prodVars, spc, sw, node, checkVars, running, accepted, sent>>

(* Mutation: the head stays while the queue is emptied. *)
DrainAdvanceNot ==
    /\ cpc = "advance"
    /\ cnode' = <<>>
    /\ cpc' = "load"
    /\ UNCHANGED <<queues, prodVars, spc, sw, node, checkVars, running, accepted, sent>>

DrainAdvance ==
    /\ cpc = "advance"
    /\ rq' = IF rq = <<>> THEN <<>> ELSE Tail(rq)
    /\ cnode' = <<>>
    /\ cpc' = "load"
    /\ UNCHANGED <<wq, prodVars, spc, sw, node, checkVars, running, accepted, sent>>

CloseSignal ==
    /\ cpc = "signal"
    /\ spc' = AfterSignal(spc)
    /\ cpc' = "exit"
    /\ UNCHANGED <<queues, prodVars, sw, node, checkVars, running, cnode, accepted, sent>>

Exit ==
    /\ cpc = "exit"
    /\ cpc' = "exited"
    /\ UNCHANGED <<queues, prodVars, spc, sw, node, checkVars, running, cnode, accepted, sent>>

Terminated == cpc = "exited" /\ UNCHANGED vars

-----------------------------------------------------------------------------
Producer(p) ==
    \/ ReadWriteEmpty(p) \/ ReadReadEmpty(p)
    \/ Save(p) \/ SaveFails(p) \/ ProducerSignal(p)

Sender ==
    \/ SenderLoop \/ SenderReadEmpty \/ Swap \/ CondWait \/ Wake
    \/ Load \/ Advance \/ Transmit

Check == TimerElapses \/ CheckListen \/ CheckReadEmpty \/ CheckSignal

Close == DrainLoad \/ DrainAdvance \/ CloseSignal \/ Exit

Next ==
    \/ \E p \in Producers : (\E len \in FrameLens : Fill(p, len)) \/ Producer(p)
    \/ Sender \/ SpuriousWakeup
    \/ Check
    \/ Stop \/ Close \/ Terminated

Spec == Init /\ [][Next]_vars

(* Every thread keeps running; nobody has to call, to stop or to wake up   *)
(* without a signal.                                                       *)
Fairness ==
    /\ \A p \in Producers : WF_vars(Producer(p))
    /\ WF_vars(Sender)
    /\ WF_vars(TimerElapses)
    /\ WF_vars(CheckListen \/ CheckReadEmpty \/ CheckSignal)
    /\ WF_vars(Close)

FairSpec == Spec /\ Fairness

-----------------------------------------------------------------------------
(* NULL, or a pointer to one frame. *)
NodeTypes == {<<>>} \cup {<<f>> : f \in Frames}

QueueTypes ==
    /\ wq \in Seq(Frames) /\ rq \in Seq(Frames)
    /\ accepted \in Seq(Frames) /\ sent \in Seq(Frames)

ProducerTypes ==
    /\ buf \in CallIds \cup {<<>>}
    /\ ppc \in [Producers -> ProducerSteps]
    /\ plen \in [Producers -> 0 .. BufferSize]
    /\ sawEmpty \in [Producers -> BOOLEAN]
    /\ calls \in [Producers -> 0 .. MaxCalls]
    /\ \A p \in Producers : ppc[p] # "idle" => calls[p] > 0 /\ buf # <<>>

SenderTypes ==
    /\ spc \in SenderSteps /\ sw \in BOOLEAN /\ node \in NodeTypes
    /\ spc = "transmit" => node # <<>>

CheckTypes == rpc \in CheckSteps /\ cw \in BOOLEAN /\ elapsed \in BOOLEAN

CloseTypes == running \in BOOLEAN /\ cpc \in CloseSteps /\ cnode \in NodeTypes

(* Every variable holds what the code can store in it; a producer past its *)
(* first check has a call in progress, a transmission has a frame.         *)
TypeOK ==
    /\ QueueTypes /\ ProducerTypes /\ SenderTypes /\ CheckTypes /\ CloseTypes

(* system_close has not begun to empty the read queue. *)
NotDraining == cpc \in {"none", "stopped"}

(* The popped frame the send thread holds and has not yet sent. *)
InHand == IF spc = "transmit" THEN node ELSE <<>>

(* Until the shutdown empties the queue, what was queued is what was sent, *)
(* then what the send thread holds, then the read queue, then the write    *)
(* queue: no frame is lost, repeated or overtaken, although the send       *)
(* thread tests and pops without the mutex.                                *)
FifoConserved ==
    NotDraining => accepted = sent \o InHand \o rq \o wq

(* What the send thread may rely on at each step, although it read it      *)
(* without the mutex: only it empties the write queue or fills the read    *)
(* queue.  With FifoConserved this is inductive.                           *)
SenderView ==
    NotDraining =>
        /\ spc = "readRead" /\ ~sw => wq # <<>>
        /\ spc = "swap" => rq = <<>> /\ wq # <<>>
        /\ spc = "load" => rq # <<>>
        /\ spc = "advance" => rq # <<>> /\ node = <<Head(rq)>>

(* What stays true while the shutdown pops the same queue under a mutex    *)
(* the send thread does not take: the swap still finds the read queue      *)
(* empty, and a node read as NULL was not put there behind its back.       *)
PopView ==
    /\ node # <<>> => spc \in {"advance", "transmit"}
    /\ spc = "swap" => rq = <<>>
    /\ spc = "advance" /\ node = <<>> => rq = <<>>
    /\ running <=> cpc = "none"

(* All of it, inductive together with the types. *)
FifoInv == TypeOK /\ FifoConserved /\ SenderView /\ PopView

(* What is queued for a call is the frame the call was given: the frame of *)
(* the message is the caller's own memory until it has been copied.        *)
FramesAreOwn ==
    \A i \in DOMAIN accepted : accepted[i].data = accepted[i].call

(* A queued frame is sent in the end, unless the system is shut down: a    *)
(* signal lost between the emptiness test and pthread_cond_wait is made up *)
(* for by send_common_check_squeue.                                        *)
EveryFrameSent ==
    \A c \in CallIds :
        (\E i \in DOMAIN accepted : accepted[i].call = c)
            ~> (~running \/ \E i \in DOMAIN sent : sent[i].call = c)

(* The read queue without the node the send thread has read at its head    *)
(* and not yet moved past.                                                 *)
Unread ==
    IF spc = "advance" /\ node # <<>> /\ rq # <<>> /\ node = <<Head(rq)>>
    THEN Tail(rq) ELSE rq

(* What is queued or held, as an abstract channel sees it: a node counts   *)
(* as held from the moment the send thread has read the head.              *)
InFlight == node \o (Unread \o wq)

(* The double queue implements one first-in first-out channel that loses   *)
(* frames only after m_isRunning is cleared.                               *)
Channel == INSTANCE FifoChannel WITH
    Messages <- Frames, pending <- InFlight, put <- accepted, got <- sent,
    closing <- ~running

ImplementsChannel == Channel!Spec

(* The shutdown comes to exit(0) whatever the other threads hold.  A       *)
(* critical section is one step here, so the SIGINT is one that interrupts *)
(* no holder of the mutex; FuncWorkQueue has the other kind.               *)
CloseEnds == (cpc = "stopped") ~> (cpc = "exited")
=============================================================================
