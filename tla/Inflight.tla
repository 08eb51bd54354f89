------------------------------ MODULE Inflight ------------------------------
(***************************************************************************)
(* The commands on their way: the send thread transmits a command and      *)
(* tracks it in the in-flight list (lib/end_station_manager); the epoll    *)
(* thread sends it again or gives it up when its timer elapses, and takes  *)
(* it off the list when an answer arrives on the raw network; the receive  *)
(* thread does so for answers of the upper computer and of ARCS.  Every    *)
(* use of the list but one is a critical section of ginflight_pro.mutex,   *)
(* hence one step here.                                                    *)
(*                                                                         *)
(* After a conference (vendor unique) command the send thread waits for    *)
(* the epoll thread to release it, through wait_msg and gsend_pro_idle     *)
(* (lib/send_module), which no lock protects: every access is a step.      *)
(* How a command reaches the send thread is the module SendQueue; its      *)
(* proofs and those about this module share the module Sending_proofs, so  *)
(* the two have no name in common.                                         *)
(***************************************************************************)
EXTENDS Naturals, FiniteSets, Sequences, SequencesExt

CONSTANTS
    Commands,  \* the frames the send thread is handed
    Kind,      \* the protocol of each
    Key,       \* what an answer is matched by: subtype and sequence number,
               \* or conference command and terminal address
    MaxSent    \* bound on the commands sent

Kinds == {"conference", "conferenceReply", "acmp", "upper", "arcs"}

ASSUME InflightAssumption == Kind \in [Commands -> Kinds]

VARIABLES
    tpc,      \* where the send thread is in thread_send_func with a command
    cur,      \* <<>>, or the command it has transmitted and waits for
    over,     \* the 200 ms of SYSTEM_SQUEUE_SEND_INTERVAL are over
    emr,      \* wait_msg.emr
    idle,     \* gsend_pro_idle
    list,     \* command_send_guard, head first
    epc,      \* where the epoll thread is in fn_timer_cb or fn_netif_cb
    acmpErr,  \* acmp_recv_resp_err
    net,      \* answers on their way, per command they answer
    st,       \* ghost: what became of each command
    sends,    \* ghost: how often it went out
    by,       \* ghost: the command whose answer ended it, as <<c>>
    clash     \* ghost: a command went out under a key still in use

sendVars == <<tpc, cur, over>>
waitVars == <<emr, idle>>
epollVars == <<epc, acmpErr>>
ghosts == <<st, sends, by, clash>>
inflightVars == <<sendVars, waitVars, list, epollVars, net, ghosts>>

Nodes == [cmd : Commands, retried : 1 .. 2, elapsed : BOOLEAN]

(* A failed assert aborts the process. *)
NotAborted == epc # "aborted"

Conference(c) == Kind[c] \in {"conference", "conferenceReply"}
Reply(c) == Kind[c] = "conferenceReply"
OnRawNetwork(c) == Kind[c] \in {"conference", "acmp"}

InflightInit ==
    /\ tpc = "ready" /\ cur = <<>> /\ over = FALSE
    /\ emr = "idle" /\ idle = TRUE
    /\ list = <<>>
    /\ epc = "poll" /\ acmpErr = FALSE
    /\ net = [c \in Commands |-> 0]
    /\ st = [c \in Commands |-> "unsent"]
    /\ sends = [c \in Commands |-> 0]
    /\ by = [c \in Commands |-> <<>>]
    /\ clash = FALSE

(* A command went out: the peer answers it, or one of the two is lost. *)
GoesOut(c) ==
    /\ sends' = [sends EXCEPT ![c] = @ + 1]
    /\ \/ net' = [net EXCEPT ![c] = @ + 1]
       \/ UNCHANGED net

-----------------------------------------------------------------------------
(* thread_send_func *)

(* The thread waits after a conference command, reply or not. *)
AfterTransmit(c) ==
    IF Conference(c)
    THEN tpc' = "activate" /\ cur' = <<c>>
    ELSE UNCHANGED <<tpc, cur>>

(* The frame the send thread is handed next. *)
Handed(c) ==
    /\ st[c] = "unsent"
    /\ Cardinality({d \in Commands : st[d] # "unsent"}) < MaxSent

(* A reply is sent and forgotten ... *)
TransmitReply(c) ==
    /\ NotAborted /\ tpc = "ready" /\ Handed(c) /\ Reply(c)
    /\ st' = [st EXCEPT ![c] = "untracked"]
    /\ sends' = [sends EXCEPT ![c] = @ + 1]
    /\ AfterTransmit(c)
    /\ UNCHANGED <<over, waitVars, list, epollVars, net, by, clash>>

(* A command is listed, or an answer to it is still on its way. *)
Live(c) == st[c] = "pending" \/ net[c] > 0

(* ... a command is listed with its timer started, then sent ... *)
TransmitCommand(c) ==
    /\ NotAborted /\ tpc = "ready" /\ Handed(c) /\ ~Reply(c)
    /\ clash' = (clash \/ \E d \in Commands : Live(d) /\ Key[d] = Key[c])
    /\ list' = Append(list, [cmd |-> c, retried |-> 1, elapsed |-> FALSE])
    /\ st' = [st EXCEPT ![c] = "pending"]
    /\ GoesOut(c)
    /\ AfterTransmit(c)
    /\ UNCHANGED <<over, waitVars, epollVars, by>>

(* ... and neither, when there is no memory for the node. *)
TransmitFails(c) ==
    /\ NotAborted /\ tpc = "ready" /\ Handed(c) /\ ~Reply(c)
    /\ st' = [st EXCEPT ![c] = "dropped"]
    /\ AfterTransmit(c)
    /\ UNCHANGED <<over, waitVars, list, epollVars, net, sends, by, clash>>

(* set_wait_message_primed_state, then set_wait_message_active_state: each *)
(* fails in any state but the one before it, and the result is asserted.   *)
Activate ==
    /\ NotAborted /\ tpc = "activate"
    /\ IF emr = "idle"
       THEN emr' = "active" /\ tpc' = "arm" /\ UNCHANGED epc
       ELSE epc' = "aborted" /\ UNCHANGED <<emr, tpc>>
    /\ UNCHANGED <<cur, over, idle, list, acmpErr, net, ghosts>>

Arm ==
    /\ NotAborted /\ tpc = "arm"
    /\ idle' = FALSE /\ over' = FALSE
    /\ tpc' = "wait"
    /\ UNCHANGED <<cur, emr, list, epollVars, net, ghosts>>

IntervalOver ==
    /\ NotAborted /\ tpc = "wait" /\ ~over
    /\ over' = TRUE
    /\ UNCHANGED <<tpc, cur, waitVars, list, epollVars, net, ghosts>>

(* Mutation: the wait is left without set_wait_message_idle_state. *)
LeaveWaitActive ==
    /\ NotAborted /\ tpc = "wait"
    /\ idle \/ Reply(cur[1]) \/ list = <<>> \/ over
    /\ tpc' = "ready" /\ cur' = <<>>
    /\ UNCHANGED <<over, waitVars, list, epollVars, net, ghosts>>

(* Mutation: the loop only waits to be released. *)
LeaveWaitOnRelease ==
    /\ NotAborted /\ tpc = "wait"
    /\ idle \/ Reply(cur[1])
    /\ tpc' = "setIdle"
    /\ UNCHANGED <<cur, over, waitVars, list, epollVars, net, ghosts>>

(* Each test of the loop ends it by itself; the list is read unlocked. *)
LeaveWait ==
    /\ NotAborted /\ tpc = "wait"
    /\ idle \/ Reply(cur[1]) \/ list = <<>> \/ over
    /\ tpc' = "setIdle"
    /\ UNCHANGED <<cur, over, waitVars, list, epollVars, net, ghosts>>

SetIdle ==
    /\ NotAborted /\ tpc = "setIdle"
    /\ IF emr = "active"
       THEN emr' = "idle" /\ tpc' = "ready" /\ cur' = <<>> /\ UNCHANGED epc
       ELSE epc' = "aborted" /\ UNCHANGED <<emr, tpc, cur>>
    /\ UNCHANGED <<over, idle, list, acmpErr, net, ghosts>>

-----------------------------------------------------------------------------
(* Timers of the listed commands *)

(* Mutation: the timer is not started again by a resend. *)
ElapseOnce(c) ==
    /\ NotAborted
    /\ \E i \in DOMAIN list :
           /\ list[i].cmd = c /\ ~list[i].elapsed /\ list[i].retried = 1
           /\ list' = [list EXCEPT ![i].elapsed = TRUE]
    /\ UNCHANGED <<sendVars, waitVars, epollVars, net, ghosts>>

Elapse(c) ==
    /\ NotAborted
    /\ \E i \in DOMAIN list :
           /\ list[i].cmd = c /\ ~list[i].elapsed
           /\ list' = [list EXCEPT ![i].elapsed = TRUE]
    /\ UNCHANGED <<sendVars, waitVars, epollVars, net, ghosts>>

(* inflight_time_tick handles the first elapsed node, then stops. *)
FirstElapsed(i) ==
    /\ i \in DOMAIN list /\ list[i].elapsed
    /\ \A j \in 1 .. i - 1 : ~list[j].elapsed

IsRetried(node) == node.retried >= 2

(* Mutation: the resend is not counted. *)
ResendUncounted(i) ==
    /\ NotAborted /\ epc = "poll" /\ FirstElapsed(i) /\ ~IsRetried(list[i])
    /\ list' = [list EXCEPT ![i].elapsed = FALSE]
    /\ GoesOut(list[i].cmd)
    /\ UNCHANGED <<sendVars, waitVars, epollVars, st, by, clash>>

(* The node of a command that goes out again, its timer started anew. *)
SentAgain(node) == [cmd |-> node.cmd, retried |-> node.retried + 1, elapsed |-> FALSE]

Resend(i) ==
    /\ NotAborted /\ epc = "poll" /\ FirstElapsed(i) /\ ~IsRetried(list[i])
    /\ list' = [list EXCEPT ![i] = SentAgain(@)]
    /\ GoesOut(list[i].cmd)
    /\ UNCHANGED <<sendVars, waitVars, epollVars, st, by, clash>>

(* Mutation: the node stays listed. *)
ExpireListed(i) ==
    /\ NotAborted /\ epc = "poll" /\ FirstElapsed(i) /\ IsRetried(list[i])
    /\ st' = [st EXCEPT ![list[i].cmd] = "expired"]
    /\ epc' = IF Kind[list[i].cmd] = "arcs" THEN "poll" ELSE "timeoutTest"
    /\ UNCHANGED <<sendVars, waitVars, list, acmpErr, net, sends, by, clash>>

(* The node is freed; is_inflight_timeout, raised and lowered by the epoll *)
(* thread alone within one callback, is the step "timeoutTest".            *)
Expire(i) ==
    /\ NotAborted /\ epc = "poll" /\ FirstElapsed(i) /\ IsRetried(list[i])
    /\ st' = [st EXCEPT ![list[i].cmd] = "expired"]
    /\ list' = RemoveAt(list, i)
    /\ epc' = IF Kind[list[i].cmd] = "arcs" THEN "poll" ELSE "timeoutTest"
    /\ UNCHANGED <<sendVars, waitVars, acmpErr, net, sends, by, clash>>

TimeoutTest ==
    /\ NotAborted /\ epc = "timeoutTest"
    /\ epc' = IF emr = "active" THEN "timeoutRelease" ELSE "poll"
    /\ UNCHANGED <<sendVars, waitVars, list, acmpErr, net, ghosts>>

(* The result of set_wait_message_status is not looked at here. *)
TimeoutRelease ==
    /\ NotAborted /\ epc = "timeoutRelease"
    /\ idle' = TRUE
    /\ epc' = "poll"
    /\ UNCHANGED <<sendVars, emr, list, acmpErr, net, ghosts>>

-----------------------------------------------------------------------------
(* Answers *)

(* Mutation: the head of the list is taken for the command answered. *)
MatchesHead(c, i) == i \in DOMAIN list /\ i = 1

(* The first node with the key of the answer is the one it ends. *)
Matches(c, i) ==
    /\ i \in DOMAIN list /\ Key[list[i].cmd] = Key[c]
    /\ \A j \in 1 .. i - 1 : Key[list[j].cmd] # Key[c]

NoMatch(c) == \A i \in DOMAIN list : Key[list[i].cmd] # Key[c]

EndedBy(c, i) ==
    /\ st' = [st EXCEPT ![list[i].cmd] = "answered"]
    /\ by' = [by EXCEPT ![list[i].cmd] = <<c>>]
    /\ list' = RemoveAt(list, i)

TakeAnswer(c) ==
    /\ net[c] > 0
    /\ net' = [net EXCEPT ![c] = @ - 1]
    /\ \/ \E i \in DOMAIN list : Matches(c, i) /\ EndedBy(c, i)
       \/ NoMatch(c) /\ UNCHANGED <<st, by, list>>

(* After rx_raw_packet_event the release is due when the status of the     *)
(* frame is 0, matched or not, or an ACMP error is on record.              *)
AfterReceive(ok, acmpError) ==
    /\ acmpErr' = (acmpErr \/ acmpError)
    /\ epc' = IF ok \/ acmpErr' THEN "ackTest" ELSE "poll"

(* An answer from the raw network reports success (ok) or an error. *)
ReceiveAnswer(c, ok) ==
    /\ NotAborted /\ epc = "poll" /\ OnRawNetwork(c)
    /\ TakeAnswer(c)
    /\ AfterReceive(ok, Kind[c] = "acmp" /\ ~ok /\ ~NoMatch(c))
    /\ UNCHANGED <<sendVars, waitVars, sends, clash>>

(* Any other frame: an advertisement, an answer to another controller. *)
ReceiveOther(ok) ==
    /\ NotAborted /\ epc = "poll"
    /\ AfterReceive(ok, FALSE)
    /\ UNCHANGED <<sendVars, waitVars, list, net, ghosts>>

AckTest ==
    /\ NotAborted /\ epc = "ackTest"
    /\ epc' = IF emr = "active" THEN "ackStatus" ELSE "poll"
    /\ UNCHANGED <<sendVars, waitVars, list, acmpErr, net, ghosts>>

(* set_wait_message_status fails unless emr is still active: assert. *)
AckStatus ==
    /\ NotAborted /\ epc = "ackStatus"
    /\ epc' = IF emr = "active" THEN "ackRelease" ELSE "aborted"
    /\ UNCHANGED <<sendVars, waitVars, list, acmpErr, net, ghosts>>

AckRelease ==
    /\ NotAborted /\ epc = "ackRelease"
    /\ idle' = TRUE /\ acmpErr' = FALSE
    /\ epc' = "poll"
    /\ UNCHANGED <<sendVars, emr, list, net, ghosts>>

(* The receive thread takes the answers of the upper computer and ARCS. *)
ReceiveElsewhere(c) ==
    /\ NotAborted /\ Kind[c] \in {"upper", "arcs"}
    /\ TakeAnswer(c)
    /\ UNCHANGED <<sendVars, waitVars, epollVars, sends, clash>>

Aborted == ~NotAborted /\ UNCHANGED inflightVars

-----------------------------------------------------------------------------
Transmission ==
    \E c \in Commands : TransmitCommand(c) \/ TransmitReply(c) \/ TransmitFails(c)
Wait == Activate \/ Arm \/ LeaveWait \/ SetIdle
Tick == \E i \in DOMAIN list : Resend(i) \/ Expire(i)
Receive ==
    \E ok \in BOOLEAN : ReceiveOther(ok) \/ \E c \in Commands : ReceiveAnswer(c, ok)
Release == TimeoutTest \/ TimeoutRelease \/ AckTest \/ AckStatus \/ AckRelease

InflightNext ==
    \/ Transmission \/ Wait \/ IntervalOver
    \/ \E c \in Commands : Elapse(c) \/ ReceiveElsewhere(c)
    \/ Tick \/ Receive \/ Release
    \/ Aborted

InflightSpec == InflightInit /\ [][InflightNext]_inflightVars

(* Time passes and the threads run.  The timer descriptor becomes readable *)
(* every 25 ms and one turn of epoll_wait serves every ready descriptor,   *)
(* so frames cannot keep the tick from its turn: strong fairness.          *)
InflightFairness ==
    /\ WF_inflightVars(Wait) /\ WF_inflightVars(IntervalOver) /\ WF_inflightVars(Release)
    /\ SF_inflightVars(Tick)
    /\ \A c \in Commands : WF_inflightVars(Elapse(c))

InflightFairSpec == InflightSpec /\ InflightFairness

-----------------------------------------------------------------------------
Outcomes == {"unsent", "pending", "answered", "expired", "dropped", "untracked"}
SendSteps == {"ready", "activate", "arm", "wait", "setIdle"}
EpollSteps == {"poll", "timeoutTest", "timeoutRelease", "ackTest", "ackStatus",
               "ackRelease", "aborted"}
MaybeCommand == {<<>>} \cup {<<c>> : c \in Commands}

(* Every variable holds what the code can store in it. *)
InflightTypeOK ==
    /\ tpc \in SendSteps /\ cur \in MaybeCommand /\ over \in BOOLEAN
    /\ emr \in {"idle", "active"} /\ idle \in BOOLEAN
    /\ list \in Seq(Nodes)
    /\ epc \in EpollSteps /\ acmpErr \in BOOLEAN
    /\ net \in [Commands -> 0 .. 2]
    /\ st \in [Commands -> Outcomes]
    /\ sends \in [Commands -> 0 .. 2]
    /\ by \in [Commands -> MaybeCommand]
    /\ clash \in BOOLEAN

(* The send thread and wait_msg agree whatever the epoll thread does, so   *)
(* the three asserts of thread_send_func never fail; and the command it    *)
(* waits for is the one it sent.                                           *)
WaitAgrees ==
    /\ tpc \in {"ready", "activate"} => emr = "idle"
    /\ tpc \in {"arm", "wait", "setIdle"} => emr = "active"
    /\ tpc # "ready" => cur # <<>> /\ Conference(cur[1]) /\ st[cur[1]] # "unsent"

(* The list holds exactly the commands without an outcome, each once, with *)
(* the number of times it went out: none is forgotten by a send, a resend, *)
(* an answer or a timeout of another, and none is freed twice.             *)
ListTracksPending ==
    /\ \A i, j \in DOMAIN list : list[i].cmd = list[j].cmd => i = j
    /\ \A i \in DOMAIN list :
           st[list[i].cmd] = "pending" /\ sends[list[i].cmd] = list[i].retried
    /\ \A c \in Commands : st[c] = "pending" => \E i \in DOMAIN list : list[i].cmd = c

(* No peer answers what never went out, nor answers a frame twice. *)
AnswersAreDue ==
    \A c \in Commands :
        /\ net[c] <= sends[c]
        /\ st[c] \in {"unsent", "dropped"} => sends[c] = 0

(* One command at a time has a key, as long as each got a free one. *)
KeysApart ==
    ~clash => \A c, d \in Commands : Live(c) /\ Live(d) /\ Key[c] = Key[d] => c = d

(* The list, its commands and the wait for them agree. *)
TrackingInv ==
    InflightTypeOK /\ WaitAgrees /\ ListTracksPending /\ AnswersAreDue /\ KeysApart

(* As long as no command goes out under a key still in use, by a listed    *)
(* command or by an answer on its way, a command is ended by an answer to  *)
(* itself.  The comments of aecp_proc_resp and of the search only demand   *)
(* that no two are listed: a late answer takes more.                       *)
AnswerIsOwn ==
    ~clash => \A c \in Commands : st[c] = "answered" => by[c] = <<c>>

(* What the assert of fn_netif_cb says: the status of the wait is accepted *)
(* whenever wait_msg was seen active, so no assert ends the process.       *)
StatusAccepted == epc # "aborted"

(* Each command goes through the life the abstract specification gives it: *)
(* sent at most twice, ended once, never sent after its end, whichever of  *)
(* the three threads comes first.                                          *)
Lifecycle == INSTANCE CommandLifecycle

ImplementsLifecycle == Lifecycle!Spec

(* A command in flight ends, although each tick serves one timer only and  *)
(* the first elapsed node delays those behind it.                          *)
EveryCommandEnds ==
    \A c \in Commands : st[c] = "pending" ~> (st[c] # "pending" \/ ~NotAborted)

(* The send thread comes back for the next frame, although its release can *)
(* be overwritten when it arms the wait after the answer came.             *)
SenderReturns == tpc # "ready" ~> (tpc = "ready" \/ ~NotAborted)
=============================================================================
