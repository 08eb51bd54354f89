----------------------------- MODULE MicManager -----------------------------
(***************************************************************************)
(* The microphone manager (lib/conference_host_with_endstation/            *)
(* terminal_disconnect_connect_manager.c) over the receive channels.       *)
(* Opening or closing a microphone is a request queued by priority for     *)
(* one of two mirror-image state machines, the connector and the           *)
(* disconnector.  A machine sends an ACMP command for the request at the   *)
(* head of a queue, puts the request back and waits for the event that the *)
(* transmit unit posts when the command is answered.                       *)
(*                                                                         *)
(* Three threads meet here: any of them may queue or cancel a request, the *)
(* receive thread runs Terminal_micManagerTask (an event, the disconnector *)
(* and then the connector, each a step of its own), and the epoll thread   *)
(* concludes a command by notifying first the transmit unit, which posts   *)
(* the event, and then the receive unit, which moves the channel: the      *)
(* receive thread may run between the two.                                 *)
(***************************************************************************)
EXTENDS RecieveUnit, FiniteSets

CONSTANTS
    PriorOf,          \* the priority of each terminal's requests, 0 highest
    QueueSize,        \* REQ_QUEUE_BUF_SIZE
    MaxFailureTimes,  \* MAX_FAILURE_TIMES
    ByteValues,       \* the values of a uint8_t
    SysStates,        \* the states of the conference system
    Permissions,      \* the sets of states requests may be executed in
    Outcomes,         \* how a command may end: "success", "error", "timeout"
    MaxRequests,      \* bound on the requests and direct disconnects
    MaxErrors         \* bound on the outcomes that are not a success

Priors == 0 .. 2

ASSUME MicManagerAssumption ==
    /\ PriorOf \in [Terminals -> Priors]
    /\ QueueSize \in Nat \ {0, 1}
    /\ ByteValues \in Nat \ {0}
    /\ MaxFailureTimes \in 1 .. (ByteValues - 1)
    /\ Permissions \subseteq SUBSET SysStates
    /\ Outcomes \subseteq {"success", "error", "timeout"}
    /\ MaxRequests \in Nat /\ MaxErrors \in Nat

VARIABLES
    state,      \* l_connectorState, l_disconnectorState
    cur,        \* l_curConnectorQe, l_curDisConnectorQe
    reqQ,       \* l_reqQueues
    acmpQueue,  \* l_acmpQueue
    recvPc,     \* where the receive thread is in Terminal_micManagerTask
    sysState,   \* get_sys_state()
    inflight,   \* the commands sent and not concluded
    notifying,  \* the outcome the epoll thread is between two observers with
    recent,     \* talkers whose output channel was operated a moment ago
    accepted,   \* history: requests queued by each manager ...
    resolved,   \* ... and requests ended with a callback
    direct,     \* history: disconnects made past the manager
    errors,     \* history: outcomes that are not a success
    acked       \* history: streams the listeners acknowledged

micVars == <<state, cur, reqQ, acmpQueue, recvPc, sysState, inflight,
             notifying, recent, accepted, resolved, direct, errors, acked>>
vars == <<channelVars, micVars>>

Managers == {"CONNECTOR", "DISCONNECTOR"}
CommandOf == [m \in Managers |->
                 IF m = "CONNECTOR" THEN "connect" ELSE "disconnect"]
ManagerOf(cmd) == CHOOSE m \in Managers : CommandOf[m] = cmd

Req(t, n, perms, s) ==
    [term |-> t, failureTimes |-> n, permissions |-> perms, sent |-> s]
Requests == [term : Terminals, failureTimes : 0 .. (ByteValues - 1),
             permissions : SUBSET SysStates, sent : BOOLEAN]
Events == [mgr : Managers, ok : BOOLEAN, term : Terminals]
Commands == [cmd : {"connect", "disconnect"}, term : Terminals,
             chan : Channels]

(* A QueueCom ring keeps one slot of its buffer free. *)
Room(q) == Len(q) < QueueSize - 1

TypeOK ==
    /\ ChannelsTypeOK
    /\ state \in [Managers -> {"FINISH", "WAIT", "SUCCESS", "FAILED"}]
    /\ cur \in [Managers -> Priors]
    /\ reqQ \in [Managers -> [Priors -> Seq(Requests)]]
    /\ \A m \in Managers, p \in Priors : Len(reqQ[m][p]) < QueueSize
    /\ acmpQueue \in Seq(Events) /\ Len(acmpQueue) < QueueSize
    /\ recvPc \in Managers \cup {"idle"}
    /\ sysState \in SysStates
    /\ inflight \subseteq Commands
    /\ notifying \in {<<>>} \cup {<<[k |-> k, outcome |-> o]>> :
                                     k \in Commands, o \in Outcomes}
    /\ recent \subseteq Terminals
    /\ accepted \in [Managers -> Nat] /\ resolved \in [Managers -> Nat]
    /\ direct \in Nat /\ errors \in Nat
    /\ acked \subseteq Terminals \X Channels

Init ==
    /\ ChannelsInit
    /\ state = [m \in Managers |-> "FINISH"]
    /\ cur = [m \in Managers |-> 0]
    /\ reqQ = [m \in Managers |-> [p \in Priors |-> <<>>]]
    /\ acmpQueue = <<>>
    /\ recvPc = "idle"
    /\ sysState \in SysStates
    /\ inflight = {} /\ notifying = <<>> /\ recent = {}
    /\ accepted = [m \in Managers |-> 0] /\ resolved = [m \in Managers |-> 0]
    /\ direct = 0 /\ errors = 0 /\ acked = {}

-----------------------------------------------------------------------------
(* The other threads *)

WithinBound ==
    accepted["CONNECTOR"] + accepted["DISCONNECTOR"] + direct < MaxRequests

(* Terminal_requestConnect and Terminal_requestDisConnect; on a full queue *)
(* they return FALSE and change nothing.                                   *)
Request(m, t, perm) ==
    /\ WithinBound
    /\ Room(reqQ[m][PriorOf[t]])
    /\ reqQ' = [reqQ EXCEPT ![m][PriorOf[t]] =
                   Append(@, Req(t, MaxFailureTimes, perm, FALSE))]
    /\ accepted' = [accepted EXCEPT ![m] = @ + 1]
    /\ UNCHANGED <<channelVars, state, cur, acmpQueue, recvPc, sysState,
                   inflight, notifying, recent, resolved, direct, errors, acked>>

Revoked(e) == Req(e.term, e.failureTimes, {}, e.sent)

(* Terminal_cancelTask takes the permissions of the terminal's first       *)
(* request away: the machine ends it when it looks at it next.             *)
CancelTask(m, t) ==
    LET q == reqQ[m][PriorOf[t]]
        found == {i \in DOMAIN q : q[i].term = t}
    IN /\ found # {}
       /\ reqQ' = [reqQ EXCEPT ![m][PriorOf[t]][Min(found)] = Revoked(@)]
       /\ UNCHANGED <<channelVars, state, cur, acmpQueue, recvPc, sysState,
                      inflight, notifying, recent, accepted, resolved, direct,
                      errors, acked>>

CancelAllTask ==
    /\ reqQ' = [m \in Managers |-> [p \in Priors |->
                  [i \in DOMAIN reqQ[m][p] |-> Revoked(reqQ[m][p][i])]]]
    /\ UNCHANGED <<channelVars, state, cur, acmpQueue, recvPc, sysState,
                   inflight, notifying, recent, accepted, resolved, direct,
                   errors, acked>>

SetSysState(s) ==
    /\ s # sysState
    /\ sysState' = s
    /\ UNCHANGED <<channelVars, state, cur, reqQ, acmpQueue, recvPc, inflight,
                   notifying, recent, accepted, resolved, direct, errors, acked>>

(* The callers of trans_model_unit_disconnect outside the manager: the     *)
(* start of a discussion, the automatic close of silent microphones and    *)
(* the chairman's close of all.                                            *)
DirectDisconnect(t) ==
    /\ WithinBound
    /\ \E c \in Untalkable(t) :
          /\ Handle(c)
          /\ inflight' = inflight \cup
                {[cmd |-> "disconnect", term |-> t, chan |-> c]}
    /\ direct' = direct + 1
    /\ UNCHANGED <<state, cur, reqQ, acmpQueue, recvPc, sysState, notifying,
                   recent, accepted, resolved, errors, acked>>

-----------------------------------------------------------------------------
(* Terminal_micManagerTask, in the receive thread *)

(* Mutation: the kind of the event is not looked at. *)
AfterAnyEvent(e) ==
    [m \in Managers |->
        IF state[m] = "WAIT" THEN IF e.ok THEN "SUCCESS" ELSE "FAILED"
        ELSE state[m]]

(* The dispatch of an acmp event: a machine that waits takes the event of  *)
(* its own kind, whatever talker it names; any other event is dropped.     *)
AfterEvent(e) ==
    [m \in Managers |->
        IF state[m] = "WAIT" /\ e.mgr = m
        THEN IF e.ok THEN "SUCCESS" ELSE "FAILED"
        ELSE state[m]]

(* An event, or 100 ms without one, starts a pass over the queues. *)
ReceiveEvent ==
    /\ recvPc = "idle" /\ acmpQueue # <<>>
    /\ state' = AfterEvent(Head(acmpQueue))
    /\ acmpQueue' = Tail(acmpQueue)
    /\ recvPc' = "DISCONNECTOR"
    /\ UNCHANGED <<channelVars, cur, reqQ, sysState, inflight, notifying,
                   recent, accepted, resolved, direct, errors, acked>>

Tick ==
    /\ recvPc = "idle" /\ acmpQueue = <<>>
    /\ recvPc' = "DISCONNECTOR"
    /\ UNCHANGED <<channelVars, state, cur, reqQ, acmpQueue, sysState, inflight,
                   notifying, recent, accepted, resolved, direct, errors, acked>>

(* Mutation: an open request is not checked against the connections. *)
DoneClosed(m, t) == m = "DISCONNECTOR" /\ ~IsConnected(t)

(* The talker already is where the request wants it. *)
Done(m, t) == IF m = "CONNECTOR" THEN IsConnected(t) ELSE ~IsConnected(t)

(* A request that is not to be executed is ended without a command. *)
NotExecuted(m, e) == sysState \notin e.permissions \/ Done(m, e.term)

(* Mutation: the attempt is not counted. *)
DecrementedNever(n) == n

(* failureTimes is a uint8_t. *)
Decremented(n) == (n + ByteValues - 1) % ByteValues

(* Mutation: the request goes to the end of its queue. *)
PutBackFiFo(m, p, e) == reqQ' = [reqQ EXCEPT ![m][p] = Append(Tail(@), e)]

(* QueueCom_postLiFo: the request goes back to the head of its queue. *)
PutBack(m, p, e) == reqQ' = [reqQ EXCEPT ![m][p] = <<e>> \o Tail(@)]

(* The output channel of a talker is protected for 2.5 s after it was      *)
(* connected or disconnected: no connect command is sent for it.           *)
Protected(t) == t \in recent

(* The channels a command for t may be sent to, none if the host refuses. *)
Targets(m, t) ==
    IF m = "DISCONNECTOR" THEN Untalkable(t)
    ELSE IF Talkable /\ ~Protected(t) THEN Available ELSE {}

(* No channel, or, the disconnect interval being 0 ms, a disconnect in the *)
(* very millisecond of the last operation.                                 *)
Refuses(m, t) ==
    Targets(m, t) = {} \/ (m = "DISCONNECTOR" /\ Protected(t))

(* The request ends and its callback runs; the next pass starts again from *)
(* the highest priority.                                                   *)
Resolve(m, p, endState) ==
    /\ reqQ' = [reqQ EXCEPT ![m][p] = Tail(@)]
    /\ resolved' = [resolved EXCEPT ![m] = @ + 1]
    /\ state' = [state EXCEPT ![m] = endState]
    /\ cur' = [cur EXCEPT ![m] = 0]
    /\ UNCHANGED <<channelVars, inflight>>

KeepWaiting(m, p) ==
    /\ state[m] = "WAIT"
    /\ cur' = [cur EXCEPT ![m] = p]
    /\ UNCHANGED <<channelVars, state, reqQ, inflight, resolved>>

EndAnswered(m, p) ==
    /\ state[m] = "SUCCESS"
    /\ Resolve(m, p, "FINISH")

EndNotExecuted(m, p) ==
    /\ state[m] \in {"FINISH", "FAILED"}
    /\ NotExecuted(m, Head(reqQ[m][p]))
    /\ Resolve(m, p, state[m])

(* trans_model_unit_connect or _disconnect returns 0. *)
Send(m, p) ==
    LET e == Head(reqQ[m][p]) IN
    /\ state[m] \in {"FINISH", "FAILED"} /\ ~NotExecuted(m, e)
    /\ \E c \in Targets(m, e.term) :
          /\ Handle(c)
          /\ inflight' = inflight \cup
                {[cmd |-> CommandOf[m], term |-> e.term, chan |-> c]}
    /\ PutBack(m, p, Req(e.term, Decremented(e.failureTimes), e.permissions, TRUE))
    /\ state' = [state EXCEPT ![m] = "WAIT"]
    /\ cur' = [cur EXCEPT ![m] = p]
    /\ UNCHANGED resolved

Refused(m, p) ==
    LET e == Head(reqQ[m][p]) IN
    /\ state[m] \in {"FINISH", "FAILED"} /\ ~NotExecuted(m, e)
    /\ Refuses(m, e.term)
    /\ e.failureTimes > 0
    /\ PutBack(m, p, Req(e.term, Decremented(e.failureTimes), e.permissions, e.sent))
    /\ state' = [state EXCEPT ![m] = "FINISH"]
    /\ cur' = [cur EXCEPT ![m] = 0]
    /\ UNCHANGED <<channelVars, inflight, resolved>>

EndRefused(m, p) ==
    LET e == Head(reqQ[m][p]) IN
    /\ state[m] \in {"FINISH", "FAILED"} /\ ~NotExecuted(m, e)
    /\ Refuses(m, e.term)
    /\ e.failureTimes = 0
    /\ Resolve(m, p, "FINISH")

(* The loop over the queues from cur: the head of the first that is not    *)
(* empty is dispatched, and the loop ends with it.                         *)
Pass(m) ==
    LET ready == {p \in cur[m] .. 2 : reqQ[m][p] # <<>>} IN
    /\ recvPc = m
    /\ recvPc' = IF m = "DISCONNECTOR" THEN "CONNECTOR" ELSE "idle"
    /\ IF ready = {}
       THEN UNCHANGED <<channelVars, state, cur, reqQ, inflight, resolved>>
       ELSE LET p == Min(ready) IN
            \/ KeepWaiting(m, p)
            \/ EndAnswered(m, p)
            \/ EndNotExecuted(m, p)
            \/ Send(m, p)
            \/ Refused(m, p)
            \/ EndRefused(m, p)
    /\ UNCHANGED <<acmpQueue, sysState, notifying, recent, accepted, direct,
                   errors, acked>>

-----------------------------------------------------------------------------
(* The epoll thread concludes a command *)

(* The events the transmit unit's observer posts.  A connect that timed    *)
(* out is reported only if the talker is connected; a disconnect that      *)
(* timed out, if the talker is or its microphone is not closed (mic_state, *)
(* kept by the discussion).                                                *)
Posted(k, o) ==
    LET event(ok) == <<[mgr |-> ManagerOf(k.cmd), ok |-> ok, term |-> k.term]>>
        there == IsConnected(k.term)
    IN CASE o = "success" -> {event(TRUE)}
         [] o = "error" -> {event(there <=> k.cmd = "connect")}
         [] o = "timeout" /\ there -> {event(FALSE)}
         [] o = "timeout" /\ ~there /\ k.cmd = "connect" -> {<<>>}
         [] o = "timeout" /\ ~there /\ k.cmd = "disconnect" ->
                {<<>>, event(FALSE)}

(* The streams acknowledged after an outcome. *)
Acknowledged(k, o) ==
    LET others == {s \in acked : s[2] # k.chan} IN
    IF o # "success" THEN acked
    ELSE IF k.cmd = "connect" THEN others \cup {<<k.term, k.chan>>}
    ELSE others

(* The connection subject notifies the transmit unit first; an event that  *)
(* finds the queue full is lost.                                           *)
Conclude(k, o) ==
    /\ notifying = <<>>
    /\ o # "success" => errors < MaxErrors
    /\ inflight' = inflight \ {k}
    /\ notifying' = <<[k |-> k, outcome |-> o]>>
    /\ \E evs \in Posted(k, o) :
          acmpQueue' = IF Room(acmpQueue) THEN acmpQueue \o evs ELSE acmpQueue
    /\ recent' = IF o = "success" THEN recent \cup {k.term} ELSE recent
    /\ errors' = IF o = "success" THEN errors ELSE errors + 1
    /\ acked' = Acknowledged(k, o)
    /\ UNCHANGED <<channelVars, state, cur, reqQ, recvPc, sysState, accepted,
                   resolved, direct>>

(* ... and then the receive unit. *)
UpdateChannels ==
    /\ notifying # <<>>
    /\ LET n == Head(notifying)
       IN RecordOutcome(n.k.cmd, n.outcome, n.k.term, n.k.chan)
    /\ notifying' = <<>>
    /\ UNCHANGED <<state, cur, reqQ, acmpQueue, recvPc, sysState, inflight,
                   recent, accepted, resolved, direct, errors, acked>>

(* The 2.5 s are long enough for the epoll thread to finish notifying. *)
ProtectionExpires(t) ==
    /\ t \in recent
    /\ \A i \in DOMAIN notifying : notifying[i].k.term # t
    /\ recent' = recent \ {t}
    /\ UNCHANGED <<channelVars, state, cur, reqQ, acmpQueue, recvPc, sysState,
                   inflight, notifying, accepted, resolved, direct, errors,
                   acked>>

-----------------------------------------------------------------------------
ReceiveStep == ReceiveEvent \/ Tick \/ \E m \in Managers : Pass(m)

EpollStep ==
    \/ \E k \in inflight : \E o \in Outcomes : Conclude(k, o)
    \/ UpdateChannels

Next ==
    \/ \E m \in Managers, t \in Terminals, perm \in Permissions :
          Request(m, t, perm)
    \/ \E m \in Managers, t \in Terminals : CancelTask(m, t)
    \/ CancelAllTask
    \/ \E s \in SysStates : SetSysState(s)
    \/ \E t \in Terminals : DirectDisconnect(t) \/ ProtectionExpires(t)
    \/ ReceiveStep
    \/ EpollStep

(* Both threads loop for ever; every command is answered or times out. *)
Fairness == WF_vars(ReceiveStep) /\ WF_vars(EpollStep)

Spec == Init /\ [][Next]_vars /\ Fairness

-----------------------------------------------------------------------------
(* A machine that is not done with a command finds the request it was sent *)
(* for where it left it: at the head of the queue the next pass starts     *)
(* from.  No request of another thread gets in front, and no pass starts   *)
(* below the highest priority for another reason.                          *)
WaitHoldsHead ==
    \A m \in Managers :
        state[m] \in {"WAIT", "SUCCESS"} \/ cur[m] # 0 =>
            LET q == reqQ[m][cur[m]] IN q # <<>> /\ Head(q).sent

(* No accepted request is lost or ended twice: what a manager accepted is  *)
(* still queued or had its callback.                                       *)
RequestsAccounted ==
    \A m \in Managers :
        accepted[m] = resolved[m] + Len(reqQ[m][0]) + Len(reqQ[m][1])
                                  + Len(reqQ[m][2])

(* The machines and their queues agree, whatever the other threads do. *)
RequestsKept == TypeOK /\ WaitHoldsHead /\ RequestsAccounted

(* What may still tell the connector the outcome of a command. *)
ConnectTalkers ==
    {<<"command", k.term, k.chan>> : k \in {i \in inflight : i.cmd = "connect"}}
    \cup {<<"event", acmpQueue[i].term, i>> :
             i \in {j \in DOMAIN acmpQueue : acmpQueue[j].mgr = "CONNECTOR"}}

(* The dispatch never looks at the talker of an event.  For the connector  *)
(* this is right: there is at most one command or event of a connect, and  *)
(* while there is one the connector waits, with a request of that talker.  *)
ConnectOutcomeIsOwn ==
    /\ Cardinality(ConnectTalkers) <= 1
    /\ \A x \in ConnectTalkers :
          /\ state["CONNECTOR"] = "WAIT"
          /\ Head(reqQ["CONNECTOR"][cur["CONNECTOR"]]).term = x[2]

(* A talker is heard through one channel only, although a success is told  *)
(* to the connector before the receive unit has recorded it.               *)
TalkerOnOneChannel ==
    \A a, b \in Recorded : a[1] = b[1] => a = b

(* The counters the limits are checked against are the lengths of the      *)
(* connected lists, and no channel is lost or listed twice.                *)
CountsAgree ==
    /\ \A u \in Units :
          /\ unitNum[u] = Len(connected[u])
          /\ LET all == unconnected[u] \o connected[u]
             IN IsInjective(all) /\ ToSet(all) = ToSet(ChannelsOf[u])
    /\ cnntNum = Cardinality(InUse)

(* A channel is given to one command at a time, and is kept for it until   *)
(* the receive unit has heard of its end: nothing else moves it meanwhile. *)
(* Channels are in use in the units that are searched only.                *)
Ending == {notifying[i].k : i \in DOMAIN notifying}
ChannelsHeld ==
    /\ \A k \in inflight \cup Ending :
          /\ k.chan \in handling
          /\ k.cmd = "connect" <=> k.chan \notin InUse
          /\ \A l \in inflight \cup Ending : k.chan = l.chan => k = l
    /\ inflight \cap Ending = {}
    /\ \A u \in Units \ SearchedUnits : connected[u] = <<>>
    /\ \A c \in InUse : tarker[c] # NoTerminal

(* A talker whose connect may still be recorded is not connected, and no   *)
(* other connect of it is on its way: until the receive unit has recorded  *)
(* a success its output channel is protected.                              *)
Connects(n) == n.k.cmd = "connect" /\ n.outcome = "success"
ToRecord ==
    {k \in inflight : k.cmd = "connect"}
    \cup {n.k : n \in {m \in ToSet(notifying) : Connects(m)}}
TalkersApart ==
    /\ \A k \in ToRecord :
          /\ ~IsConnected(k.term)
          /\ \A l \in ToRecord : k.term = l.term => k = l
          /\ k \in inflight \/ k.term \in recent

(* What the listener has acknowledged goes ahead of what is recorded by    *)
(* the outcome the receive unit is still to hear of.                       *)
AcksAhead ==
    /\ \A s \in Recorded \ acked : \E n \in ToSet(notifying) :
          n.outcome = "success" /\ n.k.cmd = "disconnect" /\ n.k.chan = s[2]
    /\ \A n \in ToSet(notifying) : Connects(n) => <<n.k.term, n.k.chan>> \in acked

(* The receive unit's lists, counters and talkers agree. *)
ListsAgree ==
    TalkerOnOneChannel /\ CountsAgree /\ ChannelsHeld /\ TalkersApart /\ AcksAhead

(* The host never believes in a stream the listener did not acknowledge. *)
RecordedIsAcknowledged == notifying = <<>> => Recorded \subseteq acked

Pending(m) == accepted[m] # resolved[m]

(* The machine waits for an event, and no command or event is left. *)
Stranded(m) ==
    /\ state[m] = "WAIT"
    /\ \A k \in inflight : k.cmd # CommandOf[m]
    /\ \A i \in DOMAIN acmpQueue : acmpQueue[i].mgr # m

(* Nothing but an event that never comes keeps requests from ending: they  *)
(* all get their callback, or the machine is left waiting for an event     *)
(* when neither a command nor an event is there any more.                  *)
RequestsEndOrStrand ==
    \A m \in Managers : Pending(m) ~> (~Pending(m) \/ Stranded(m))
=============================================================================
