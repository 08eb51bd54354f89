----------------------------- MODULE Discussion -----------------------------
(***************************************************************************)
(* The discussion (lib/conference_host_with_endstation/terminal_pro.c):    *)
(* who may speak, who waits with an application, and the microphone states *)
(* the host believes in.  The four discussion modes share one record of    *)
(* flags, gdisc_flags, here conf with the queues and microphone states.    *)
(*                                                                         *)
(* A key is handled by one thread; the receive thread serves the           *)
(* first-speak queues, runs the microphone manager and its callbacks; the  *)
(* epoll thread ends the manager's commands.  The manager is abstracted    *)
(* here to what MicManager shows of it: each of its machines has one       *)
(* command in flight, for the head of one of its queues, learns the        *)
(* outcome by an event and ends every request with one callback.           *)
(***************************************************************************)
EXTENDS Integers, Sequences, FiniteSets, SequencesExt, FiniteSetsExt

CONSTANTS
    Terminals,      \* the registered terminals
    PriorOf,        \* the type of each: 0 chairman, 1 VIP, 2 common
    NoAddr,         \* 0xffff
    Modes,          \* the discussion modes that may be set
    Limits,         \* the values of the limit of speakers
    ApplyLimit,     \* apply_limit, the limit of applicants
    MaxSpk,         \* MAX_LIMIT_SPK_NUM
    MaxApply,       \* MAX_LIMIT_APPLY_NUM
    FsQueueSize,    \* the places of the first-speak queue of each priority
    UsedInStreams,  \* CCRU_canUsedInStreams
    MaxOps,         \* bound on keys and on operators' requests
    MaxErrors       \* bound on the commands that fail

Priors == 0 .. 2

ASSUME DiscussionAssumption ==
    /\ IsFiniteSet(Terminals) /\ PriorOf \in [Terminals -> Priors]
    /\ NoAddr \notin Terminals
    /\ Modes \subseteq {"PPT", "FIFO", "LIMIT", "APPLY"}
    /\ Limits \subseteq 1 .. MaxSpk
    /\ MaxSpk \in Nat \ {0} /\ MaxApply \in Nat \ {0}
    /\ ApplyLimit \in 1 .. MaxApply
    /\ FsQueueSize \in [Priors -> Nat \ {0, 1}]
    /\ UsedInStreams \in Nat /\ MaxOps \in Nat /\ MaxErrors \in Nat

VARIABLES
    conf,       \* gdisc_flags, the microphone states and the request queues
    machine,    \* the command of each machine: none, in flight or failed
    acmpQueue,  \* events to the machines, l_acmpQueue
    streams,    \* terminals trans_model_unit_is_connected tells of
    direct,     \* disconnects in flight past the manager
    keyPc,      \* the key between the test of its tasks and its effect
    ops, errors,
    past,       \* history: a stream was closed past the manager
    overlap     \* history: opened twice at once, or speaker and applicant

vars == <<conf, machine, acmpQueue, streams, direct, keyPc, ops, errors,
          past, overlap>>

Managers == {"CONNECTOR", "DISCONNECTOR"}
MicStates == {"CLOSE", "OPEN", "FIRST_APPLY", "OTHER_APPLY"}
Common == {t \in Terminals : PriorOf[t] = 2}
Slots == 0 .. (MaxSpk - 1)
ApplySlots == 0 .. (MaxApply - 1)

(* COMMON_SPK_PERMISSION and APPLY_CB_PERMISSION; a cancelled request has  *)
(* none.  The system stays in a state the first allows.                    *)
Permissions == SUBSET {"COMMON_SPK", "APPLY_CB"}
Elements == [term : Terminals, permissions : Permissions]

TypeOK ==
    /\ conf.edis_mode \in Modes /\ conf.limit_num \in Limits
    /\ conf.speak_addr_list \in [Slots -> Terminals \cup {NoAddr}]
    /\ conf.vipSpeakList \in [Slots -> Terminals \cup {NoAddr}]
    /\ conf.speak_limit_num \in Slots /\ conf.vipSpkNum \in Slots
    /\ conf.apply_addr_list \in [ApplySlots -> Terminals \cup {NoAddr}]
    /\ conf.apply_num \in 0 .. ApplyLimit
    /\ conf.currect_first_index \in 0 .. MaxApply
    /\ conf.mic_state \in [Terminals -> MicStates]
    /\ conf.micSetPro \in BOOLEAN
    /\ conf.fSpkQueue \in [Priors -> Seq(Elements)]
    /\ \A p \in Priors : Len(conf.fSpkQueue[p]) < FsQueueSize[p]
    /\ conf.reqQueues \in [Managers -> [Priors -> Seq(Elements)]]
    /\ machine \in [Managers -> {<<>>} \cup {<<p, st>> : p \in Priors,
                                             st \in {"WAIT", "FAILED"}}]
    /\ acmpQueue \in Seq([mgr : Managers, ok : BOOLEAN])
    /\ streams \subseteq Terminals /\ direct \subseteq Terminals
    /\ keyPc \in {<<>>} \cup {<<[term |-> t, down |-> b]>> :
                                  t \in Terminals, b \in BOOLEAN}
    /\ ops \in 0 .. MaxOps /\ errors \in 0 .. MaxErrors
    /\ past \in BOOLEAN /\ overlap \subseteq Terminals

Init ==
    /\ \E m \in Modes, n \in Limits :
          conf = [edis_mode |-> m, limit_num |-> n,
                  speak_addr_list |-> [i \in Slots |-> NoAddr],
                  speak_limit_num |-> 0,
                  vipSpeakList |-> [i \in Slots |-> NoAddr],
                  vipSpkNum |-> 0,
                  apply_addr_list |-> [i \in ApplySlots |-> NoAddr],
                  apply_num |-> 0, currect_first_index |-> ApplyLimit,
                  mic_state |-> [t \in Terminals |-> "CLOSE"],
                  micSetPro |-> FALSE,
                  fSpkQueue |-> [p \in Priors |-> <<>>],
                  reqQueues |-> [g \in Managers |-> [p \in Priors |-> <<>>]]]
    /\ machine = [g \in Managers |-> <<>>] /\ acmpQueue = <<>>
    /\ streams = {} /\ direct = {} /\ keyPc = <<>>
    /\ ops = 0 /\ errors = 0 /\ past = FALSE /\ overlap = {}

-----------------------------------------------------------------------------
(* The address lists: an array and the number of its places in use.        *)

DeletedAt(l, n, i) ==
    [k \in DOMAIN l |-> IF k = n - 1 THEN NoAddr
                        ELSE IF k \in i .. (n - 2) THEN l[k + 1] ELSE l[k]]
Places(l, n, t) == {i \in 0 .. (n - 1) : l[i] = t}

(* The list behind its end holds no terminal. *)
ApplicantAt(s, i) ==
    IF i \in ApplySlots THEN s.apply_addr_list[i] ELSE NoAddr
CurrentApplicant(s) == ApplicantAt(s, s.currect_first_index)

DeleteApplicantAt(s, i) ==
    IF i >= s.apply_num THEN s
    ELSE [s EXCEPT !.apply_addr_list = DeletedAt(@, s.apply_num, i),
                   !.apply_num = @ - 1]
DeleteApplicant(s, t) ==
    LET at == Places(s.apply_addr_list, s.apply_num, t)
    IN IF at = {} THEN s ELSE DeleteApplicantAt(s, Min(at))

SetMic(s, t, mic) ==
    IF t = NoAddr THEN s ELSE [s EXCEPT !.mic_state[t] = mic]

(* terminal_after_time_mic_state_node_set: one at a time, a second within  *)
(* 200 ms is forgotten.                                                    *)
SetMicAfterTime(s, t, mic) ==
    IF s.micSetPro THEN s
    ELSE [SetMic(s, t, mic) EXCEPT !.micSetPro = TRUE]

(* currect_first_index %= apply_num *)
Wrapped(s) == [s EXCEPT !.currect_first_index = @ % s.apply_num]

(* The next applicant is shown as the first a little later. *)
NextAfterTime(s, none) ==
    IF s.apply_num > 0
    THEN SetMicAfterTime(Wrapped(s), CurrentApplicant(Wrapped(s)), "FIRST_APPLY")
    ELSE [s EXCEPT !.currect_first_index = none]

(* terminal_apply_list_first_speak *)
ListFirstSpeak(s) ==
    IF s.apply_num > 0
    THEN SetMic(Wrapped(s), CurrentApplicant(Wrapped(s)), "FIRST_APPLY")
    ELSE [s EXCEPT !.currect_first_index = 0]

PostApply(s, t) ==
    LET first == s.apply_num = 0
    IN [s EXCEPT !.apply_addr_list[s.apply_num] = t,
                 !.apply_num = @ + 1,
                 !.currect_first_index = IF first THEN 0 ELSE @,
                 !.mic_state[t] = IF first THEN "FIRST_APPLY"
                                           ELSE "OTHER_APPLY"]

(* Mutation: the number of applicants is not compared with the limit. *)
ApplyAlways(s, t) == PostApply(s, t)

Apply(s, t) == IF s.apply_num < ApplyLimit THEN PostApply(s, t) ELSE s

-----------------------------------------------------------------------------
(* The requests *)

Request(t, perm) == [term |-> t, permissions |-> perm]
FsRoom(s, p) == Len(s.fSpkQueue[p]) < FsQueueSize[p] - 1

(* Terminal_firstSpkRequestConnect; a full queue leaks the element. *)
FirstSpkRequest(s, t, p, perm) ==
    IF FsRoom(s, p)
    THEN [s EXCEPT !.fSpkQueue[p] = Append(@, Request(t, perm))]
    ELSE s

RequestManager(s, g, t, p, perm) ==
    [s EXCEPT !.reqQueues[g][p] = Append(@, Request(t, perm))]
RequestDisConnect(s, t, p) ==
    RequestManager(s, "DISCONNECTOR", t, p, {"COMMON_SPK"})

Queued(q, t) == {i \in DOMAIN q : q[i].term = t}
Cancelled(q, t) ==
    IF Queued(q, t) = {} THEN q
    ELSE [q EXCEPT ![Min(Queued(q, t))].permissions = {}]

HasTask(s, t) ==
    \/ \E g \in Managers : Queued(s.reqQueues[g][PriorOf[t]], t) # {}
    \/ Queued(s.fSpkQueue[PriorOf[t]], t) # {}

(* terminal_speak_num_count *)
SpeakNum(s) == Cardinality({t \in Terminals : s.mic_state[t] = "OPEN"})
StreamFree(s) == SpeakNum(s) < UsedInStreams
SpeakerFree(s) == s.speak_limit_num < s.limit_num /\ StreamFree(s)

Speak(s, t) == FirstSpkRequest(s, t, PriorOf[t], {"COMMON_SPK"})

(* Terminal_getDisconnectAddress: the places of a list whose terminal has  *)
(* no disconnect request of that priority yet.                             *)
Replaceable(s, l, n, p) ==
    {i \in 0 .. (n - 1) :
        l[i] # NoAddr /\ Queued(s.reqQueues["DISCONNECTOR"][p], l[i]) = {}}

-----------------------------------------------------------------------------
(* A key is pressed (down) or released.  Each operator gives the possible  *)
(* states after it.                                                        *)

CommonDown(s, t) ==
    LET first == s.speak_addr_list[0] IN
    CASE t \in streams -> SetMic(s, t, "OPEN")
      [] t \notin streams /\ s.edis_mode = "PPT" ->
            IF StreamFree(s) THEN Speak(s, t) ELSE s
      [] t \notin streams /\ s.edis_mode = "LIMIT" ->
            IF SpeakerFree(s) THEN Speak(s, t)
            ELSE IF \A p \in Priors : s.fSpkQueue[p] = <<>> THEN Apply(s, t)
            ELSE s
      [] t \notin streams /\ s.edis_mode = "FIFO" ->
            IF SpeakerFree(s) THEN Speak(s, t)
            ELSE IF first # NoAddr
            THEN Speak(RequestDisConnect(s, first, 2), t)
            ELSE s
      [] t \notin streams /\ s.edis_mode = "APPLY" -> Apply(s, t)

VipDown(s, t) ==
    LET at == Replaceable(s, s.speak_addr_list, s.speak_limit_num, 2) IN
    IF t \in streams THEN SetMic(s, t, "OPEN")
    ELSE IF StreamFree(s) THEN Speak(s, t)
    ELSE IF at # {}
    THEN Speak(RequestDisConnect(s, s.speak_addr_list[Min(at)], 2), t)
    ELSE s

(* reqConnect is not initialised in Terminal_chairmanInSpeakSuccess: when  *)
(* no speaker can be replaced, either value is returned.                   *)
ChairmanDown(s, t) ==
    LET common == Replaceable(s, s.speak_addr_list, s.speak_limit_num, 2)
        vip == Replaceable(s, s.vipSpeakList, s.vipSpkNum, 1)
    IN IF t \in streams THEN {SetMic(s, t, "OPEN")}
       ELSE IF StreamFree(s) THEN {Speak(s, t)}
       ELSE IF common # {}
       THEN {Speak(RequestDisConnect(s, s.speak_addr_list[Min(common)], 2), t)}
       ELSE IF vip # {}
       THEN {Speak(RequestDisConnect(s, s.vipSpeakList[Min(vip)], 1), t)}
       ELSE {s, Speak(s, t)}

(* An applicant gives up.  The terminal then shown as the first one is     *)
(* looked up with the index before it is brought back into the list.       *)
Withdraw(s, was, t) ==
    LET stale == was.currect_first_index
        listed == Places(s.apply_addr_list, s.apply_num, t) # {}
        next(d) == IF d.apply_num = 0 THEN d
                   ELSE SetMic(Wrapped(d), ApplicantAt(d, stale), "FIRST_APPLY")
    IN CASE was.edis_mode = "APPLY" ->
              LET d == DeleteApplicant(DeleteApplicant(s, t), t)
              IN IF listed /\ CurrentApplicant(was) = t THEN next(d) ELSE d
         [] was.edis_mode = "LIMIT" ->
              IF was.mic_state[t] \in {"FIRST_APPLY", "OTHER_APPLY"}
              THEN next(DeleteApplicant(s, t)) ELSE s
         [] OTHER -> s

(* Mutation: the microphone is shown closed whether it is connected or not. *)
KeyUpClosed(s, t) == SetMic(s, t, "CLOSE")

KeyUp(s, t) ==
    IF t \in streams THEN RequestDisConnect(s, t, PriorOf[t])
    ELSE IF t \in Common THEN Withdraw(SetMic(s, t, "CLOSE"), s, t)
    ELSE SetMic(s, t, "CLOSE")

KeySpeakEffect(s, t, down) ==
    CASE ~down -> {KeyUp(s, t)}
      [] down /\ PriorOf[t] = 2 -> {CommonDown(s, t)}
      [] down /\ PriorOf[t] = 1 -> {VipDown(s, t)}
      [] down /\ PriorOf[t] = 0 -> ChairmanDown(s, t)

-----------------------------------------------------------------------------
(* The callbacks of the manager *)

(* Mutation: the applicant is taken from the list and not requested. *)
LimitModeApplyTSpeakLost(s) ==
    IF SpeakerFree(s) THEN {ListFirstSpeak(DeleteApplicantAt(s, s.currect_first_index))}
    ELSE {s}

(* Terminal_limitModeApplyTSpeak: a place is free, the current applicant   *)
(* speaks.  What Terminal_firstSpkRequestConnect returns when the queue is *)
(* full is not initialised.                                                *)
LimitModeApplyTSpeak(s) ==
    LET i == s.currect_first_index
        t == CurrentApplicant(s)
        rest == DeleteApplicantAt(s, i)
    IN IF \/ s.fSpkQueue[0] # <<>> \/ s.fSpkQueue[1] # <<>>
          \/ ~SpeakerFree(s) \/ i >= s.apply_num
       THEN {s}
       ELSE IF FsRoom(s, 2)
       THEN {ListFirstSpeak(FirstSpkRequest(rest, t, 2, {"COMMON_SPK"}))}
       ELSE {ListFirstSpeak(SetMic(rest, t, "CLOSE")), ListFirstSpeak(rest)}

CommonOpened(s, t, perm) ==
    LET opened == [s EXCEPT !.mic_state[t] = "OPEN",
                            !.speak_addr_list[s.speak_limit_num] = t,
                            !.speak_limit_num = (@ + 1) % MaxSpk]
    IN IF s.edis_mode = "APPLY" /\ "APPLY_CB" \in perm
       THEN NextAfterTime(DeleteApplicantAt(opened, opened.currect_first_index),
                          ApplyLimit)
       ELSE opened

CommonNotOpened(s, t, perm) ==
    IF "COMMON_SPK" \in perm /\ s.edis_mode = "LIMIT" /\ ~StreamFree(s)
    THEN Apply(s, t) ELSE s

OpenMicCallback(s, t, ok, perm) ==
    CASE ~ok /\ PriorOf[t] = 2 -> CommonNotOpened(s, t, perm)
      [] ~ok /\ PriorOf[t] # 2 -> s
      [] ok /\ PriorOf[t] = 2 -> CommonOpened(s, t, perm)
      [] ok /\ PriorOf[t] = 1 ->
            [s EXCEPT !.mic_state[t] = "OPEN",
                      !.vipSpeakList[s.vipSpkNum] = t,
                      !.vipSpkNum = (@ + 1) % MaxSpk]
      [] ok /\ PriorOf[t] = 0 -> SetMic(s, t, "OPEN")

(* Mutation: the speaker stays in the list. *)
SpeakerDeletedNot(s, t) == s

SpeakerDeleted(s, t) ==
    LET common == Places(s.speak_addr_list, s.speak_limit_num, t)
        vip == Places(s.vipSpeakList, s.vipSpkNum, t)
    IN CASE PriorOf[t] = 2 /\ common # {} ->
              [s EXCEPT !.speak_addr_list = DeletedAt(@, s.speak_limit_num, Min(common)),
                        !.speak_limit_num = @ - 1]
         [] PriorOf[t] = 1 /\ vip # {} ->
              [s EXCEPT !.vipSpeakList = DeletedAt(@, s.vipSpkNum, Min(vip)),
                        !.vipSpkNum = @ - 1]
         [] OTHER -> s

CloseMicCallback(s, t, ok) ==
    LET closed == SpeakerDeleted(SetMic(s, t, "CLOSE"), t) IN
    IF ~ok THEN {s}
    ELSE IF s.edis_mode = "LIMIT" THEN LimitModeApplyTSpeak(closed)
    ELSE {closed}

Callback(s, g, t, ok, perm) ==
    IF g = "CONNECTOR" THEN {OpenMicCallback(s, t, ok, perm)}
    ELSE CloseMicCallback(s, t, ok)

-----------------------------------------------------------------------------
Applicants(s) == {s.apply_addr_list[i] : i \in 0 .. (s.apply_num - 1)}

(* A terminal may be asked to open while it speaks or is being opened, and *)
(* may still be an applicant when it speaks.                               *)
BeingOpened(s, t) ==
    Cardinality(Queued(s.fSpkQueue[PriorOf[t]], t))
    + Cardinality(Queued(s.reqQueues["CONNECTOR"][PriorOf[t]], t))
Openings(s, t) ==
    BeingOpened(s, t)
    + Cardinality(Places(s.speak_addr_list, s.speak_limit_num, t))
    + Cardinality(Places(s.vipSpeakList, s.vipSpkNum, t))

Becomes(s) ==
    /\ conf' = s
    /\ overlap' = overlap \cup {t \in Terminals :
                                   \/ Openings(conf', t) > 1
                                   \/ /\ t \in Applicants(conf') \cap streams
                                      /\ BeingOpened(conf', t) = 0}

Operation ==
    /\ ops < MaxOps
    /\ ops' = ops + 1

others == <<machine, acmpQueue, streams, direct, errors, past>>

(* The handling of a key, in a terminal's message or from the upper        *)
(* computer.  A terminal that has a task may only cancel it.               *)
KeyOfBusy(t, down) ==
    LET g == IF down THEN "DISCONNECTOR" ELSE "CONNECTOR"
        p == PriorOf[t]
    IN /\ Operation /\ keyPc = <<>>
       /\ HasTask(conf, t)
       /\ Becomes(IF down = (t \in streams)
                  THEN [conf EXCEPT !.reqQueues[g][p] = Cancelled(@, t),
                                    !.fSpkQueue[p] = Cancelled(@, t)]
                  ELSE conf)
       /\ UNCHANGED <<others, keyPc>>

KeyOfIdle(t, down) ==
    /\ Operation /\ keyPc = <<>>
    /\ ~HasTask(conf, t)
    /\ keyPc' = <<[term |-> t, down |-> down]>>
    /\ UNCHANGED <<others, conf, overlap>>

(* The effect waits for l_callBackLocker. *)
KeySpeak ==
    /\ keyPc # <<>>
    /\ \E s \in KeySpeakEffect(conf, keyPc[1].term, keyPc[1].down) : Becomes(s)
    /\ keyPc' = <<>>
    /\ UNCHANGED <<others, ops>>

(* terminal_firstSpkingPro serves a queue while those above it are empty;  *)
(* a request it puts back changes nothing.                                 *)
ServeFirstSpeak(p) ==
    LET q == conf.fSpkQueue[p]
        popped == [conf EXCEPT !.fSpkQueue[p] = Tail(@)]
    IN /\ q # <<>> /\ \A h \in 0 .. (p - 1) : conf.fSpkQueue[h] = <<>>
       /\ \/ /\ Head(q).permissions = {}
             /\ Becomes(popped)
          \/ /\ Head(q).permissions # {}
             /\ \A h \in Priors : conf.reqQueues["DISCONNECTOR"][h] = <<>>
             /\ Becomes(RequestManager(popped, "CONNECTOR", Head(q).term, p,
                                       Head(q).permissions))
       /\ UNCHANGED <<others, keyPc, ops>>

-----------------------------------------------------------------------------
(* The microphone manager *)

Done(g, t) == IF g = "CONNECTOR" THEN t \in streams ELSE t \notin streams

(* The queue machine g serves next: after a failed attempt it goes on with *)
(* the same request, else it looks for the highest priority.               *)
Serves(g, p) ==
    /\ conf.reqQueues[g][p] # <<>>
    /\ IF machine[g] = <<>> THEN \A h \in 0 .. (p - 1) : conf.reqQueues[g][h] = <<>>
       ELSE machine[g] = <<p, "FAILED">>

EndRequest(g, p, ok) ==
    LET e == Head(conf.reqQueues[g][p])
        popped == [conf EXCEPT !.reqQueues[g][p] = Tail(@)]
    IN /\ \E s \in Callback(popped, g, e.term, ok, e.permissions) : Becomes(s)
       /\ machine' = [machine EXCEPT ![g] = <<>>]

(* A cancelled request, one that is done already or one refused too often  *)
(* ends with what the host believes of the stream.                         *)
EndUnsent(g, p) ==
    /\ Serves(g, p)
    /\ EndRequest(g, p, Done(g, Head(conf.reqQueues[g][p]).term))
    /\ UNCHANGED <<acmpQueue, streams, direct, errors, past, keyPc, ops>>

SendCommand(g, p) ==
    LET e == Head(conf.reqQueues[g][p]) IN
    /\ Serves(g, p) /\ e.permissions # {} /\ ~Done(g, e.term)
    /\ machine' = [machine EXCEPT ![g] = <<p, "WAIT">>]
    /\ UNCHANGED <<conf, overlap, acmpQueue, streams, direct, errors, past,
                   keyPc, ops>>

InFlight(g) ==
    /\ machine[g] # <<>> /\ machine[g][2] = "WAIT"
    /\ \A i \in DOMAIN acmpQueue : acmpQueue[i].mgr # g

Conclude(g, ok) ==
    /\ InFlight(g)
    /\ ok \/ errors < MaxErrors
    /\ errors' = IF ok THEN errors ELSE errors + 1
    /\ LET t == Head(conf.reqQueues[g][machine[g][1]]).term
       IN streams' = IF ~ok THEN streams
                     ELSE IF g = "CONNECTOR" THEN streams \cup {t}
                     ELSE streams \ {t}
    /\ acmpQueue' = Append(acmpQueue, [mgr |-> g, ok |-> ok])
    /\ UNCHANGED <<conf, machine, direct, past, overlap, keyPc, ops>>

(* A machine that waits takes any event of its kind. *)
TakeEvent ==
    /\ acmpQueue # <<>>
    /\ acmpQueue' = Tail(acmpQueue)
    /\ LET e == Head(acmpQueue)
           m == machine[e.mgr]
       IN IF \A p \in Priors : m # <<p, "WAIT">>
          THEN UNCHANGED <<conf, overlap, machine>>
          ELSE IF e.ok THEN EndRequest(e.mgr, m[1], TRUE)
          ELSE /\ machine' = [machine EXCEPT ![e.mgr] = <<m[1], "FAILED">>]
               /\ UNCHANGED <<conf, overlap>>
    /\ UNCHANGED <<streams, direct, errors, past, keyPc, ops>>

-----------------------------------------------------------------------------
(* The chairman, the menu and the upper computer *)

Command(s) ==
    /\ Operation
    /\ Becomes(s)
    /\ UNCHANGED <<others, keyPc>>

(* Without a request; these need no bound. *)
Examine(s) ==
    /\ Becomes(s)
    /\ UNCHANGED <<others, keyPc, ops>>

Examined == conf.edis_mode \in {"APPLY", "LIMIT"}

RefuseApply ==
    LET t == CurrentApplicant(conf)
        refused == SetMic(DeleteApplicant(conf, t), t, "CLOSE")
    IN /\ Examined
       /\ Places(conf.apply_addr_list, conf.apply_num, t) # {}
       /\ Examine(NextAfterTime(refused, MaxApply))

NextApply ==
    LET waits == SetMic(conf, CurrentApplicant(conf), "OTHER_APPLY")
        next == Wrapped([waits EXCEPT !.currect_first_index = @ + 1])
    IN /\ Examined
       /\ conf.apply_num > 1 /\ CurrentApplicant(conf) # NoAddr
       /\ Examine(SetMicAfterTime(next, CurrentApplicant(next), "FIRST_APPLY"))

(* The applicant stays listed until the callback. *)
ApproveApply ==
    /\ Examined
    /\ conf.currect_first_index < conf.apply_num
    /\ Command(FirstSpkRequest(conf, CurrentApplicant(conf), 2,
                               {"COMMON_SPK", "APPLY_CB"}))

(* The index is not changed.  (Without a current applicant the code reads  *)
(* through a null pointer.)                                                *)
SelectApply(t) ==
    LET waits == SetMic(conf, CurrentApplicant(conf), "OTHER_APPLY") IN
    /\ CurrentApplicant(conf) \notin {t, NoAddr}
    /\ Examine(IF Places(conf.apply_addr_list, conf.apply_num, t) # {}
               THEN SetMic(waits, t, "FIRST_APPLY") ELSE waits)

(* terminal_system_discuss_mode_set: the list of applicants is emptied,    *)
(* those connected are asked to close.  The microphones that apply are     *)
(* sent a command, their states stay.  (The terminals are listed in any    *)
(* order.)                                                                 *)
ModeSet(s, m, asked) ==
    LET requests(p) == [i \in DOMAIN asked[p + 1] |->
                           Request(asked[p + 1][i], {"COMMON_SPK"})]
    IN [s EXCEPT !.edis_mode = m, !.currect_first_index = MaxApply, !.apply_num = 0,
                 !.reqQueues["DISCONNECTOR"] = [p \in Priors |-> @[p] \o requests(p)]]

SetDiscussMode(m) ==
    LET connected(p) == {t \in streams : PriorOf[t] = p} IN
    \E chairmen \in SetToSeqs(connected(0)), vips \in SetToSeqs(connected(1)),
       commons \in SetToSeqs(connected(2)) :
          Command(ModeSet(conf, m, <<chairmen, vips, commons>>))

(* terminal_speak_limit_num_set: the loop compares the limits it does not  *)
(* change, so it ends when no applicant is left.  Those not connected are  *)
(* asked from the current one on and then from the first one, as long as   *)
(* the queue has room.                                                     *)
AskApplicants(s, order) ==
    [s EXCEPT !.apply_addr_list = [i \in ApplySlots |->
                                      IF i < s.apply_num THEN NoAddr ELSE @[i]],
              !.apply_num = 0, !.currect_first_index = 0,
              !.fSpkQueue[2] = @ \o [j \in DOMAIN order |->
                  Request(s.apply_addr_list[order[j]], {"COMMON_SPK"})]]

InTurn(order, asked, first, num, room) ==
    LET ahead(i) == (i - first + num) % num
    IN /\ \A j, k \in DOMAIN order : j < k => ahead(order[j]) < ahead(order[k])
       /\ \A i \in asked \ Range(order) :
             /\ Len(order) = room
             /\ \A j \in DOMAIN order : ahead(order[j]) < ahead(i)

SetSpeakLimit(n) ==
    LET num == conf.apply_num
        first == IF conf.currect_first_index < num
                 THEN conf.currect_first_index ELSE 0
        asked == {i \in 0 .. (num - 1) : conf.apply_addr_list[i] \notin streams}
        room == FsQueueSize[2] - 1 - Len(conf.fSpkQueue[2])
        opens == n > conf.limit_num /\ conf.edis_mode = "LIMIT" /\ num > 0
    IN /\ n # conf.limit_num
       /\ \/ /\ opens
             /\ \E order \in SeqOf(asked, Min({room, num})) :
                   /\ InTurn(order, asked, first, num, room)
                   /\ Command([AskApplicants(conf, order) EXCEPT !.limit_num = n])
          \/ /\ ~opens
             /\ Command([conf EXCEPT !.limit_num = n])

ClosePast(ts, s) ==
    /\ Operation
    /\ Becomes(s)
    /\ direct' = direct \cup (ts \cap streams)
    /\ past' = TRUE
    /\ UNCHANGED <<machine, acmpQueue, streams, errors, keyPc>>

NotClosed(ts) == {t \in ts : conf.mic_state[t] # "CLOSE"}

(* The chairman closes all: the streams are closed past the manager. *)
CloseAllMic ==
    ClosePast(NotClosed(Common),
        [conf EXCEPT !.mic_state = [t \in Terminals |->
                                       IF t \in Common THEN "CLOSE" ELSE @[t]],
                     !.speak_limit_num = 0, !.apply_num = 0,
                     !.currect_first_index = ApplyLimit])

(* terminal_start_discuss(false) keeps the states. *)
StartDiscuss ==
    /\ NotClosed(Terminals) # {}
    /\ ClosePast(NotClosed(Terminals), conf)

ConcludeDirect(t, ok) ==
    /\ t \in direct
    /\ ok \/ errors < MaxErrors
    /\ direct' = direct \ {t}
    /\ streams' = IF ok THEN streams \ {t} ELSE streams
    /\ errors' = IF ok THEN errors ELSE errors + 1
    /\ acmpQueue' = Append(acmpQueue, [mgr |-> "DISCONNECTOR", ok |-> ok])
    /\ UNCHANGED <<conf, machine, past, overlap, keyPc, ops>>

(* terminal_after_time_mic_state_pro *)
MicSetAfter ==
    /\ conf.micSetPro
    /\ Becomes([conf EXCEPT !.micSetPro = FALSE])
    /\ UNCHANGED <<others, keyPc, ops>>

Next ==
    \/ \E t \in Terminals, down \in BOOLEAN :
          KeyOfBusy(t, down) \/ KeyOfIdle(t, down)
    \/ KeySpeak
    \/ \E p \in Priors : ServeFirstSpeak(p)
    \/ \E g \in Managers, p \in Priors : EndUnsent(g, p) \/ SendCommand(g, p)
    \/ \E g \in Managers, ok \in BOOLEAN : Conclude(g, ok)
    \/ TakeEvent
    \/ RefuseApply \/ NextApply \/ ApproveApply
    \/ \E t \in Terminals : SelectApply(t)
    \/ \E m \in Modes : SetDiscussMode(m)
    \/ \E n \in Limits : SetSpeakLimit(n)
    \/ CloseAllMic \/ StartDiscuss
    \/ \E t \in Terminals, ok \in BOOLEAN : ConcludeDirect(t, ok)
    \/ MicSetAfter

Spec == Init /\ [][Next]_vars

-----------------------------------------------------------------------------
Pending(t) == HasTask(conf, t) \/ \E i \in DOMAIN keyPc : keyPc[i].term = t

(* What a microphone shows and what is heard agree: when nothing is under  *)
(* way for a terminal, it has a stream exactly if its state is open.       *)
(* (Streams closed past the manager have no callback and are left out, and *)
(* so are terminals opened twice at once and speakers still listed as      *)
(* applicants: they applied twice, or gave up while being opened.)         *)
MicAgrees ==
    ~past => \A t \in Terminals \ overlap :
        Pending(t) \/ (conf.mic_state[t] = "OPEN" <=> t \in streams)

(* The last place of the list of speakers is taken, so the number of them  *)
(* has wrapped to zero: no deletion reaches that place.                    *)
WasFull(s) == s.speak_addr_list[MaxSpk - 1] # NoAddr

(* The list the limit is checked against holds each common terminal that   *)
(* has a stream once and no other, in every mode, when nothing is under    *)
(* way for it and it was never asked to open while it spoke or was opened. *)
(* (Once as many common terminals spoke as the list has places, its count  *)
(* is zero: those who speak are not found in it any more.)                 *)
SpeakersListed ==
    ~past /\ ~WasFull(conf) => \A t \in Common \ overlap :
        \/ Pending(t)
        \/ Cardinality(Places(conf.speak_addr_list, conf.speak_limit_num, t))
             = IF t \in streams THEN 1 ELSE 0

(* In the limited mode the index of the applicant who speaks next always   *)
(* points into the list of applicants.                                     *)
CurrentInList ==
    conf.edis_mode = "LIMIT" /\ conf.apply_num > 0 =>
        conf.currect_first_index < conf.apply_num

(* The list of speakers and the list of applicants may be relied on. *)
ListsAgree == SpeakersListed /\ CurrentInList

(* Who leaves the applicants in the limited mode is about to speak, speaks *)
(* or has a closed microphone: no one is forgotten while the queue of      *)
(* first speakers has room.  (A higher limit asks for all applicants and   *)
(* forgets those there is no room for.  Setting the mode empties the list; *)
(* it is told from the other steps by its index.)                          *)
NoApplicantForgotten ==
    [][(/\ conf.edis_mode = "LIMIT" /\ conf'.edis_mode = "LIMIT"
        /\ conf'.currect_first_index # MaxApply) =>
          \A t \in Applicants(conf) \ Applicants(conf') :
              \/ Queued(conf'.fSpkQueue[2], t) # {}
              \/ conf'.mic_state[t] = "CLOSE" \/ t \in streams
              \/ ~FsRoom(conf', 2)]_vars
=============================================================================
