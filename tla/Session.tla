------------------------------- MODULE Session -------------------------------
(***************************************************************************)
(* The session: registration, sign-in and vote (terminal_pro.c) over the   *)
(* state of the system (terminal_system.c).                                *)
(*                                                                         *)
(* Three threads of the host work on the same state without a lock.  The   *)
(* receive thread queries terminals to register them, and, once it is done *)
(* with that, polls them for the results of the sign-in or the vote, one   *)
(* at a time.  The epoll thread takes their answers and opens the gate for *)
(* the next query; so does the timeout of a query.  The work thread and    *)
(* the operators begin and end sign-ins and votes, let the chairman        *)
(* interpose and set camera presets.  Steps that read the state and write  *)
(* it later are two actions where another thread can come between:         *)
(* registering a terminal, ending a round, the chairman's key.             *)
(* Terminals are the environment: they go off line and come back, press    *)
(* any key, and their answers are late or never come.                      *)
(***************************************************************************)
EXTENDS SequencesExt, Integers

CONSTANTS
    Terminals,
    NoTerminal,
    Order,        \* the terminals in the order of the address table
    Keys,         \* the keys a vote is given with
    NoKey,
    MaxOwed,      \* bound on the queries to register each has yet to answer
    MaxEvents     \* bound on the operators' commands, the chairman's keys, the
                  \* cards put in and the terminals that go off line

ASSUME SessionAssumption ==
    /\ NoTerminal \notin Terminals /\ NoKey \notin Keys
    /\ Order \in Seq(Terminals) /\ ToSet(Order) = Terminals /\ IsInjective(Order)
    /\ Len(Order) > 0
    /\ MaxOwed \in [Terminals -> Nat \ {0}] /\ MaxEvents \in Nat

VARIABLES
    sys, pre,     \* gsystem_state, gsystem_state_pre
    interposing,  \* gchm_int_ctl.is_int
    keyRead,      \* a chairman's key has passed the test of the state
    signState,    \* gtmnl_signstate
    voteFlag,     \* gvote_flag
    firstKey,     \* gfirst_key_flag
    running,      \* gquery_svote_pro.running ...
    pollIndex,    \* ... .index ...
    gate,         \* ... and .endQr: the next terminal may be asked
    pollPc,       \* the receive thread found no one to ask
    regState,     \* gregister_tmnl_pro.rgs_state
    regGate,      \* gvregister_recved
    regTimer,     \* SIG_TMNL_REGISTER has elapsed
    regIndex,     \* l_norgstIndex and l_queryIndex
    rgsted,       \* gregister_tmnl_pro.tmn_rgsted
    registering,  \* the terminal the epoll thread is registering
    nested,       \* what it read of the state
    rgst,         \* tmnl_status.is_rgst
    signed,       \* tmnl_status.sign_state
    vote,         \* tmnl_status.vote_state
    online,       \* the terminals that are there
    regAsked,     \* queries to register each has yet to answer
    asked,        \* polls in flight
    answering,    \* the terminals with an answer to a poll on its way
    called,       \* ghost: those registered when the last vote began
    events        \* history: bound

sysVars == <<sys, pre, interposing, keyRead>>
modeVars == <<signState, voteFlag, firstKey, called>>
pollVars == <<running, pollIndex, gate, pollPc>>
regVars == <<regState, regGate, regTimer, regIndex, rgsted>>
epollVars == <<registering, nested>>
nodeVars == <<rgst, signed, vote>>
netVars == <<online, regAsked, asked, answering>>
vars == <<sysVars, modeVars, pollVars, regVars, epollVars, nodeVars, netVars,
          events>>

SysStates == {"register", "camera", "sign", "discuss", "vote", "interpose"}
Nested == {"camera", "interpose"}
Slots == 1 .. Len(Order)
NoVote == [set |-> FALSE, wait |-> FALSE, en |-> FALSE, key |-> NoKey]
Answers == {"none", "signed"} \cup Keys

TypeOK ==
    /\ sys \in SysStates /\ pre \in SysStates \cup {"none"}
    /\ sys \in Nested => pre # "none"
    /\ interposing \in BOOLEAN /\ keyRead \in BOOLEAN
    /\ signState \in {"over", "onTime", "late"}
    /\ voteFlag \in {"no", "set", "over"} /\ firstKey \in BOOLEAN
    /\ running \in BOOLEAN /\ gate \in BOOLEAN /\ pollIndex \in Slots
    /\ pollPc \in {"idle", "stop"}
    /\ regState \in {"wait", "query", "idle"}
    /\ regGate \in BOOLEAN /\ regTimer \in BOOLEAN /\ regIndex \in Slots
    /\ rgsted \in 0 .. (Len(Order) + MaxEvents)
    /\ registering \in Terminals \cup {NoTerminal} /\ nested \in BOOLEAN
    /\ rgst \in [Terminals -> BOOLEAN]
    /\ signed \in [Terminals -> {"no", "onTime", "late"}]
    /\ vote \in [Terminals -> [set : BOOLEAN, wait : BOOLEAN, en : BOOLEAN,
                               key : Keys \cup {NoKey}]]
    /\ online \in [Terminals -> BOOLEAN]
    /\ DOMAIN regAsked = Terminals
    /\ \A t \in Terminals : regAsked[t] \in 0 .. MaxOwed[t]
    /\ asked \subseteq Terminals
    /\ answering \subseteq Terminals
    /\ called \subseteq Terminals
    /\ events \in 0 .. MaxEvents

Init ==
    /\ sys = "register" /\ pre = "none"
    /\ interposing = FALSE /\ keyRead = FALSE
    /\ signState = "over" /\ voteFlag = "no" /\ firstKey = FALSE
    /\ running = FALSE /\ pollIndex = 1 /\ gate = TRUE /\ pollPc = "idle"
    /\ regState = "wait" /\ regGate = TRUE /\ regTimer = FALSE /\ regIndex = 1
    /\ rgsted = 0 /\ registering = NoTerminal /\ nested = FALSE
    /\ rgst = [t \in Terminals |-> FALSE]
    /\ signed = [t \in Terminals |-> "no"]
    /\ vote = [t \in Terminals |-> NoVote]
    /\ online \in [Terminals -> BOOLEAN]
    /\ regAsked = [t \in Terminals |-> 0] /\ asked = {}
    /\ answering = {} /\ called = {}
    /\ events = 0

-----------------------------------------------------------------------------
(* set_terminal_system_state. *)

(* A state that waits for the camera or the chairman to be done, or not:   *)
(* wasNested is what was read before.                                      *)
SetSysAs(s, wasNested) ==
    IF wasNested THEN pre' = s /\ UNCHANGED sys
                 ELSE pre' = sys /\ sys' = s

(* Mutation: the camera and the chairman are not looked at. *)
SetSysPlain(s) == SetSysAs(s, FALSE)

SetSys(s) == SetSysAs(s, sys \in Nested)

(* Back to the state before. *)
ReturnFrom(s) ==
    /\ sys' = IF sys = s THEN pre ELSE sys
    /\ UNCHANGED pre

-----------------------------------------------------------------------------
(* The receive thread: system_register_terminal_pro. *)

ReceiverFree == pollPc = "idle"

(* The first slot from index on, going round, whose terminal is in S.      *)
FirstFrom(index, S) ==
    LET Ahead(s) == (s - index) % Len(Order)
        Found == {s \in Slots : Order[s] \in S}
    IN CHOOSE s \in Found : \A r \in Found : Ahead(s) <= Ahead(r)

NextSlot(s) == (s % Len(Order)) + 1

RegisterStart ==
    /\ ReceiverFree /\ regState = "wait" /\ regState' = "query"
    /\ UNCHANGED <<sysVars, modeVars, pollVars, regGate, regTimer, regIndex,
                   rgsted, epollVars, nodeVars, netVars, events>>

(* A terminal to be asked: not registered, or, after the start, gone since. *)
Missing == {t \in Terminals :
               ~rgst[t] \/ (regState = "idle" /\ ~online[t])}

(* Mutation: only an answer opens the gate. *)
GateOpenAnswered == regGate

(* One query at a time: when the last one is answered or took too long.    *)
GateOpen == regGate \/ regTimer

RegisterQuery ==
    /\ ReceiverFree /\ regState \in {"query", "idle"}
    /\ GateOpen /\ Missing # {}
    /\ LET s == FirstFrom(regIndex, Missing)
           t == Order[s]
       IN /\ regIndex' = NextSlot(s)
          /\ regAsked' = [regAsked EXCEPT ![t] =
                              IF @ < MaxOwed[t] THEN @ + 1 ELSE @]
          /\ rgst' = [rgst EXCEPT ![t] = FALSE]
    /\ regGate' = FALSE /\ regTimer' = FALSE
    /\ UNCHANGED <<sysVars, modeVars, pollVars, regState, rgsted, epollVars,
                   signed, vote, online, asked, answering, events>>

(* With the gate shut a pass only notes who has gone. *)
RegisterNote ==
    /\ ReceiverFree /\ regState = "idle" /\ ~GateOpen
    /\ rgst' = [t \in Terminals |-> rgst[t] /\ online[t]]
    /\ UNCHANGED <<sysVars, modeVars, pollVars, regVars, epollVars, signed,
                   vote, netVars, events>>

(* The start is over when a pass asks no one and the count says that all   *)
(* are there, or after 15 seconds.                                         *)
AllCounted == (Missing = {} \/ ~GateOpen) /\ Len(Order) <= rgsted

RegisterDone(early) ==
    /\ ReceiverFree /\ regState = "query"
    /\ early => AllCounted
    /\ regState' = "idle" /\ regIndex' = 1
    /\ SetSys("discuss")
    /\ UNCHANGED <<interposing, keyRead, modeVars, pollVars, regGate, regTimer,
                   rgsted, epollVars, nodeVars, netVars, events>>

RegisterTimer ==
    /\ ~regTimer /\ ~regGate /\ regTimer' = TRUE
    /\ UNCHANGED <<sysVars, modeVars, pollVars, regState, regGate, regIndex,
                   rgsted, epollVars, nodeVars, netVars, events>>

-----------------------------------------------------------------------------
(* The receive thread, once terminals are registered. *)

Idle == ReceiverFree /\ regState = "idle"

(* terminal_sign_in_pro: the time to sign in late is over.                 *)
SignLateOver ==
    /\ Idle /\ signState = "late" /\ signState' = "over"
    /\ UNCHANGED <<sysVars, voteFlag, firstKey, called, pollVars, regVars, epollVars,
                   nodeVars, netVars, events>>

(* terminal_vote_proccess: those who had not signed in when the vote began *)
(* and have been enabled since are polled too.                             *)
Enabled == {t \in Terminals : rgst[t] /\ vote[t].set /\ vote[t].en}

ToBePolled(v) == [set |-> FALSE, wait |-> TRUE, en |-> v.en, key |-> v.key]

VoteProcess ==
    /\ Idle /\ voteFlag = "set"
    /\ \/ \E t \in Enabled :
             /\ vote' = [vote EXCEPT ![t] = ToBePolled(@)]
             /\ UNCHANGED voteFlag
       \/ /\ \A t \in Terminals : ~(rgst[t] /\ vote[t].set)
          /\ voteFlag' = "over"
          /\ UNCHANGED vote
    /\ UNCHANGED <<sysVars, signState, firstKey, called, pollVars, regVars,
                   epollVars, rgst, signed, netVars, events>>

(* terminal_query_sign_vote_pro. *)
ToPoll ==
    {t \in Terminals : rgst[t] /\ \/ sys = "sign" /\ signed[t] = "no"
                                  \/ sys = "vote" /\ vote[t].wait}

Poll ==
    /\ Idle /\ running /\ gate /\ sys \in {"sign", "vote"}
    /\ IF ToPoll # {}
       THEN LET s == FirstFrom(pollIndex, ToPoll)
            IN /\ pollIndex' = NextSlot(s)
               /\ asked' = asked \cup {Order[s]}
               /\ gate' = FALSE
               /\ UNCHANGED pollPc
       ELSE /\ pollPc' = "stop"
            /\ UNCHANGED <<pollIndex, asked, gate>>
    /\ UNCHANGED <<sysVars, modeVars, running, regVars, epollVars, nodeVars,
                   online, regAsked, answering, events>>

PollStop ==
    /\ pollPc = "stop" /\ pollPc' = "idle"
    /\ running' = FALSE
    /\ UNCHANGED <<sysVars, modeVars, pollIndex, gate, regVars, epollVars,
                   nodeVars, netVars, events>>

-----------------------------------------------------------------------------
(* The epoll thread: answers and timeouts. *)

EpollFree == registering = NoTerminal

(* Mutation: an answer of a registered terminal is counted too. *)
RegisterAnswerAgain(t) ==
    /\ EpollFree /\ regAsked[t] > 0 /\ online[t]
    /\ regAsked' = [regAsked EXCEPT ![t] = @ - 1]
    /\ rgst' = [rgst EXCEPT ![t] = TRUE]
    /\ registering' = t /\ nested' = (sys \in Nested)
    /\ UNCHANGED <<sysVars, modeVars, pollVars, regState, regGate, regTimer, regIndex,
                   rgsted, signed, vote, online, asked, answering, events>>

(* terminal_register: the terminal is registered, then the state of the    *)
(* system is set.  One that was asked more than once answers more than     *)
(* once, and counts only if it is not registered.                          *)
RegisterAnswer(t) ==
    /\ EpollFree /\ regAsked[t] > 0 /\ online[t]
    /\ regAsked' = [regAsked EXCEPT ![t] = @ - 1]
    /\ IF rgst[t]
       THEN /\ regGate' = TRUE
            /\ UNCHANGED <<rgst, registering, nested>>
       ELSE /\ rgst' = [rgst EXCEPT ![t] = TRUE]
            /\ registering' = t /\ nested' = (sys \in Nested)
            /\ UNCHANGED regGate
    /\ UNCHANGED <<sysVars, modeVars, pollVars, regState, regTimer, regIndex,
                   rgsted, signed, vote, online, asked, answering, events>>

RegisterSet ==
    /\ ~EpollFree
    /\ SetSysAs("discuss", nested)
    /\ rgsted' = rgsted + 1
    /\ regGate' = TRUE
    /\ registering' = NoTerminal /\ nested' = FALSE
    /\ UNCHANGED <<interposing, keyRead, modeVars, pollVars, regState, regTimer,
                   regIndex, nodeVars, netVars, events>>

(* What an answer to a poll changes of sign_state and vote_state.          *)
SignedNow(t) ==
    IF signState = "onTime" THEN "onTime"
    ELSE IF signState = "late" /\ signed[t] = "no" THEN "late" ELSE signed[t]

VoteNow(v, key) ==
    [set |-> v.set, wait |-> v.wait /\ ~(firstKey /\ v.key # NoKey),
     en |-> v.en, key |-> key]

(* terminal_query_vote_ask.  An answer counts for whatever is under way.   *)
PollAnswer(t, answer) ==
    /\ EpollFree /\ t \in answering
    /\ answering' = answering \ {t}
    /\ asked' = asked \ {t}
    /\ gate' = TRUE
    /\ signed' = IF sys = "sign" /\ answer = "signed"
                 THEN [signed EXCEPT ![t] = SignedNow(t)] ELSE signed
    /\ vote' = IF sys = "vote" /\ answer \in Keys
               THEN [vote EXCEPT ![t] = VoteNow(@, answer)] ELSE vote
    /\ UNCHANGED <<sysVars, modeVars, running, pollIndex, pollPc, regVars,
                   epollVars, rgst, online, regAsked, events>>

(* Mutation: a poll without an answer leaves the gate shut. *)
PollTimeoutShut(t) ==
    /\ EpollFree /\ t \in asked
    /\ asked' = asked \ {t}
    /\ UNCHANGED <<sysVars, modeVars, pollVars, regVars,
                   epollVars, nodeVars, online, regAsked, answering, events>>

(* A poll without an answer in time. *)
PollTimeout(t) ==
    /\ EpollFree /\ t \in asked
    /\ asked' = asked \ {t}
    /\ gate' = (gate \/ running)
    /\ UNCHANGED <<sysVars, modeVars, running, pollIndex, pollPc, regVars,
                   epollVars, nodeVars, online, regAsked, answering, events>>

-----------------------------------------------------------------------------
(* The work thread and the operators. *)

Event == events < MaxEvents /\ events' = events + 1

StartRound == running' = TRUE /\ pollIndex' = 1 /\ gate' = TRUE

(* terminal_start_sign_in and its two copies. *)
StartSign ==
    /\ Event
    /\ SetSys("sign") /\ signState' = "onTime"
    /\ signed' = [t \in Terminals |-> IF rgst[t] THEN "no" ELSE signed[t]]
    /\ StartRound
    /\ UNCHANGED <<interposing, keyRead, voteFlag, firstKey, called, pollPc, regVars,
                   epollVars, rgst, vote, netVars>>

(* terminal_end_sign. *)
EndSign ==
    /\ Event
    /\ SetSys("discuss") /\ signState' = "late"
    /\ running' = FALSE /\ gate' = TRUE
    /\ UNCHANGED <<interposing, keyRead, voteFlag, firstKey, called, pollIndex,
                   pollPc, regVars, epollVars, nodeVars, netVars>>

(* The vote state of a terminal that may vote, or has to sign in first. *)
VoteBegun(may) ==
    [set |-> ~may, wait |-> may, en |-> FALSE, key |-> NoKey]

(* Mutation: every registered terminal is polled. *)
BeginVoteAll(first) ==
    /\ Event
    /\ SetSys("vote") /\ voteFlag' = "set" /\ firstKey' = first
    /\ called' = {t \in Terminals : rgst[t]}
    /\ vote' = [t \in Terminals |-> IF rgst[t] THEN VoteBegun(TRUE) ELSE vote[t]]
    /\ StartRound
    /\ UNCHANGED <<interposing, keyRead, signState, pollPc, regVars, epollVars,
                   rgst, signed, netVars>>

(* terminal_begin_vote, and terminal_chman_control_begin_vote for ARCS and *)
(* for a chairman once there was a sign-in: registered terminals that have *)
(* signed in are polled, the others wait to be enabled.                    *)
BeginVote(first) ==
    /\ Event
    /\ SetSys("vote") /\ voteFlag' = "set" /\ firstKey' = first
    /\ called' = {t \in Terminals : rgst[t]}
    /\ vote' = [t \in Terminals |->
                   IF rgst[t] THEN VoteBegun(signed[t] # "no") ELSE vote[t]]
    /\ StartRound
    /\ UNCHANGED <<interposing, keyRead, signState, pollPc, regVars, epollVars,
                   rgst, signed, netVars>>

(* terminal_end_vote; all but the chairman return to the discussion.       *)
EndVote(chairman) ==
    /\ Event
    /\ voteFlag' = "no"
    /\ running' = FALSE /\ pollIndex' = 1 /\ gate' = TRUE
    /\ IF chairman THEN UNCHANGED <<sys, pre>> ELSE SetSys("discuss")
    /\ UNCHANGED <<interposing, keyRead, signState, firstKey, called, pollPc,
                   regVars, epollVars, nodeVars, netVars>>

ReturnDiscuss ==
    /\ Event
    /\ SetSys("discuss")
    /\ UNCHANGED <<interposing, keyRead, modeVars, pollVars, regVars, epollVars,
                   nodeVars, netVars>>

MayVote(v) == [set |-> v.set, wait |-> v.wait, en |-> TRUE, key |-> v.key]

(* terminal_sign_in_special_event: a card is put in.                       *)
CardSign(t) ==
    /\ Event /\ online[t]
    /\ signed' = [signed EXCEPT ![t] = SignedNow(t)]
    /\ vote' = [vote EXCEPT ![t] = MayVote(@)]
    /\ UNCHANGED <<sysVars, modeVars, pollVars, regVars, epollVars, rgst,
                   netVars>>

(* terminal_func_key_action passes a chairman's key on.                    *)
ReadKey ==
    /\ Event
    /\ ~keyRead /\ keyRead' = TRUE
    /\ sys \in {"sign", "vote", "discuss", "interpose"}
    /\ UNCHANGED <<sys, pre, interposing, modeVars, pollVars, regVars, epollVars,
                   nodeVars, netVars>>

(* terminal_key_action_chman_interpose: the key is down or up.             *)
Interpose ==
    /\ keyRead /\ keyRead' = FALSE
    /\ IF interposing
       THEN interposing' = FALSE /\ ReturnFrom("interpose")
       ELSE IF sys # "interpose"
            THEN interposing' = TRUE /\ SetSys("interpose")
            ELSE UNCHANGED <<interposing, sys, pre>>
    /\ UNCHANGED <<modeVars, pollVars, regVars, epollVars, nodeVars, netVars,
                   events>>

(* camera_pro_enter_preset, from a menu or the upper computer.             *)
EnterPreset ==
    /\ Event
    /\ IF sys = "discuss" THEN pre' = sys /\ sys' = "camera"
                          ELSE UNCHANGED <<sys, pre>>
    /\ UNCHANGED <<interposing, keyRead, modeVars, pollVars, regVars, epollVars,
                   nodeVars, netVars>>

(* camera_pro_esc_preset. *)
EscPreset ==
    /\ Event
    /\ ReturnFrom("camera")
    /\ UNCHANGED <<interposing, keyRead, modeVars, pollVars, regVars, epollVars,
                   nodeVars, netVars>>

-----------------------------------------------------------------------------
(* The terminals and the network. *)

(* A terminal that is asked answers; what it says is chosen when its       *)
(* answer arrives.                                                         *)
TerminalAnswers(t) ==
    /\ t \in asked /\ online[t] /\ t \notin answering
    /\ answering' = answering \cup {t}
    /\ UNCHANGED <<sysVars, modeVars, pollVars, regVars, epollVars, nodeVars,
                   online, regAsked, asked, events>>

Leave(t) ==
    /\ Event
    /\ online[t] /\ online' = [online EXCEPT ![t] = FALSE]
    /\ UNCHANGED <<sysVars, modeVars, pollVars, regVars, epollVars, nodeVars,
                   regAsked, asked, answering>>

Return(t) ==
    /\ ~online[t] /\ online' = [online EXCEPT ![t] = TRUE]
    /\ UNCHANGED <<sysVars, modeVars, pollVars, regVars, epollVars, nodeVars,
                   regAsked, asked, answering, events>>

Registration == RegisterStart \/ RegisterNote \/ RegisterDone(TRUE)
                \/ RegisterDone(FALSE)

Next ==
    \/ Registration \/ RegisterQuery \/ RegisterTimer
    \/ SignLateOver \/ VoteProcess \/ Poll \/ PollStop
    \/ RegisterSet
    \/ StartSign \/ EndSign \/ \E first \in BOOLEAN : BeginVote(first)
    \/ \E chairman \in BOOLEAN : EndVote(chairman)
    \/ ReturnDiscuss \/ ReadKey \/ Interpose \/ EnterPreset \/ EscPreset
    \/ \E t \in Terminals :
          \/ RegisterAnswer(t) \/ PollTimeout(t) \/ CardSign(t)
          \/ TerminalAnswers(t) \/ \E a \in Answers : PollAnswer(t, a)
          \/ Leave(t) \/ Return(t)

(* The receive thread loops, the epoll thread sets the state after what it *)
(* takes, and a query to register a terminal that is there is answered in  *)
(* the end.  Nothing is asked of polls, operators or terminals that leave. *)
Fairness ==
    /\ WF_vars(Registration) /\ WF_vars(RegisterQuery) /\ WF_vars(RegisterTimer)
    /\ WF_vars(PollStop) /\ WF_vars(RegisterSet)
    /\ WF_vars(\E t \in Terminals : RegisterAnswer(t))

Spec == Init /\ [][Next]_vars /\ Fairness

-----------------------------------------------------------------------------
(* Properties. *)

(* What the chairman interrupts, or a camera preset, goes on afterwards.   *)
Phase == IF sys \in Nested THEN pre ELSE sys

(* Of those registered when it began a vote asks only those who have       *)
(* signed in or were enabled since (terminal_begin_vote,                   *)
(* terminal_vote_proccess), whatever interrupts it, and whatever           *)
(* registrations and late answers come in between.                         *)
VotersAdmitted ==
    Phase = "vote" => \A t \in called :
        vote[t].wait => signed[t] # "no" \/ vote[t].en

(* The count of the registered, tmn_rgsted, which nothing ever lowers, is  *)
(* behind the terminals registered by the one under way; once the start is *)
(* over it is ahead of those that are there by no more than the terminals  *)
(* that left.                                                              *)
Registered == {t \in Terminals : rgst[t]}
Present == {t \in Terminals : rgst[t] /\ online[t]}
Underway == IF EpollFree THEN 0 ELSE 1
CountKept ==
    /\ rgsted + Underway <= Cardinality(Present) + events
    /\ regState # "idle" => rgsted + Underway <= Cardinality(Registered)

(* The count, whose type has no other bound, and all the rest.             *)
CountInv == TypeOK /\ CountKept

(* The start of the host ends early only if every terminal is registered:  *)
(* the count that is tested (terminal_pro.c:837) is never ahead.           *)
EarlyEndMeansAll ==
    [][regState = "query" /\ regState' = "idle" /\ AllCounted
          => \A t \in Terminals : rgst[t]]_vars

(* What is interrupted goes on afterwards: begun or ended meanwhile, a     *)
(* sign-in or a vote is what the system returns to (terminal_system.c:34,  *)
(* 47).                                                                    *)
PhaseKept ==
    [][sys' # sys /\ {sys, sys'} \cap Nested # {} /\ EpollFree
          => Phase' = Phase]_vars

(* No round gets stuck: while the next terminal may not be asked there is  *)
(* a poll in flight that opens the gate, by its answer or by its timeout   *)
(* (nothing else does, the timer of terminal_pro.c:8500 being commented    *)
(* out), however rounds end and begin in between.                          *)
ShutGateIsOpened == running /\ ~gate => asked # {}

(* A terminal that is there is registered, or registered again: lost       *)
(* queries and answers close the gate for the other terminals for a time   *)
(* only.                                                                   *)
TerminalsRegister ==
    \A t \in Terminals : online[t] ~> (rgst[t] \/ ~online[t])
=============================================================================
