---------------------------- MODULE Session_proofs ----------------------------
(* Proofs about the session, for any terminals in any order, any keys, and *)
(* for any number of unanswered queries and of events.                     *)
EXTENDS Session, FiniteSetTheorems, SequenceTheorems, TLAPS

(* Every set of naturals has a least element. *)
LEMMA LeastElement ==
  ASSUME NEW T, T \subseteq Nat, T # {}
  PROVE  \E x \in T : \A y \in T : x <= y
<1>1. PICK x \in T : \A y \in T : ~(<<y, x>> \in OpToRel(<, Nat))
  BY NatLessThanWellFounded, WFMin
<1>2. ASSUME NEW y \in T PROVE x <= y
  <2>1. x \in Nat /\ y \in Nat
    OBVIOUS
  <2>2. ~(y < x)
    BY <1>1, <2>1 DEF OpToRel
  <2> QED
    BY <2>1, <2>2
<1> QED
  BY <1>1, <1>2

(* The slots are as many as the terminals. *)
LEMMA SlotCount ==
  /\ Len(Order) \in Nat \ {0} /\ DOMAIN Order = Slots
  /\ \A s \in Slots : Order[s] \in Terminals
  /\ IsFiniteSet(Terminals) /\ Cardinality(Terminals) = Len(Order)
<1>1. /\ Order \in Seq(Terminals) /\ Len(Order) \in Nat \ {0} /\ DOMAIN Order = Slots
  BY SessionAssumption, LenProperties DEF SessionAssumption, Slots
<1>2. \A s \in Slots : Order[s] \in Terminals
  BY <1>1, ElementOfSeq DEF Slots
<1>3. Order \in Bijection(Slots, Terminals)
  <2>1. Order \in [Slots -> Terminals]
    BY <1>1, <1>2
  <2>2. \A a, b \in Slots : Order[a] = Order[b] => a = b
    BY <1>1, SessionAssumption DEF SessionAssumption, IsInjective
  <2>3. \A t \in Terminals : \E s \in Slots : Order[s] = t
    BY <1>1, SessionAssumption DEF SessionAssumption, ToSet
  <2> QED
    BY <2>1, <2>2, <2>3 DEF Bijection, Injection, Surjection, IsInjective
<1>4. ExistsBijection(1 .. Len(Order), Terminals)
  BY <1>3 DEF ExistsBijection, Slots
<1> QED
  BY <1>1, <1>2, <1>4, FS_NatBijection, FS_CountingElements

(* The search of the address table finds a terminal it looks for. *)
LEMMA FirstFromFinds ==
  ASSUME NEW index \in Slots, NEW S, S \subseteq Terminals, S # {}
  PROVE  FirstFrom(index, S) \in Slots /\ Order[FirstFrom(index, S)] \in S
<1> DEFINE Ahead(s) == (s - index) % Len(Order)
           Found == {s \in Slots : Order[s] \in S}
<1>1. Found # {}
  <2>1. PICK t \in S : t \in Terminals
    OBVIOUS
  <2>2. \E s \in DOMAIN Order : Order[s] = t
    BY <2>1, SessionAssumption DEF SessionAssumption, ToSet
  <2> QED
    BY <2>1, <2>2, SlotCount
<1>2. \A s \in Found : Ahead(s) \in Nat
  BY SlotCount DEF Slots
<1> HIDE DEF Ahead
<1>3. PICK n \in {Ahead(s) : s \in Found} : \A m \in {Ahead(s) : s \in Found} : n <= m
  <2>1. {Ahead(s) : s \in Found} \subseteq Nat /\ {Ahead(s) : s \in Found} # {}
    BY <1>1, <1>2
  <2> HIDE DEF Found
  <2> QED
    BY <2>1, LeastElement
<1>4. \E s \in Found : \A r \in Found : Ahead(s) <= Ahead(r)
  BY <1>3
<1>5. FirstFrom(index, S) = CHOOSE s \in Found : \A r \in Found : Ahead(s) <= Ahead(r)
  BY DEF FirstFrom, Ahead
<1> HIDE DEF Found
<1>6. FirstFrom(index, S) \in Found
  BY <1>4, <1>5
<1> QED
  BY <1>6 DEF Found

LEMMA NextSlotFinds ==
  ASSUME NEW s \in Slots
  PROVE  NextSlot(s) \in Slots
  BY SlotCount DEF NextSlot, Slots

-----------------------------------------------------------------------------
(* What a change of the system's state puts where. *)
SysTypes ==
    /\ sys \in SysStates /\ pre \in SysStates \cup {"none"}
    /\ sys \in Nested => pre # "none"

LEMMA SetSysTypes ==
  ASSUME SysTypes, NEW s \in SysStates \ Nested, NEW b \in BOOLEAN, SetSysAs(s, b)
  PROVE  SysTypes'
  BY DEF SysTypes, SetSysAs, SysStates, Nested

LEMMA SetSysIsSetSysAs ==
  ASSUME SysTypes, NEW s \in SysStates \ Nested, SetSys(s)
  PROVE  SysTypes'
<1>1. (sys \in Nested) \in BOOLEAN /\ SetSysAs(s, sys \in Nested)
  BY DEF SetSys
<1> QED
  BY <1>1, SetSysTypes

LEMMA OtherSysTypes ==
  ASSUME SysTypes, \/ SetSys("interpose") \/ ReturnFrom("interpose") \/ ReturnFrom("camera")
                   \/ EnterPreset
                   \/ UNCHANGED <<sys, pre>>
  PROVE  SysTypes'
  BY DEF SysTypes, SetSys, SetSysAs, SysStates, Nested, ReturnFrom, EnterPreset

-----------------------------------------------------------------------------
(* The count of the registered. *)
LEMMA Counts ==
  ASSUME NEW S, S \subseteq Terminals
  PROVE  IsFiniteSet(S) /\ Cardinality(S) \in Nat /\ Cardinality(S) <= Len(Order)
  BY SlotCount, FS_Subset, FS_CardinalityType

LEMMA CountStutter ==
  ASSUME TypeOK, CountKept, UNCHANGED <<rgst, online, rgsted, registering>>,
         events' \in Nat, events' >= events,
         regState' = regState \/ regState' = "idle" \/ regState # "idle"
  PROVE  CountKept'
<1>1. Present' = Present /\ Registered' = Registered /\ Underway' = Underway
  BY DEF Present, Registered, Underway, EpollFree
<1>2. Cardinality(Present) \in Nat /\ Underway \in Nat /\ rgsted \in Nat /\ events \in Nat
  BY Counts, SessionAssumption, SlotCount
     DEF Present, Underway, TypeOK, SessionAssumption
<1> QED
  BY <1>1, <1>2 DEF CountKept

LEMMA RegistrationCounts ==
  ASSUME TypeOK, CountKept,
         \/ RegisterQuery \/ RegisterNote \/ RegisterSet
         \/ \E t \in Terminals : RegisterAnswer(t) \/ Leave(t) \/ Return(t)
  PROVE  CountKept'
<1> DEFINE P == Cardinality(Present)
           R == Cardinality(Registered)
<1>0. P \in Nat /\ R \in Nat /\ IsFiniteSet(Present) /\ IsFiniteSet(Registered)
  BY Counts DEF Present, Registered
<1>1. rgsted \in Nat /\ events \in Nat /\ Underway \in {0, 1}
  BY SessionAssumption, SlotCount DEF TypeOK, SessionAssumption, Underway
<1>2. CASE RegisterQuery
  <2> DEFINE t == Order[FirstFrom(regIndex, Missing)]
  <2>1. t \in Missing
    BY <1>2, FirstFromFinds DEF RegisterQuery, TypeOK, Missing
  <2>2. /\ rgst' = [rgst EXCEPT ![t] = FALSE]
        /\ UNCHANGED <<online, rgsted, registering, regState, events>>
    BY <1>2 DEF RegisterQuery, epollVars
  <2> HIDE DEF t
  <2>3. Present' = Present /\ (regState # "idle" => Registered' = Registered)
    BY <2>1, <2>2 DEF Present, Registered, Missing, TypeOK
  <2>4. Underway' = Underway
    BY <2>2 DEF Underway, EpollFree
  <2> QED
    BY <2>2, <2>3, <2>4 DEF CountKept
<1>3. CASE RegisterNote
  <2>1. /\ rgst' = [t \in Terminals |-> rgst[t] /\ online[t]] /\ regState = "idle"
        /\ UNCHANGED <<online, rgsted, registering, regState, events>>
    BY <1>3 DEF RegisterNote, regVars, epollVars, netVars
  <2>2. Present' = Present /\ Underway' = Underway
    BY <2>1 DEF Present, Underway, EpollFree
  <2> QED
    BY <2>1, <2>2 DEF CountKept
<1>4. CASE RegisterSet
  <2>1. /\ registering # NoTerminal /\ registering' = NoTerminal /\ rgsted' = rgsted + 1
        /\ UNCHANGED <<rgst, online, regState, events>>
    BY <1>4 DEF RegisterSet, EpollFree, nodeVars, netVars
  <2>2. Present' = Present /\ Registered' = Registered /\ Underway = 1 /\ Underway' = 0
    BY <2>1 DEF Present, Registered, Underway, EpollFree
  <2> QED
    BY <1>1, <2>1, <2>2 DEF CountKept
<1>5. ASSUME NEW t \in Terminals, RegisterAnswer(t) PROVE CountKept'
  <2>1. UNCHANGED <<online, rgsted, regState, events>> /\ registering = NoTerminal /\ online[t]
    BY <1>5 DEF RegisterAnswer, EpollFree
  <2>2. CASE rgst[t]
    <3>1. UNCHANGED <<rgst, registering>>
      BY <1>5, <2>2 DEF RegisterAnswer
    <3> QED
      BY <1>1, <2>1, <3>1, CountStutter
  <2>3. CASE ~rgst[t]
    <3>1. rgst' = [rgst EXCEPT ![t] = TRUE] /\ registering' = t /\ t # NoTerminal
      BY <1>5, <2>3, SessionAssumption DEF RegisterAnswer, SessionAssumption
    <3>2. /\ Present' = Present \cup {t} /\ t \notin Present
          /\ Registered' = Registered \cup {t} /\ t \notin Registered
      BY <2>1, <2>3, <3>1 DEF Present, Registered, TypeOK
    <3>3. Cardinality(Present') = P + 1 /\ Cardinality(Registered') = R + 1
      BY <1>0, <3>2, FS_AddElement
    <3>4. Underway = 0 /\ Underway' = 1
      BY <2>1, <3>1 DEF Underway, EpollFree
    <3> QED
      BY <1>0, <1>1, <2>1, <3>3, <3>4 DEF CountKept
  <2> QED
    BY <2>2, <2>3
<1>6. ASSUME NEW t \in Terminals, Leave(t) \/ Return(t) PROVE CountKept'
  <2>1. UNCHANGED <<rgst, rgsted, registering, regState>>
    BY <1>6 DEF Leave, Return, nodeVars, regVars, epollVars
  <2>2. Registered' = Registered /\ Underway' = Underway
    BY <2>1 DEF Registered, Underway, EpollFree
  <2>3. Cardinality(Present') + events' >= P + events
    <3>1. CASE Leave(t)
      <4>1. Present' = Present \ {t} /\ events' = events + 1
        BY <2>1, <3>1 DEF Leave, Event, Present, TypeOK
      <4>2. Cardinality(Present \ {t}) \in {P, P - 1}
        BY <1>0, FS_RemoveElement
      <4>3. Cardinality(Present') \in {P, P - 1}
        BY <4>1, <4>2
      <4> HIDE DEF P
      <4> QED
        BY <1>0, <1>1, <4>1, <4>3
    <3>2. CASE Return(t)
      <4>1. (Present' = Present \/ Present' = Present \cup {t}) /\ events' = events
        BY <2>1, <3>2 DEF Return, Present, TypeOK
      <4>2. Cardinality(Present \cup {t}) \in {P, P + 1}
        BY <1>0, FS_AddElement
      <4>3. Cardinality(Present') \in {P, P + 1}
        BY <4>1, <4>2
      <4> HIDE DEF P
      <4> QED
        BY <1>0, <1>1, <4>1, <4>3
    <3> QED
      BY <1>6, <3>1, <3>2
  <2>4. Cardinality(Present') \in Nat /\ events' \in Nat
    BY <1>1, <1>6, Counts DEF Present, Leave, Return, Event
  <2> QED
    BY <1>0, <1>1, <2>1, <2>2, <2>3, <2>4 DEF CountKept
<1> QED
  BY <1>2, <1>3, <1>4, <1>5, <1>6

-----------------------------------------------------------------------------
(* Types. *)
VoteStates == [set : BOOLEAN, wait : BOOLEAN, en : BOOLEAN, key : Keys \cup {NoKey}]

ModeTypes ==
    /\ interposing \in BOOLEAN /\ keyRead \in BOOLEAN
    /\ signState \in {"over", "onTime", "late"}
    /\ voteFlag \in {"no", "set", "over"} /\ firstKey \in BOOLEAN
    /\ called \subseteq Terminals

PollTypes ==
    /\ running \in BOOLEAN /\ gate \in BOOLEAN /\ pollIndex \in Slots
    /\ pollPc \in {"idle", "stop"}

RegTypes ==
    /\ regState \in {"wait", "query", "idle"}
    /\ regGate \in BOOLEAN /\ regTimer \in BOOLEAN /\ regIndex \in Slots
    /\ registering \in Terminals \cup {NoTerminal} /\ nested \in BOOLEAN
    /\ rgsted \in Nat

NodeTypes ==
    /\ rgst \in [Terminals -> BOOLEAN]
    /\ signed \in [Terminals -> {"no", "onTime", "late"}]
    /\ vote \in [Terminals -> VoteStates]

NetTypes ==
    /\ online \in [Terminals -> BOOLEAN]
    /\ DOMAIN regAsked = Terminals
    /\ \A t \in Terminals : regAsked[t] \in 0 .. MaxOwed[t]
    /\ asked \subseteq Terminals /\ answering \subseteq Terminals
    /\ events \in 0 .. MaxEvents

Types == SysTypes /\ ModeTypes /\ PollTypes /\ RegTypes /\ NodeTypes /\ NetTypes

(* With the bound that the count gives, these are the types. *)
LEMMA TypesAreTypes ==
  /\ TypeOK => Types
  /\ Types /\ CountKept => TypeOK
<1>1. TypeOK => Types
  BY SlotCount, SessionAssumption
     DEF TypeOK, Types, SysTypes, ModeTypes, PollTypes, RegTypes, NodeTypes, VoteStates,
         NetTypes, SessionAssumption
<1>2. ASSUME Types, CountKept PROVE TypeOK
  <2>1. rgsted \in 0 .. (Len(Order) + MaxEvents)
    <3>1. Cardinality(Present) \in Nat /\ Cardinality(Present) <= Len(Order)
      BY Counts DEF Present
    <3>2. Underway \in {0, 1} /\ rgsted \in Nat /\ events \in Nat /\ events <= MaxEvents
          /\ MaxEvents \in Nat /\ rgsted + Underway <= Cardinality(Present) + events
      BY <1>2, SessionAssumption
         DEF Underway, Types, RegTypes, NetTypes, SessionAssumption, CountKept
    <3> QED
      BY <3>1, <3>2, SlotCount
  <2> QED
    BY <1>2, <2>1
       DEF TypeOK, Types, SysTypes, ModeTypes, PollTypes, RegTypes, NodeTypes, VoteStates,
           NetTypes
<1> QED
  BY <1>1, <1>2

LEMMA TypesStutter ==
  /\ SysTypes /\ UNCHANGED <<sys, pre>> => SysTypes'
  /\ ModeTypes /\ UNCHANGED <<interposing, keyRead, modeVars>> => ModeTypes'
  /\ PollTypes /\ UNCHANGED pollVars => PollTypes'
  /\ RegTypes /\ UNCHANGED <<regVars, epollVars>> => RegTypes'
  /\ NodeTypes /\ UNCHANGED nodeVars => NodeTypes'
  /\ NetTypes /\ UNCHANGED <<netVars, events>> => NetTypes'
  BY DEF SysTypes, ModeTypes, modeVars, PollTypes, pollVars, RegTypes, regVars, epollVars,
         NodeTypes, nodeVars, NetTypes, netVars

(* The receive thread registers and polls. *)
LEMMA ReceiverTypes ==
  ASSUME Types,
         \/ Registration \/ RegisterQuery \/ RegisterTimer
         \/ SignLateOver \/ VoteProcess \/ Poll \/ PollStop
  PROVE  Types'
<1> USE DEF Types, sysVars
<1>1. CASE RegisterStart \/ RegisterTimer
  <2>1. RegTypes'
    BY <1>1 DEF RegisterStart, RegisterTimer, epollVars, RegTypes
  <2> QED
    BY <1>1, <2>1, TypesStutter DEF RegisterStart, RegisterTimer
<1>2. CASE RegisterNote
  <2>1. NodeTypes'
    BY <1>2 DEF RegisterNote, NodeTypes, NetTypes
  <2> QED
    BY <1>2, <2>1, TypesStutter DEF RegisterNote
<1>3. ASSUME NEW early \in BOOLEAN, RegisterDone(early) PROVE Types'
  <2>1. SysTypes'
    BY <1>3, SetSysIsSetSysAs DEF RegisterDone, SysStates, Nested
  <2>2. RegTypes'
    BY <1>3, SlotCount DEF RegisterDone, RegTypes, epollVars, Slots
  <2> QED
    BY <1>3, <2>1, <2>2, TypesStutter DEF RegisterDone
<1>4. CASE RegisterQuery
  <2> DEFINE s == FirstFrom(regIndex, Missing)
  <2>1. s \in Slots /\ Order[s] \in Terminals /\ NextSlot(s) \in Slots
    BY <1>4, FirstFromFinds, SlotCount, NextSlotFinds DEF RegisterQuery, Missing, RegTypes
  <2>2. /\ regIndex' = NextSlot(s) /\ rgst' = [rgst EXCEPT ![Order[s]] = FALSE]
        /\ regAsked' = [regAsked EXCEPT ![Order[s]] =
                           IF @ < MaxOwed[Order[s]] THEN @ + 1 ELSE @]
        /\ regGate' = FALSE /\ regTimer' = FALSE
        /\ UNCHANGED <<regState, rgsted, epollVars, signed, vote, online, asked, answering,
                       events>>
    BY <1>4 DEF RegisterQuery
  <2> HIDE DEF s
  <2>3. RegTypes'
    BY <2>1, <2>2 DEF RegTypes, epollVars
  <2>5. NodeTypes'
    BY <2>1, <2>2 DEF NodeTypes
  <2>4. NetTypes'
    <3>1. \A t \in Terminals : MaxOwed[t] \in Nat
      BY SessionAssumption DEF SessionAssumption
    <3>2. DOMAIN regAsked' = Terminals
          /\ \A t \in Terminals : regAsked'[t] \in 0 .. MaxOwed[t]
      BY <2>1, <2>2, <3>1 DEF NetTypes
    <3> QED
      BY <2>2, <3>2 DEF NetTypes
  <2> QED
    BY <1>4, <2>3, <2>4, <2>5, TypesStutter DEF RegisterQuery
<1>5. CASE SignLateOver
  <2>1. ModeTypes'
    BY <1>5 DEF SignLateOver, ModeTypes
  <2> QED
    BY <1>5, <2>1, TypesStutter DEF SignLateOver
<1>6. CASE VoteProcess
  <2>1. ModeTypes'
    BY <1>6 DEF VoteProcess, ModeTypes
  <2>2. NodeTypes'
    <3>1. CASE UNCHANGED vote
      BY <1>6, <3>1 DEF VoteProcess, NodeTypes
    <3>2. ASSUME NEW t \in Terminals, vote' = [vote EXCEPT ![t] = ToBePolled(@)]
          PROVE  NodeTypes'
      <4>1. ToBePolled(vote[t]) \in VoteStates
        BY DEF NodeTypes, VoteStates, ToBePolled
      <4> QED
        BY <1>6, <3>2, <4>1 DEF VoteProcess, NodeTypes
    <3> QED
      BY <1>6, <3>1, <3>2 DEF VoteProcess, Enabled
  <2> QED
    BY <1>6, <2>1, <2>2, TypesStutter DEF VoteProcess
<1>7. CASE Poll
  <2>1. ToPoll \subseteq Terminals
    BY DEF ToPoll
  <2>2. PollTypes' /\ NetTypes'
    <3>1. CASE ToPoll = {}
      BY <1>7, <3>1 DEF Poll, PollTypes, NetTypes
    <3>2. CASE ToPoll # {}
      <4> DEFINE s == FirstFrom(pollIndex, ToPoll)
      <4>1. s \in Slots /\ Order[s] \in Terminals /\ NextSlot(s) \in Slots
        BY <2>1, <3>2, FirstFromFinds, SlotCount, NextSlotFinds DEF PollTypes
      <4>2. /\ pollIndex' = NextSlot(s) /\ asked' = asked \cup {Order[s]} /\ gate' = FALSE
            /\ UNCHANGED <<pollPc, running, online, regAsked, answering, events>>
        BY <1>7, <3>2 DEF Poll
      <4> HIDE DEF s
      <4> QED
        BY <4>1, <4>2 DEF PollTypes, NetTypes
    <3> QED
      BY <3>1, <3>2
  <2> QED
    BY <1>7, <2>2, TypesStutter DEF Poll
<1>8. CASE PollStop
  <2>1. PollTypes'
    BY <1>8 DEF PollStop, PollTypes
  <2> QED
    BY <1>8, <2>1, TypesStutter DEF PollStop
<1> QED
  BY <1>1, <1>2, <1>3, <1>4, <1>5, <1>6, <1>7, <1>8 DEF Registration

(* The epoll thread takes answers and timeouts; terminals come and go. *)
LEMMA EpollTypes ==
  ASSUME Types, NEW t \in Terminals,
         \/ RegisterAnswer(t) \/ PollTimeout(t) \/ TerminalAnswers(t)
         \/ (\E a \in Answers : PollAnswer(t, a))
         \/ Leave(t) \/ Return(t)
  PROVE  Types'
<1> USE DEF Types, sysVars
<1>1. CASE RegisterAnswer(t)
  <2>1. NetTypes'
    <3>1. regAsked' = [regAsked EXCEPT ![t] = @ - 1] /\ regAsked[t] > 0
          /\ UNCHANGED <<online, asked, answering, events>> /\ MaxOwed[t] \in Nat
      BY <1>1, SessionAssumption DEF RegisterAnswer, SessionAssumption
    <3> QED
      BY <3>1 DEF NetTypes
  <2>2. NodeTypes'
    BY <1>1 DEF RegisterAnswer, NodeTypes
  <2>3. RegTypes'
    <3>1. /\ regGate' \in BOOLEAN
          /\ UNCHANGED <<regState, regTimer, regIndex, rgsted>>
      BY <1>1 DEF RegisterAnswer, RegTypes
    <3>2. registering' \in Terminals \cup {NoTerminal}
      BY <1>1 DEF RegisterAnswer, RegTypes
    <3>3. CASE rgst[t]
      <4>1. nested' \in BOOLEAN
        BY <1>1, <3>3 DEF RegisterAnswer, RegTypes
      <4> QED
        BY <3>1, <3>2, <4>1 DEF RegTypes
    <3>4. CASE ~rgst[t]
      <4>1. nested' = (sys \in Nested)
        BY <1>1, <3>4 DEF RegisterAnswer
      <4>2. nested' \in BOOLEAN
        BY <4>1
      <4> QED
        BY <3>1, <3>2, <4>2 DEF RegTypes
    <3> QED
      BY <3>3, <3>4
  <2> QED
    BY <1>1, <2>1, <2>2, <2>3, TypesStutter DEF RegisterAnswer
<1>2. CASE PollTimeout(t)
  <2>1. PollTypes'
    BY <1>2 DEF PollTimeout, PollTypes
  <2>2. NetTypes'
    BY <1>2 DEF PollTimeout, NetTypes
  <2> QED
    BY <1>2, <2>1, <2>2, TypesStutter DEF PollTimeout
<1>3. CASE TerminalAnswers(t)
  <2>1. NetTypes'
    BY <1>3 DEF TerminalAnswers, NetTypes
  <2> QED
    BY <1>3, <2>1, TypesStutter DEF TerminalAnswers
<1>4. ASSUME NEW a \in Answers, PollAnswer(t, a) PROVE Types'
  <2>1. PollTypes'
    BY <1>4 DEF PollAnswer, PollTypes
  <2>2. NetTypes'
    BY <1>4 DEF PollAnswer, NetTypes
  <2>3. signed' \in [Terminals -> {"no", "onTime", "late"}]
    BY <1>4 DEF PollAnswer, NodeTypes, SignedNow
  <2>4. vote' \in [Terminals -> VoteStates]
    <3>1. a \in Keys => VoteNow(vote[t], a) \in VoteStates
      BY DEF NodeTypes, VoteStates, VoteNow
    <3> QED
      BY <1>4, <3>1 DEF PollAnswer, NodeTypes
  <2>5. NodeTypes'
    BY <1>4, <2>3, <2>4 DEF PollAnswer, NodeTypes
  <2> QED
    BY <1>4, <2>1, <2>2, <2>5, TypesStutter DEF PollAnswer
<1>5. CASE Leave(t) \/ Return(t)
  <2>1. NetTypes'
    <3>1. \E b \in BOOLEAN : online' = [online EXCEPT ![t] = b]
      BY <1>5 DEF Leave, Return
    <3>2. UNCHANGED <<regAsked, asked, answering>>
      BY <1>5 DEF Leave, Return
    <3>3. events' \in 0 .. MaxEvents
      BY <1>5, SessionAssumption DEF Leave, Return, Event, NetTypes, SessionAssumption
    <3> QED
      BY <3>1, <3>2, <3>3 DEF NetTypes
  <2> QED
    BY <1>5, <2>1, TypesStutter DEF Leave, Return
<1> QED
  BY <1>1, <1>2, <1>3, <1>4, <1>5

(* The state of the system is set after a registration. *)
LEMMA RegisterSetTypes ==
  ASSUME Types, RegisterSet
  PROVE  Types'
<1> USE DEF Types, sysVars
<1>1. /\ rgsted' = rgsted + 1 /\ registering' = NoTerminal
      /\ UNCHANGED <<regState, regTimer, regIndex>>
  BY DEF RegisterSet
<1>2. SysTypes'
  BY SetSysTypes DEF RegisterSet, SysStates, Nested, RegTypes
<1>3. RegTypes'
  <2>1. nested' \in BOOLEAN /\ regGate' \in BOOLEAN
    BY DEF RegisterSet
  <2> QED
    BY <1>1, <2>1 DEF RegTypes
<1> QED
  BY <1>2, <1>3, TypesStutter DEF RegisterSet

(* What the operators, the work thread, keys and cards begin and end. *)
LEMMA OperatorTypes ==
  ASSUME Types,
         \/ StartSign \/ EndSign \/ (\E first \in BOOLEAN : BeginVote(first))
         \/ (\E chairman \in BOOLEAN : EndVote(chairman))
         \/ ReturnDiscuss \/ ReadKey \/ Interpose \/ EnterPreset \/ EscPreset
         \/ (\E t \in Terminals : CardSign(t))
  PROVE  Types'
<1> USE DEF Types
<1>0. 1 \in Slots
  BY SlotCount DEF Slots
<1>1. \A s \in {"sign", "discuss", "vote"} : SetSys(s) => SysTypes'
  BY SetSysIsSetSysAs DEF SysStates, Nested
<1>2. ASSUME Event, UNCHANGED netVars PROVE NetTypes'
  BY <1>2, SessionAssumption DEF Event, NetTypes, netVars, SessionAssumption
<1>3. CASE StartSign
  <2>1. ModeTypes'
    BY <1>3 DEF StartSign, ModeTypes
  <2>2. PollTypes' /\ NodeTypes'
    BY <1>0, <1>3 DEF StartSign, StartRound, PollTypes, NodeTypes
  <2> QED
    BY <1>1, <1>2, <1>3, <2>1, <2>2, TypesStutter DEF StartSign
<1>4. CASE EndSign
  <2>1. ModeTypes'
    BY <1>4 DEF EndSign, ModeTypes
  <2>2. PollTypes'
    BY <1>4 DEF EndSign, PollTypes
  <2> QED
    BY <1>1, <1>2, <1>4, <2>1, <2>2, TypesStutter DEF EndSign
<1>5. ASSUME NEW first \in BOOLEAN, BeginVote(first) PROVE Types'
  <2>1. ModeTypes'
    BY <1>5 DEF BeginVote, ModeTypes
  <2>2. PollTypes'
    BY <1>0, <1>5 DEF BeginVote, StartRound, PollTypes
  <2>3. NodeTypes'
    <3>1. \A b \in BOOLEAN : VoteBegun(b) \in VoteStates
      BY DEF VoteBegun, VoteStates
    <3> QED
      BY <1>5, <3>1 DEF BeginVote, NodeTypes
  <2> QED
    BY <1>1, <1>2, <1>5, <2>1, <2>2, <2>3, TypesStutter DEF BeginVote
<1>6. ASSUME NEW chairman \in BOOLEAN, EndVote(chairman) PROVE Types'
  <2>1. ModeTypes'
    BY <1>6 DEF EndVote, ModeTypes
  <2>2. PollTypes'
    BY <1>0, <1>6 DEF EndVote, PollTypes
  <2>3. SysTypes'
    BY <1>1, <1>6, TypesStutter DEF EndVote
  <2> QED
    BY <1>2, <1>6, <2>1, <2>2, <2>3, TypesStutter DEF EndVote
<1>7. CASE ReturnDiscuss
  BY <1>1, <1>2, <1>7, TypesStutter DEF ReturnDiscuss
<1>8. CASE ReadKey
  <2>1. ModeTypes'
    BY <1>8 DEF ReadKey, ModeTypes, modeVars
  <2> QED
    BY <1>2, <1>8, <2>1, TypesStutter DEF ReadKey
<1>9. CASE Interpose
  <2>1. ModeTypes'
    BY <1>9 DEF Interpose, ModeTypes, modeVars
  <2>2. SysTypes'
    BY <1>9, OtherSysTypes DEF Interpose
  <2> QED
    BY <1>9, <2>1, <2>2, TypesStutter DEF Interpose
<1>10. CASE EnterPreset \/ EscPreset
  <2>1. SysTypes'
    BY <1>10, OtherSysTypes DEF EscPreset
  <2> QED
    BY <1>2, <1>10, <2>1, TypesStutter DEF EnterPreset, EscPreset
<1>11. ASSUME NEW t \in Terminals, CardSign(t) PROVE Types'
  <2>1. NodeTypes'
    <3>1. signed' \in [Terminals -> {"no", "onTime", "late"}]
      BY <1>11 DEF CardSign, SignedNow, NodeTypes
    <3>2. MayVote(vote[t]) \in VoteStates
      BY DEF NodeTypes, VoteStates, MayVote
    <3> QED
      BY <1>11, <3>1, <3>2 DEF CardSign, NodeTypes
  <2> QED
    BY <1>2, <1>11, <2>1, TypesStutter DEF CardSign, sysVars
<1> QED
  BY <1>3, <1>4, <1>5, <1>6, <1>7, <1>8, <1>9, <1>10, <1>11

LEMMA TypesStep ==
  ASSUME Types, [Next]_vars
  PROVE  Types'
<1>1. CASE \/ Registration \/ RegisterQuery \/ RegisterTimer
           \/ SignLateOver \/ VoteProcess \/ Poll \/ PollStop
  BY <1>1, ReceiverTypes
<1>2. CASE \/ StartSign \/ EndSign \/ (\E first \in BOOLEAN : BeginVote(first))
           \/ (\E chairman \in BOOLEAN : EndVote(chairman))
           \/ ReturnDiscuss \/ ReadKey \/ Interpose \/ EnterPreset \/ EscPreset
           \/ (\E t \in Terminals : CardSign(t))
  BY <1>2, OperatorTypes
<1>3. ASSUME NEW t \in Terminals,
             \/ RegisterAnswer(t) \/ PollTimeout(t) \/ TerminalAnswers(t)
             \/ (\E a \in Answers : PollAnswer(t, a))
             \/ Leave(t) \/ Return(t)
      PROVE  Types'
  BY <1>3, EpollTypes
<1>4. CASE RegisterSet
  BY <1>4, RegisterSetTypes
<1>5. CASE UNCHANGED vars
  BY <1>5, TypesStutter DEF vars, Types, sysVars
<1> QED
  BY <1>1, <1>2, <1>3, <1>4, <1>5 DEF Next

-----------------------------------------------------------------------------
(* The count, kept by every step. *)
LEMMA CountStep ==
  ASSUME TypeOK, CountKept, [Next]_vars
  PROVE  CountKept'
<1>0. events \in Nat /\ regState \in {"wait", "query", "idle"}
  BY SessionAssumption DEF TypeOK, SessionAssumption
<1>1. CASE \/ RegisterQuery \/ RegisterNote \/ RegisterSet
           \/ \E t \in Terminals : RegisterAnswer(t) \/ Leave(t) \/ Return(t)
  BY <1>1, RegistrationCounts
<1>2. CASE \/ RegisterStart \/ RegisterTimer \/ SignLateOver \/ VoteProcess \/ Poll \/ PollStop
           \/ Interpose \/ UNCHANGED vars
  <2>1. /\ UNCHANGED <<rgst, online, rgsted, registering, events>>
        /\ regState' = regState \/ regState # "idle"
    BY <1>2 DEF RegisterStart, RegisterTimer, SignLateOver, VoteProcess, Poll, PollStop,
                Interpose, vars, regVars, epollVars, nodeVars, netVars
  <2> QED
    BY <1>0, <2>1, CountStutter
<1>3. ASSUME NEW early \in BOOLEAN, RegisterDone(early) PROVE CountKept'
  BY <1>0, <1>3, CountStutter DEF RegisterDone, epollVars, nodeVars, netVars
<1>4. ASSUME NEW t \in Terminals,
             PollTimeout(t) \/ TerminalAnswers(t) \/ \E a \in Answers : PollAnswer(t, a)
      PROVE  CountKept'
  <2>1. UNCHANGED <<rgst, online, rgsted, registering, events, regState>>
    BY <1>4 DEF PollTimeout, TerminalAnswers, PollAnswer, regVars, epollVars, nodeVars
  <2> QED
    BY <1>0, <2>1, CountStutter
<1>5. CASE \/ StartSign \/ EndSign \/ (\E first \in BOOLEAN : BeginVote(first))
           \/ (\E chairman \in BOOLEAN : EndVote(chairman))
           \/ ReturnDiscuss \/ ReadKey \/ EnterPreset \/ EscPreset
           \/ (\E t \in Terminals : CardSign(t))
  <2>1. UNCHANGED <<rgst, rgsted, registering, regState>> /\ Event
    BY <1>5 DEF StartSign, EndSign, BeginVote, EndVote, ReturnDiscuss, ReadKey, EnterPreset,
                EscPreset, CardSign, regVars, epollVars, nodeVars
  <2>2. UNCHANGED online
    BY <1>5 DEF StartSign, EndSign, BeginVote, EndVote, ReturnDiscuss, ReadKey, EnterPreset,
                EscPreset, CardSign, netVars
  <2>3. events' \in Nat /\ events' >= events
    BY <1>0, <2>1 DEF Event
  <2> QED
    BY <2>1, <2>2, <2>3, CountStutter
<1> QED
  BY <1>1, <1>2, <1>3, <1>4, <1>5 DEF Next, Registration

LEMMA SessionStarts ==
  ASSUME Init
  PROVE  TypeOK /\ CountKept
<1>1. Types
  <2>1. 1 \in Slots /\ \A t \in Terminals : MaxOwed[t] \in Nat
    BY SlotCount, SessionAssumption DEF Slots, SessionAssumption
  <2>2. NoVote \in VoteStates
    BY DEF NoVote, VoteStates
  <2>3. SysTypes /\ ModeTypes /\ PollTypes /\ RegTypes
    BY <2>1 DEF Init, SysTypes, SysStates, Nested, ModeTypes, PollTypes, RegTypes
  <2>4. NodeTypes
    BY <2>2 DEF Init, NodeTypes
  <2>5. NetTypes
    BY <2>1, SessionAssumption DEF Init, NetTypes, SessionAssumption
  <2> QED
    BY <2>3, <2>4, <2>5 DEF Types
<1>2. CountKept
  <2>1. Underway = 0 /\ rgsted = 0 /\ events = 0
    BY DEF Init, Underway, EpollFree
  <2>2. Cardinality(Present) \in Nat /\ Cardinality(Registered) \in Nat
    BY Counts DEF Present, Registered
  <2> QED
    BY <2>1, <2>2 DEF CountKept
<1> QED
  BY <1>1, <1>2, TypesAreTypes

(* Nothing the threads do to one another takes a variable out of its type, *)
(* and the count of the registered is behind those registered (CountInv):  *)
(* the bound of the count's type is the one CountKept gives.               *)
THEOREM CountCorrect == Spec => []CountInv
<1>1. Init => CountInv
  BY SessionStarts DEF CountInv
<1>2. CountInv /\ [Next]_vars => CountInv'
  <2> SUFFICES ASSUME TypeOK, CountKept, [Next]_vars
               PROVE  TypeOK' /\ CountKept'
    BY DEF CountInv
  <2>1. CountKept'
    BY CountStep
  <2>2. Types'
    BY TypesAreTypes, TypesStep
  <2>3. Types' /\ CountKept' => TypeOK'
    BY TypesAreTypes, PTL
  <2> QED
    BY <2>1, <2>2, <2>3
<1> QED
  BY <1>1, <1>2, PTL DEF Spec

(* What the theorems below take from it. *)
LEMMA TypeCorrect == Spec => []TypeOK
<1>1. CountInv => TypeOK
  BY DEF CountInv
<1> QED
  BY <1>1, CountCorrect, PTL

(* The start of the host ends early only if every terminal is registered   *)
(* (EarlyEndMeansAll): a count that reaches the number of the terminals is *)
(* the number of the registered, so these are all of them.                 *)
THEOREM EarlyEndCorrect == Spec => EarlyEndMeansAll
<1>1. ASSUME TypeOK, CountKept, regState = "query", Len(Order) <= rgsted
      PROVE  \A t \in Terminals : rgst[t]
  <2>1. rgsted \in Nat /\ Underway \in {0, 1} /\ rgsted + Underway <= Cardinality(Registered)
    BY <1>1 DEF TypeOK, CountKept, Underway
  <2>2. Registered \subseteq Terminals /\ Cardinality(Registered) \in Nat
    BY Counts DEF Registered
  <2>3. Cardinality(Registered) = Cardinality(Terminals)
    BY <1>1, <2>1, <2>2, SlotCount, Counts
  <2>4. Registered = Terminals
    BY <2>2, <2>3, SlotCount, FS_Subset
  <2> QED
    BY <2>4 DEF Registered
<1>2. CountInv =>
        [regState = "query" /\ regState' = "idle" /\ AllCounted
             => \A t \in Terminals : rgst[t]]_vars
  BY <1>1 DEF AllCounted, CountInv
<1> QED
  BY <1>2, CountCorrect, PTL DEF EarlyEndMeansAll

-----------------------------------------------------------------------------
(* The phase: what is under way, or goes on after an interruption. *)

(* Setting the state sets the phase, even while it is interrupted. *)
LEMMA SetSysSetsPhase ==
  ASSUME NEW s \in SysStates \ Nested, SetSys(s)
  PROVE  Phase' = s /\ (sys' # sys => {sys, sys'} \cap Nested = {})
  BY DEF SetSys, SetSysAs, Phase, SysStates, Nested

(* What a step does to the phase. *)
PhaseSet(P) ==
    /\ Phase' = Phase \/ Phase' \in P
    /\ sys' # sys /\ {sys, sys'} \cap Nested # {} /\ EpollFree => Phase' = Phase

LEMMA PhaseStep ==
  ASSUME TypeOK, [Next]_vars
  PROVE  \/ PhaseSet({"discuss", "sign", "interpose"})
         \/ PhaseSet({"vote"}) /\ \E first \in BOOLEAN : BeginVote(first)
<1>1. CASE UNCHANGED <<sys, pre>>
  BY <1>1 DEF PhaseSet, Phase
<1>2. ASSUME NEW s \in {"discuss", "sign"}, SetSys(s)
      PROVE  PhaseSet({"discuss", "sign", "interpose"})
  BY <1>2, SetSysSetsPhase DEF PhaseSet, SysStates, Nested
<1>3. CASE RegisterSet
  <2>1. ~EpollFree /\ SetSysAs("discuss", nested)
    BY <1>3 DEF RegisterSet
  <2>2. Phase' = Phase \/ Phase' = "discuss"
    BY <2>1 DEF SetSysAs, Phase, Nested
  <2> QED
    BY <2>1, <2>2 DEF PhaseSet
<1>4. ASSUME NEW first \in BOOLEAN, BeginVote(first)
      PROVE  PhaseSet({"vote"})
  <2>1. SetSys("vote")
    BY <1>4 DEF BeginVote
  <2> QED
    BY <2>1, SetSysSetsPhase DEF PhaseSet, SysStates, Nested
<1>5. CASE ReturnFrom("interpose") \/ ReturnFrom("camera") \/ EnterPreset
  <2>1. Phase' = Phase
    BY <1>5 DEF ReturnFrom, EnterPreset, Phase, Nested
  <2> QED
    BY <2>1 DEF PhaseSet
<1>6. CASE SetSys("interpose")
  <2>1. CASE sys \in Nested
    <3>1. sys' = sys /\ Phase' = "interpose"
      BY <1>6, <2>1 DEF SetSys, SetSysAs, Phase
    <3> QED
      BY <3>1 DEF PhaseSet
  <2>2. CASE sys \notin Nested
    <3>1. Phase' = Phase
      BY <1>6, <2>2 DEF SetSys, SetSysAs, Phase, Nested
    <3> QED
      BY <3>1 DEF PhaseSet
  <2> QED
    BY <2>1, <2>2
<1>7. CASE \/ RegisterStart \/ RegisterNote \/ RegisterQuery \/ RegisterTimer
           \/ SignLateOver \/ VoteProcess \/ Poll \/ PollStop \/ ReadKey
           \/ \E t \in Terminals :
                 \/ RegisterAnswer(t) \/ PollTimeout(t) \/ CardSign(t)
                 \/ TerminalAnswers(t) \/ \E a \in Answers : PollAnswer(t, a)
                 \/ Leave(t) \/ Return(t)
           \/ UNCHANGED vars
  <2>1. UNCHANGED <<sys, pre>>
    BY <1>7 DEF RegisterStart, RegisterNote, RegisterQuery, RegisterTimer, SignLateOver,
                VoteProcess, Poll, PollStop, ReadKey, RegisterAnswer, PollTimeout, CardSign,
                TerminalAnswers, PollAnswer, Leave, Return, vars, sysVars
  <2> QED
    BY <1>1, <2>1
<1>8. CASE \/ (\E early \in BOOLEAN : RegisterDone(early)) \/ StartSign \/ EndSign
           \/ (\E chairman \in BOOLEAN : EndVote(chairman)) \/ ReturnDiscuss
  <2>1. SetSys("discuss") \/ SetSys("sign") \/ UNCHANGED <<sys, pre>>
    BY <1>8 DEF RegisterDone, StartSign, EndSign, EndVote, ReturnDiscuss
  <2> QED
    BY <1>1, <1>2, <2>1
<1>9. CASE Interpose \/ EscPreset
  <2>1. SetSys("interpose") \/ ReturnFrom("interpose") \/ ReturnFrom("camera")
        \/ UNCHANGED <<sys, pre>>
    BY <1>9 DEF Interpose, EscPreset
  <2> QED
    BY <1>1, <1>5, <1>6, <2>1
<1> QED
  BY <1>3, <1>4, <1>5, <1>7, <1>8, <1>9 DEF Next, Registration

(* What a camera preset or the chairman interrupts goes on afterwards, or  *)
(* what was begun or ended meanwhile (PhaseKept).                          *)
THEOREM PhaseCorrect == Spec => PhaseKept
<1>1. TypeOK /\ [Next]_vars =>
        [sys' # sys /\ {sys, sys'} \cap Nested # {} /\ EpollFree => Phase' = Phase]_vars
  BY PhaseStep DEF PhaseSet
<1> QED
  BY <1>1, TypeCorrect, PTL DEF Spec, PhaseKept

-----------------------------------------------------------------------------
(* A vote asks those it may ask. *)
LEMMA VotersStep ==
  ASSUME TypeOK, VotersAdmitted, [Next]_vars
  PROVE  VotersAdmitted'
<1> DEFINE Admitted(t) == vote[t].wait => signed[t] # "no" \/ vote[t].en
<1>1. CASE \E first \in BOOLEAN : BeginVote(first)
  <2>1. /\ called' = {t \in Terminals : rgst[t]}
        /\ vote' = [t \in Terminals |->
                       IF rgst[t] THEN VoteBegun(signed[t] # "no") ELSE vote[t]]
        /\ signed' = signed
    BY <1>1 DEF BeginVote
  <2>2. \A b \in BOOLEAN : VoteBegun(b).wait = b
    BY DEF VoteBegun
  <2>3. ASSUME NEW t \in called', vote'[t].wait PROVE signed[t] # "no"
    <3>1. t \in Terminals /\ vote'[t] = VoteBegun(signed[t] # "no")
      BY <2>1
    <3> QED
      BY <2>2, <2>3, <3>1
  <2> QED
    BY <2>1, <2>3 DEF VotersAdmitted
<1>2. CASE UNCHANGED <<called, vote, signed>> /\ (Phase' = "vote" => Phase = "vote")
  BY <1>2 DEF VotersAdmitted
<1>3. CASE PhaseSet({"discuss", "sign", "interpose"})
  <2>1. Phase' = "vote" => Phase = "vote"
    BY <1>3 DEF PhaseSet
  <2>2. CASE VoteProcess
    <3>1. UNCHANGED <<called, signed>>
      BY <2>2 DEF VoteProcess
    <3>2. CASE UNCHANGED vote
      BY <1>2, <2>1, <3>1, <3>2
    <3>3. ASSUME NEW t \in Enabled, vote' = [vote EXCEPT ![t] = ToBePolled(@)]
          PROVE  VotersAdmitted'
      <4>1. ToBePolled(vote[t]).en /\ t \in Terminals
        BY DEF ToBePolled, Enabled
      <4>2. \A u \in Terminals : vote'[u].en \/ vote'[u] = vote[u]
        BY <3>3, <4>1 DEF TypeOK
      <4> QED
        BY <2>1, <3>1, <4>2 DEF VotersAdmitted, TypeOK
    <3> QED
      BY <2>2, <3>2, <3>3 DEF VoteProcess
  <2>3. CASE StartSign
    <3>1. Phase' = "sign"
      BY <2>3, SetSysSetsPhase DEF StartSign, SysStates, Nested
    <3> QED
      BY <3>1 DEF VotersAdmitted
  <2>4. ASSUME NEW t \in Terminals, CardSign(t) PROVE VotersAdmitted'
    <3>1. /\ signed' = [signed EXCEPT ![t] = SignedNow(t)]
          /\ vote' = [vote EXCEPT ![t] = MayVote(@)] /\ called' = called
      BY <2>4 DEF CardSign, modeVars
    <3>2. MayVote(vote[t]).en
      BY DEF MayVote
    <3>3. \A u \in Terminals :
             vote'[u].en \/ (vote'[u] = vote[u] /\ signed'[u] = signed[u])
      BY <3>1, <3>2 DEF TypeOK
    <3> QED
      BY <2>1, <3>1, <3>3 DEF VotersAdmitted, TypeOK
  <2>5. ASSUME NEW t \in Terminals, NEW a \in Answers, PollAnswer(t, a) PROVE VotersAdmitted'
    <3>1. called' = called /\ \A u \in Terminals : signed[u] # "no" => signed'[u] # "no"
      BY <2>5 DEF PollAnswer, modeVars, SignedNow, TypeOK
    <3>2. /\ (VoteNow(vote[t], a).wait => vote[t].wait)
          /\ (VoteNow(vote[t], a).en <=> vote[t].en)
      BY DEF VoteNow
    <3>3. \A u \in Terminals : /\ vote'[u].wait => vote[u].wait
                               /\ vote[u].en => vote'[u].en
      <4>1. CASE vote' = [vote EXCEPT ![t] = VoteNow(@, a)]
        BY <3>2, <4>1 DEF TypeOK
      <4>2. CASE vote' = vote
        BY <4>2
      <4> QED
        BY <2>5, <4>1, <4>2 DEF PollAnswer
    <3> QED
      BY <2>1, <3>1, <3>3 DEF VotersAdmitted, TypeOK
  <2>6. CASE \/ Registration \/ RegisterQuery \/ RegisterTimer \/ SignLateOver \/ Poll
             \/ PollStop \/ RegisterSet
             \/ EndSign \/ (\E chairman \in BOOLEAN : EndVote(chairman)) \/ ReturnDiscuss
             \/ ReadKey \/ Interpose \/ EnterPreset \/ EscPreset \/ UNCHANGED vars
    <3>1. UNCHANGED <<called, vote, signed>>
      BY <2>6 DEF Registration, RegisterStart, RegisterNote, RegisterDone, RegisterQuery,
                  RegisterTimer, SignLateOver, Poll, PollStop, RegisterSet, EndSign, EndVote,
                  ReturnDiscuss, ReadKey, Interpose, EnterPreset, EscPreset, vars, modeVars,
                  nodeVars
    <3> QED
      BY <1>2, <2>1, <3>1
  <2>7. ASSUME NEW t \in Terminals,
               RegisterAnswer(t) \/ PollTimeout(t) \/ TerminalAnswers(t) \/ Leave(t) \/ Return(t)
        PROVE  VotersAdmitted'
    <3>1. UNCHANGED <<called, vote, signed>>
      BY <2>7 DEF RegisterAnswer, PollTimeout, TerminalAnswers, Leave, Return, modeVars,
                  nodeVars
    <3> QED
      BY <1>2, <2>1, <3>1
  <2>8. CASE \E first \in BOOLEAN : BeginVote(first)
    BY <1>1, <2>8
  <2>9. CASE \E t \in Terminals :
                \/ RegisterAnswer(t) \/ PollTimeout(t) \/ CardSign(t)
                \/ TerminalAnswers(t) \/ \E a \in Answers : PollAnswer(t, a)
                \/ Leave(t) \/ Return(t)
    BY <2>4, <2>5, <2>7, <2>9
  <2> QED
    BY <2>2, <2>3, <2>6, <2>8, <2>9 DEF Next
<1> QED
  BY <1>1, <1>3, PhaseStep

(* Among those registered when it began a vote asks who has signed in or   *)
(* was enabled since, through every interruption (VotersAdmitted).         *)
THEOREM VotersCorrect == Spec => []VotersAdmitted
<1>1. Init => VotersAdmitted
  BY DEF Init, VotersAdmitted
<1>2. TypeOK /\ VotersAdmitted /\ [Next]_vars => VotersAdmitted'
  BY VotersStep
<1> QED
  BY <1>1, <1>2, TypeCorrect, PTL DEF Spec

-----------------------------------------------------------------------------
(* No round of polls gets stuck (ShutGateIsOpened): whatever takes a poll  *)
(* back opens the gate, and every round begins with the gate open.         *)
THEOREM ShutGateCorrect == Spec => []ShutGateIsOpened
<1>1. Init => ShutGateIsOpened
  BY DEF Init, ShutGateIsOpened
<1>2. ASSUME ShutGateIsOpened, [Next]_vars PROVE ShutGateIsOpened'
  <2>1. CASE Poll
    <3>1. gate' = gate \/ asked' # {}
      BY <2>1 DEF Poll
    <3> QED
      BY <1>2, <2>1, <3>1 DEF Poll, ShutGateIsOpened
  <2>2. CASE PollStop
    BY <2>2 DEF PollStop, ShutGateIsOpened
  <2>3. ASSUME NEW t \in Terminals, NEW a \in Answers, PollAnswer(t, a)
        PROVE  ShutGateIsOpened'
    BY <2>3 DEF PollAnswer, ShutGateIsOpened
  <2>4. ASSUME NEW t \in Terminals, PollTimeout(t) PROVE ShutGateIsOpened'
    BY <2>4 DEF PollTimeout, ShutGateIsOpened
  <2>5. CASE \/ StartSign \/ EndSign \/ (\E first \in BOOLEAN : BeginVote(first))
             \/ (\E chairman \in BOOLEAN : EndVote(chairman))
    BY <2>5 DEF StartSign, EndSign, BeginVote, EndVote, StartRound, ShutGateIsOpened
  <2>6. CASE UNCHANGED <<running, gate, asked>>
    BY <1>2, <2>6 DEF ShutGateIsOpened
  <2>7. CASE \/ Registration \/ RegisterQuery \/ RegisterTimer \/ SignLateOver
             \/ VoteProcess \/ RegisterSet \/ ReturnDiscuss
             \/ ReadKey \/ Interpose \/ EnterPreset \/ EscPreset \/ UNCHANGED vars
             \/ \E t \in Terminals :
                   \/ RegisterAnswer(t) \/ CardSign(t) \/ TerminalAnswers(t)
                   \/ Leave(t) \/ Return(t)
    <3>1. UNCHANGED <<running, gate, asked>>
      BY <2>7 DEF Registration, RegisterStart, RegisterNote, RegisterDone, RegisterQuery,
                  RegisterTimer, SignLateOver, VoteProcess, RegisterSet, ReturnDiscuss,
                  ReadKey, Interpose, EnterPreset, EscPreset, RegisterAnswer, CardSign,
                  TerminalAnswers, Leave, Return, vars, pollVars, netVars
    <3> QED
      BY <2>6, <3>1
  <2> QED
    BY <1>2, <2>1, <2>2, <2>3, <2>4, <2>5, <2>7 DEF Next
<1> QED
  BY <1>1, <1>2, PTL DEF Spec

=============================================================================
