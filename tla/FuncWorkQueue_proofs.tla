------------------------- MODULE FuncWorkQueue_proofs -------------------------
(* Proofs about the function work queue, for any callers, any commands and *)
(* any number of calls and of changes of the flags.                        *)
EXTENDS FuncWorkQueue, SequenceTheorems, TLAPS

(* The command a caller's local holds outside a call is a command. *)
LEMMA NoCommandType == NoCommand \in Commands
  BY FuncWorkQueueAssumption DEF NoCommand, FuncWorkQueueAssumption

(* A caller that has entered a call has a numbered job to queue. *)
LEMMA SavedJob ==
  ASSUME TypeOK, NEW c \in Callers, cpc[c] = "save"
  PROVE  [src |-> c, num |-> calls[c], cmd |-> cmd[c]] \in Jobs
<1>1. MaxCalls[c] \in Nat
  BY FuncWorkQueueAssumption DEF FuncWorkQueueAssumption, Callers
<1>2. calls[c] \in 0 .. MaxCalls[c] /\ calls[c] > 0 /\ cmd[c] \in Commands
  BY DEF TypeOK
<1>3. calls[c] \in 1 .. MaxCalls[c]
  BY <1>1, <1>2
<1>4. [src |-> c, num |-> calls[c], cmd |-> cmd[c]]
        \in [src : {c}, num : 1 .. MaxCalls[c], cmd : Commands]
  BY <1>2, <1>3
<1> QED
  BY <1>4 DEF Jobs

(* Every variable keeps its type: no step queues a command nobody has      *)
(* called with, or one whose call is not numbered.                         *)
THEOREM TypeCorrect == Spec => []TypeOK
<1>1. Init => TypeOK
  <2> SUFFICES ASSUME Init PROVE TypeOK
    OBVIOUS
  <2>1. \A c \in Callers : 0 \in 0 .. MaxCalls[c]
    BY FuncWorkQueueAssumption DEF FuncWorkQueueAssumption, Callers
  <2>2. 0 \in 0 .. MaxChanges
    BY FuncWorkQueueAssumption DEF FuncWorkQueueAssumption
  <2>3. cpc \in [Callers -> CallSteps] /\ cmd \in [Callers -> Commands]
    BY NoCommandType DEF Init, CallSteps
  <2> QED
    BY <2>1, <2>2, <2>3, EmptySeq DEF Init, TypeOK, WorkSteps, CloseSteps
<1>2. TypeOK /\ [Next]_vars => TypeOK'
  <2> SUFFICES ASSUME TypeOK, [Next]_vars PROVE TypeOK'
    OBVIOUS
  <2> USE DEF TypeOK, flagVars, callVars, closeVars, history
  <2>1. ASSUME NEW c \in Callers, NEW k \in Commands, Call(c, k) PROVE TypeOK'
    BY <2>1, FuncWorkQueueAssumption DEF Call, CallSteps, FuncWorkQueueAssumption, Callers
  <2>2. ASSUME NEW c \in Callers, Check(c) \/ Lock(c) PROVE TypeOK'
    BY <2>2, NoCommandType DEF Check, Lock, CallSteps, Threads
  <2>3. ASSUME NEW c \in Callers, Save(c) PROVE TypeOK'
    <3> DEFINE job == [src |-> c, num |-> calls[c], cmd |-> cmd[c]]
    <3>1. job \in Jobs
      BY <2>3, SavedJob DEF Save, Saved
    <3>2. work' = Append(work, job) /\ accepted' = Append(accepted, job)
      BY <2>3 DEF Save
    <3>3. work' \in Seq(Jobs) /\ accepted' \in Seq(Jobs)
      BY <3>1, <3>2, AppendProperties
    <3> QED
      BY <2>3, <3>3 DEF Save, Saved, CallSteps
  <2>4. ASSUME NEW c \in Callers, SaveFails(c) \/ Signal(c) PROVE TypeOK'
    BY <2>4, NoCommandType DEF SaveFails, Saved, Signal, AfterSignal, CallSteps, WorkSteps
  <2>5. CASE WorkLock \/ FindEmpty \/ CondWait \/ FindInactive \/ Return \/ SpuriousWakeup
    BY <2>5 DEF WorkLock, FindEmpty, CondWait, FindInactive, Return, SpuriousWakeup,
                WorkSteps, Threads, Callers
  <2>6. CASE Take
    <3>1. Head(work) \in Jobs /\ work' \in Seq(Jobs) /\ started' \in Seq(Jobs)
      BY <2>6, HeadTailProperties, AppendProperties DEF Take
    <3> QED
      BY <2>6, <3>1 DEF Take, WorkSteps
  <2>7. ASSUME NEW u \in Users, UseDisSet(u) PROVE TypeOK'
    BY <2>7, FuncWorkQueueAssumption DEF UseDisSet, FuncWorkQueueAssumption
  <2>8. CASE SetSysState
    BY <2>8, FuncWorkQueueAssumption DEF SetSysState, FuncWorkQueueAssumption
  <2>9. ASSUME NEW t \in Threads, Stop(t) PROVE TypeOK'
    BY <2>9 DEF Stop, CloseSteps
  <2>10. CASE DrainLock \/ DrainUnlock \/ Deactivate \/ CloseSignal \/ Exit
    BY <2>10 DEF DrainLock, DrainUnlock, Deactivate, CloseSignal, Exit, AfterSignal,
                 CloseSteps, WorkSteps, Threads
  <2>11. CASE DrainTake
    BY <2>11, HeadTailProperties DEF DrainTake
  <2>12. CASE Terminated \/ UNCHANGED vars
    BY <2>12 DEF Terminated, vars
  <2> QED
    BY <2>1, <2>2, <2>3, <2>4, <2>5, <2>6, <2>7, <2>8, <2>9, <2>10, <2>11, <2>12
       DEF Next, Caller, Work, Close
<1> QED
  BY <1>1, <1>2, PTL DEF Spec

-----------------------------------------------------------------------------
(* The threads are different, and none of them is the absence of one. *)
LEMMA ThreadsDiffer ==
  /\ Worker \notin Producers /\ Other \notin Callers /\ NoThread \notin Callers
  /\ Worker \in Callers /\ Producers \subseteq Callers /\ Callers \subseteq Producers \cup {Worker}
  /\ Other # NoThread
  BY FuncWorkQueueAssumption DEF FuncWorkQueueAssumption, Callers

(* The owner of the mutex and the positions of the threads stay in step:   *)
(* only a thread that finds the mutex free takes it, and the one that      *)
(* leaves its critical section gives it back.                              *)
LEMMA OwnerKept ==
  ASSUME TypeOK, OwnerHolds, WorkerView, [Next]_vars
  PROVE  OwnerHolds'
<1> USE ThreadsDiffer DEF OwnerHolds
<1> USE DEF flagVars, callVars, closeVars, history
<1>1. ASSUME NEW c \in Callers, NEW k \in Commands, Call(c, k) PROVE OwnerHolds'
  BY <1>1 DEF Call, TypeOK
<1>2. ASSUME NEW c \in Callers, Check(c) PROVE OwnerHolds'
  BY <1>2 DEF Check, TypeOK
<1>3. ASSUME NEW c \in Callers, Lock(c) PROVE OwnerHolds'
  BY <1>3 DEF Lock, TypeOK
<1>4. ASSUME NEW c \in Callers, Save(c) \/ SaveFails(c) PROVE OwnerHolds'
  BY <1>4 DEF Save, SaveFails, Saved, TypeOK
<1>5. ASSUME NEW c \in Callers, Signal(c) PROVE OwnerHolds'
  BY <1>5 DEF Signal, AfterSignal, WorkerView, TypeOK
<1>6. CASE WorkLock \/ FindEmpty \/ CondWait \/ FindInactive
  BY <1>6 DEF WorkLock, FindEmpty, CondWait, FindInactive, WorkerView, TypeOK
<1>7. CASE Take \/ Return \/ SpuriousWakeup
  BY <1>7 DEF Take, Return, SpuriousWakeup, WorkerView, TypeOK
<1>8. ASSUME (\E u \in Users : UseDisSet(u)) \/ SetSysState \/ \E t \in Threads : Stop(t)
      PROVE  OwnerHolds'
  BY <1>8 DEF UseDisSet, SetSysState, Stop
<1>9. CASE DrainLock \/ DrainTake \/ DrainUnlock \/ Deactivate
  BY <1>9 DEF DrainLock, DrainTake, DrainUnlock, Deactivate, TypeOK
<1>10. CASE CloseSignal \/ Exit
  BY <1>10 DEF CloseSignal, Exit, AfterSignal
<1>11. CASE Terminated \/ UNCHANGED vars
  BY <1>11 DEF Terminated, vars
<1> QED
  BY <1>1, <1>2, <1>3, <1>4, <1>5, <1>6, <1>7, <1>8, <1>9, <1>10, <1>11
     DEF Next, Caller, Work, Close

(* The work thread's calls are nested in its commands, and no one puts a   *)
(* command behind its back between its test of the queue and its sleep.    *)
LEMMA ViewKept ==
  ASSUME TypeOK, OwnerHolds, WorkerView, [Next]_vars
  PROVE  WorkerView'
<1> USE ThreadsDiffer DEF WorkerView
<1> USE DEF flagVars, callVars, closeVars, history
<1>1. ASSUME NEW c \in Callers,
             (\E k \in Commands : Call(c, k)) \/ Check(c) \/ Lock(c) \/ SaveFails(c)
      PROVE  WorkerView'
  BY <1>1 DEF Call, MayCall, Check, Lock, SaveFails, Saved, TypeOK
<1>2. ASSUME NEW c \in Callers, Save(c) PROVE WorkerView'
  BY <1>2 DEF Save, Saved, OwnerHolds, TypeOK
<1>3. ASSUME NEW c \in Callers, Signal(c) PROVE WorkerView'
  BY <1>3 DEF Signal, AfterSignal, TypeOK
<1>4. CASE Work \/ SpuriousWakeup
  BY <1>4 DEF Work, WorkLock, FindEmpty, CondWait, FindInactive, Take, Return, SpuriousWakeup
<1>5. ASSUME (\E u \in Users : UseDisSet(u)) \/ SetSysState \/ \E t \in Threads : Stop(t)
      PROVE  WorkerView'
  BY <1>5 DEF UseDisSet, SetSysState, Stop
<1>6. CASE DrainLock \/ DrainTake \/ DrainUnlock \/ Deactivate \/ CloseSignal \/ Exit
  BY <1>6 DEF DrainLock, DrainTake, DrainUnlock, Deactivate, CloseSignal, Exit, AfterSignal
<1>7. CASE Terminated \/ UNCHANGED vars
  BY <1>7 DEF Terminated, vars
<1> QED
  BY <1>1, <1>2, <1>3, <1>4, <1>5, <1>6, <1>7 DEF Next, Caller, Close

(* The signal of a command is given by the thread that still has the       *)
(* mutex, so the work thread cannot go to sleep between the two.           *)
LEMMA WakeKept ==
  ASSUME TypeOK, OwnerHolds, WorkerView, NotStranded, [Next]_vars
  PROVE  NotStranded'
<1> USE ThreadsDiffer DEF NotStranded
<1> USE DEF flagVars, callVars, closeVars, history
<1>1. ASSUME NEW c \in Callers, (\E k \in Commands : Call(c, k)) \/ Check(c)
      PROVE  NotStranded'
  BY <1>1 DEF Call, Check, TypeOK
<1>2. ASSUME NEW c \in Callers, Lock(c) PROVE NotStranded'
  BY <1>2 DEF Lock, TypeOK
<1>3. ASSUME NEW c \in Callers, Save(c) \/ SaveFails(c) PROVE NotStranded'
  <2>1. cpc'[c] = "signal" /\ owner' = c
    BY <1>3 DEF Save, SaveFails, Saved, OwnerHolds, TypeOK
  <2> QED
    BY <2>1
<1>4. ASSUME NEW c \in Callers, Signal(c) PROVE NotStranded'
  BY <1>4 DEF Signal, AfterSignal
<1>5. CASE Work \/ SpuriousWakeup
  BY <1>5 DEF Work, WorkLock, FindEmpty, CondWait, FindInactive, Take, Return,
              SpuriousWakeup, WorkerView
<1>6. ASSUME (\E u \in Users : UseDisSet(u)) \/ SetSysState \/ \E t \in Threads : Stop(t)
      PROVE  NotStranded'
  BY <1>6 DEF UseDisSet, SetSysState, Stop
<1>7. CASE DrainLock \/ DrainTake \/ DrainUnlock \/ Deactivate \/ CloseSignal \/ Exit
  BY <1>7 DEF DrainLock, DrainTake, DrainUnlock, Deactivate, CloseSignal, Exit
<1>8. CASE Terminated \/ UNCHANGED vars
  BY <1>8 DEF Terminated, vars
<1> QED
  BY <1>1, <1>2, <1>3, <1>4, <1>5, <1>6, <1>7, <1>8 DEF Next, Caller, Close

(* What a pop takes from the queue and adds to the history behind it. *)
LEMMA TakeKeepsOrder ==
  ASSUME NEW S, NEW s \in Seq(S), NEW q \in Seq(S), q # <<>>
  PROVE  Append(s, Head(q)) \o Tail(q) = s \o q
<1>1. Head(q) \in S /\ Tail(q) \in Seq(S)
  BY HeadTailProperties
<1>2. q = <<Head(q)>> \o Tail(q)
  <2>1. Len(q) \in Nat /\ 1 \in 1 .. Len(q) /\ Len(q) \in 1 .. Len(q)
    BY EmptySeq, LenProperties
  <2>2. q = <<q[1]>> \o SubSeq(q, 1 + 1, Len(q))
    BY <2>1, SubSeqFull, SubSeqRecursiveFirst
  <2> QED
    BY <2>2, TailIsSubSeq
<1>3. Append(s, Head(q)) = s \o <<Head(q)>>
  BY <1>1, AppendIsConcat
<1>4. <<Head(q)>> \in Seq(S)
  BY <1>1
<1> QED
  BY <1>1, <1>2, <1>3, <1>4, ConcatAssociative

(* What was accepted is what was started and then what waits. *)
LEMMA OrderKept ==
  ASSUME TypeOK, OwnerHolds, TakenInOrder, [Next]_vars
  PROVE  TakenInOrder'
<1> USE DEF TakenInOrder, flagVars, callVars, closeVars, history
<1>1. ASSUME NEW c \in Callers, Save(c) PROVE TakenInOrder'
  <2> DEFINE job == [src |-> c, num |-> calls[c], cmd |-> cmd[c]]
  <2>1. job \in Jobs
    BY <1>1, SavedJob DEF Save, Saved
  <2>2. /\ work' = Append(work, job) /\ accepted' = Append(accepted, job)
        /\ UNCHANGED <<started, spc>>
    BY <1>1 DEF Save, Saved
  <2> HIDE DEF job
  <2>3. started \in Seq(Jobs) /\ work \in Seq(Jobs) /\ accepted \in Seq(Jobs)
    BY DEF TypeOK
  <2>4. work' = work \o <<job>> /\ accepted' = accepted \o <<job>>
    BY <2>1, <2>2, <2>3, AppendIsConcat
  <2>5. <<job>> \in Seq(Jobs)
    BY <2>1
  <2>6. (started \o work) \o <<job>> = started \o (work \o <<job>>)
    <3> DEFINE last == <<job>>
    <3>1. last \in Seq(Jobs)
      BY <2>5
    <3> HIDE DEF last
    <3>2. (started \o work) \o last = started \o (work \o last)
      BY <2>3, <3>1, ConcatAssociative
    <3> QED
      BY <3>2 DEF last
  <2> QED
    BY <2>2, <2>4, <2>6
<1>2. CASE Take
  <2>1. /\ work # <<>> /\ work' = Tail(work) /\ started' = Append(started, Head(work))
        /\ UNCHANGED <<accepted, spc>>
    BY <1>2 DEF Take
  <2> QED
    BY <2>1, TakeKeepsOrder DEF TypeOK
<1>3. ASSUME NEW c \in Callers,
             (\E k \in Commands : Call(c, k)) \/ Check(c) \/ Lock(c) \/ SaveFails(c) \/ Signal(c)
      PROVE  TakenInOrder'
  BY <1>3 DEF Call, Check, Lock, SaveFails, Saved, Signal
<1>4. CASE WorkLock \/ FindEmpty \/ CondWait \/ FindInactive \/ Return \/ SpuriousWakeup
  BY <1>4 DEF WorkLock, FindEmpty, CondWait, FindInactive, Return, SpuriousWakeup
<1>5. ASSUME (\E u \in Users : UseDisSet(u)) \/ SetSysState \/ \E t \in Threads : Stop(t)
      PROVE  TakenInOrder'
  BY <1>5 DEF UseDisSet, SetSysState, Stop
<1>6. CASE DrainLock \/ DrainTake \/ DrainUnlock \/ Deactivate \/ CloseSignal \/ Exit
  BY <1>6 DEF DrainLock, DrainTake, DrainUnlock, Deactivate, CloseSignal, Exit
<1>7. CASE Terminated \/ UNCHANGED vars
  BY <1>7 DEF Terminated, vars
<1> QED
  BY <1>1, <1>2, <1>3, <1>4, <1>5, <1>6, <1>7 DEF Next, Caller, Work, Close

(* The mutex of the queue is held by the thread inside it alone, on every  *)
(* path of every thread; no command is lost, repeated or overtaken before  *)
(* the shutdown, and none is left behind with the work thread asleep.      *)
THEOREM QueueCorrect == Spec => []QueueInv
<1>1. Init => QueueInv
  <2> SUFFICES ASSUME Init PROVE QueueInv
    OBVIOUS
  <2>1. OwnerHolds /\ WorkerView
    BY ThreadsDiffer DEF Init, OwnerHolds, WorkerView
  <2>2. NotStranded /\ TakenInOrder
    BY EmptySeq, ConcatEmptySeq DEF Init, NotStranded, TakenInOrder
  <2> QED
    BY <2>1, <2>2 DEF QueueInv
<1>2. TypeOK /\ QueueInv /\ [Next]_vars => QueueInv'
  BY OwnerKept, ViewKept, WakeKept, OrderKept DEF QueueInv
<1> QED
  BY <1>1, <1>2, TypeCorrect, PTL DEF Spec

-----------------------------------------------------------------------------
(* What the shutdown frees is the oldest of what is queued. *)
LEMMA DrainLoses ==
  ASSUME TypeOK, DrainTake
  PROVE  Channel!Lose
<1>1. /\ spc = "drain" /\ work # <<>> /\ work' = Tail(work)
      /\ UNCHANGED <<accepted, started, spc>>
  BY DEF DrainTake, closeVars, history
<1>2. Len(work) \in Nat /\ Len(work) >= 1 /\ work \in Seq(Jobs)
  BY <1>1, EmptySeq, LenProperties DEF TypeOK
<1>3. SubSeq(work, 1, 0) = <<>> /\ Tail(work) = SubSeq(work, 2, Len(work))
  BY <1>1, <1>2, SubSeqEmpty, TailIsSubSeq
<1>4. work' = SubSeq(work, 1, 0) \o SubSeq(work, 2, Len(work))
  <2>1. Tail(work) \in Seq(Jobs)
    BY <1>1, <1>2, HeadTailProperties
  <2> QED
    BY <1>1, <1>3, <2>1, ConcatEmptySeq
<1>5. 0 \in 0 .. Len(work) /\ 2 \in 0 + 1 .. Len(work) + 1
  BY <1>2
<1> QED
  BY <1>1, <1>4, <1>5 DEF Channel!Lose

(* The work queue, with its calls from inside commands, its spurious       *)
(* wake-ups, its full memory and its shutdown in a signal handler,         *)
(* implements one first-in first-out channel that loses commands only      *)
(* while it closes.                                                        *)
THEOREM Refinement == Spec => ImplementsChannel
<1>1. Init => Channel!Init
  BY DEF Init, Channel!Init
<1>2. TypeOK /\ [Next]_vars => [Channel!Next]_(Channel!vars)
  <2> SUFFICES ASSUME TypeOK, [Next]_vars PROVE [Channel!Next]_(Channel!vars)
    OBVIOUS
  <2> USE DEF Channel!vars, flagVars, callVars, closeVars, history
  <2>1. ASSUME NEW c \in Callers, Save(c) PROVE Channel!Next
    <3> DEFINE job == [src |-> c, num |-> calls[c], cmd |-> cmd[c]]
    <3>1. job \in Jobs
      BY <2>1, SavedJob DEF Save, Saved
    <3>2. Channel!Put(job)
      BY <2>1 DEF Save, Saved, Channel!Put
    <3> QED
      BY <3>1, <3>2 DEF Channel!Next
  <2>2. CASE Take
    <3>1. Channel!Deliver
      BY <2>2 DEF Take, Channel!Deliver
    <3> QED
      BY <3>1 DEF Channel!Next
  <2>3. ASSUME NEW c \in Callers,
               (\E k \in Commands : Call(c, k)) \/ Check(c) \/ Lock(c) \/ SaveFails(c) \/ Signal(c)
        PROVE  UNCHANGED Channel!vars
    BY <2>3 DEF Call, Check, Lock, SaveFails, Saved, Signal
  <2>4. CASE WorkLock \/ FindEmpty \/ CondWait \/ FindInactive \/ Return \/ SpuriousWakeup
    BY <2>4 DEF WorkLock, FindEmpty, CondWait, FindInactive, Return, SpuriousWakeup
  <2>5. ASSUME (\E u \in Users : UseDisSet(u)) \/ SetSysState PROVE UNCHANGED Channel!vars
    BY <2>5 DEF UseDisSet, SetSysState
  <2>6. ASSUME NEW t \in Threads, Stop(t) PROVE Channel!Next
    <3>1. Channel!StartClosing
      BY <2>6 DEF Stop, Channel!StartClosing
    <3> QED
      BY <3>1 DEF Channel!Next
  <2>7. CASE DrainTake
    BY <2>7, DrainLoses DEF Channel!Next
  <2>8. CASE DrainLock \/ DrainUnlock \/ Deactivate \/ CloseSignal \/ Exit
    BY <2>8 DEF DrainLock, DrainUnlock, Deactivate, CloseSignal, Exit
  <2>9. CASE Terminated \/ UNCHANGED vars
    BY <2>9 DEF Terminated, vars
  <2> QED
    BY <2>1, <2>2, <2>3, <2>4, <2>5, <2>6, <2>7, <2>8, <2>9 DEF Next, Caller, Work, Close
<1> QED
  BY <1>1, <1>2, TypeCorrect, PTL DEF Spec, ImplementsChannel, Channel!Spec
=============================================================================
