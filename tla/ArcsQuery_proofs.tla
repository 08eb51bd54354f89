--------------------------- MODULE ArcsQuery_proofs ---------------------------
(* Proofs about the queries of ARCS, for any size of the ring, any number  *)
(* of reports to a query and of sequence numbers, and any number of        *)
(* reports made.                                                           *)
EXTENDS ArcsQuery, FiniteSetTheorems, SequenceTheorems, TLAPS

(* The numbers of reports. *)
LEMMA ReportsAreNumbers ==
  /\ Reports \subseteq Nat \ {0} /\ None \notin Reports /\ IsFiniteSet(Reports)
  /\ Cardinality(Reports) = MaxReports /\ MaxReports \in Nat
<1>1. MaxReports \in Nat
  BY ArcsAssumption DEF ArcsAssumption
<1>2. IsFiniteSet(1 .. MaxReports) /\ Cardinality(1 .. MaxReports) = MaxReports
  BY <1>1, FS_Interval
<1> QED
  BY <1>1, <1>2 DEF Reports, None

LEMMA SubsetCount ==
  ASSUME NEW T, IsFiniteSet(T), NEW S, S \subseteq T
  PROVE  /\ IsFiniteSet(S) /\ Cardinality(S) \in Nat /\ Cardinality(T) \in Nat
         /\ Cardinality(S) <= Cardinality(T)
  BY FS_Subset, FS_CardinalityType

(* Two sets that differ in r at most. *)
LEMMA DifferAtOne ==
  ASSUME NEW S, IsFiniteSet(S), NEW T, NEW r, S \ {r} = T \ {r}
  PROVE  /\ IsFiniteSet(T) /\ Cardinality(S) \in Nat /\ Cardinality(T) \in Nat
         /\ r \in S /\ r \notin T => Cardinality(S) = Cardinality(T) + 1
         /\ r \notin S /\ r \in T => Cardinality(T) = Cardinality(S) + 1
         /\ (r \in S <=> r \in T) => Cardinality(S) = Cardinality(T)
<1>1. CASE r \in S <=> r \in T
  <2>1. S = T
    BY <1>1
  <2> QED
    BY <1>1, <2>1, FS_CardinalityType
<1>2. CASE r \in S /\ r \notin T
  <2>1. T = S \ {r} /\ S = T \cup {r}
    BY <1>2
  <2>2. IsFiniteSet(T)
    BY <2>1, FS_RemoveElement
  <2>3. Cardinality(T \cup {r}) = Cardinality(T) + 1
    BY <1>2, <2>2, FS_AddElement
  <2> QED
    BY <1>2, <2>1, <2>2, <2>3, FS_CardinalityType
<1>3. CASE r \notin S /\ r \in T
  <2>1. T = S \cup {r}
    BY <1>3
  <2>2. IsFiniteSet(S \cup {r}) /\ Cardinality(S \cup {r}) = Cardinality(S) + 1
    BY <1>3, FS_AddElement
  <2> QED
    BY <1>3, <2>1, <2>2, FS_CardinalityType
<1> QED
  BY <1>1, <1>2, <1>3

(* A sequence without its first, and with one more. *)
LEMMA TailOf ==
  ASSUME NEW q \in Seq(Reports), q # <<>>
  PROVE  /\ Head(q) = q[1] /\ Head(q) \in Reports /\ 1 \in DOMAIN q
         /\ Tail(q) \in Seq(Reports) /\ Len(Tail(q)) = Len(q) - 1
         /\ \A i \in DOMAIN Tail(q) : /\ i \in Nat \ {0} /\ i + 1 \in DOMAIN q
                                      /\ Tail(q)[i] = q[i + 1]
         /\ \A i \in DOMAIN q \ {1} : i - 1 \in DOMAIN Tail(q) /\ Tail(q)[i - 1] = q[i]
<1>1. Len(q) \in Nat \ {0} /\ DOMAIN q = 1 .. Len(q)
  BY EmptySeq, LenProperties
<1>2. /\ Head(q) = q[1] /\ Tail(q) \in Seq(Reports) /\ Len(Tail(q)) = Len(q) - 1
      /\ \A i \in 1 .. Len(Tail(q)) : Tail(q)[i] = q[i + 1]
  BY HeadTailProperties
<1>3. DOMAIN Tail(q) = 1 .. (Len(q) - 1)
  BY <1>2, LenProperties
<1>4. q[1] \in Reports
  BY <1>1, ElementOfSeq
<1> QED
  BY <1>1, <1>2, <1>3, <1>4

LEMMA AppendTo ==
  ASSUME NEW q \in Seq(Reports), NEW r \in Reports
  PROVE  /\ Append(q, r) \in Seq(Reports) /\ Len(q) \in Nat
         /\ DOMAIN q = 1 .. Len(q) /\ DOMAIN Append(q, r) = 1 .. (Len(q) + 1)
         /\ Append(q, r)[Len(q) + 1] = r
         /\ \A i \in 1 .. Len(q) : Append(q, r)[i] = q[i]
<1>1. Append(q, r) \in Seq(Reports) /\ Len(Append(q, r)) = Len(q) + 1
      /\ Append(q, r)[Len(q) + 1] = r /\ \A i \in 1 .. Len(q) : Append(q, r)[i] = q[i]
  BY AppendProperties
<1> QED
  BY <1>1, LenProperties

-----------------------------------------------------------------------------
(* Types; the bounds of owed, resent and expired come from the accounts.   *)
Types ==
    /\ rgs \in BOOLEAN /\ open \in BOOLEAN /\ finish \in BOOLEAN
    /\ inbox \in {<<>>} \cup {<<m>> : m \in Messages}
    /\ lastSeq \in Seqs /\ asked \in Seqs /\ runs \in Nat
    /\ queue \in Seq(Reports) /\ Len(queue) < QueueSize
    /\ rpc \in {"listen", "match", "report", "mark"}
    /\ {held, last, expiring} \subseteq Reports \cup {None}
    /\ sendq \in Seq(Reports) /\ made \in 0 .. MaxReports
    /\ retried \subseteq inflight /\ inflight \subseteq Reports
    /\ owed \in [Reports -> Nat]
    /\ resent \in Nat /\ expired \in Nat /\ adrift \in BOOLEAN

(* ARCS owes what was written to it. *)
LEMMA WrittenTypes ==
  ASSUME Types, NEW r \in Reports, Written(r)
  PROVE  /\ owed' \in [Reports -> Nat]
         /\ \A q \in Reports \ {r} : owed'[q] = owed[q]
         /\ owed'[r] \in {owed[r], owed[r] + 1}
  BY DEF Types, Written

LEMMA TypesAreTypes ==
  /\ TypeOK => Types
  /\ Types /\ EachTwiceAtMost => TypeOK
<1>1. TypeOK => Types
  BY ReportsAreNumbers DEF TypeOK, Types
<1>2. ASSUME Types, EachTwiceAtMost PROVE TypeOK
  <2>1. Unsent \subseteq Reports
    BY <1>2, ElementOfSeq, LenProperties DEF Unsent, Types
  <2>2. /\ Cardinality(Unsent \cup (inflight \ retried)) \in Nat
        /\ Cardinality(Unsent \cup (inflight \ {expiring})) \in Nat
    BY <1>2, <2>1, ReportsAreNumbers, SubsetCount DEF Types
  <2>3. {resent, expired} \subseteq 0 .. MaxReports
    BY <1>2, <2>2, ReportsAreNumbers DEF EachTwiceAtMost, Types
  <2>4. \A r \in Reports : owed[r] \in 0 .. 2
    BY <1>2 DEF EachTwiceAtMost, Types, Due
  <2>5. owed \in [Reports -> 0 .. 2]
    BY <1>2, <2>4 DEF Types
  <2> QED
    BY <1>2, <2>3, <2>5 DEF Types, TypeOK
<1> QED
  BY <1>1, <1>2

(* Every step keeps the types. *)
LEMMA EnvironmentTypes ==
  ASSUME Types, Environment
  PROVE  Types'
<1>1. CASE BeginRegistration \/ EndRegistration
  BY <1>1 DEF BeginRegistration, EndRegistration, Types, recvVars, listVars, ghosts,
              reportGhosts, requestGhosts
<1>2. CASE PortFails
  BY <1>2 DEF PortFails, Types, recvVars, listVars, ghosts, reportGhosts, requestGhosts
<1>3. ASSUME NEW m \in Messages, Arrive(m)
      PROVE  open' \in BOOLEAN /\ inbox' \in {<<>>} \cup {<<n>> : n \in Messages}
  BY <1>3 DEF Arrive, Types
<1>4. ASSUME NEW r \in Reports, ArriveAnswer(r) PROVE Types'
  <2>1. open' \in BOOLEAN /\ inbox' \in {<<>>} \cup {<<n>> : n \in Messages}
    BY <1>3, <1>4 DEF ArriveAnswer, Messages
  <2>2. owed' \in [Reports -> Nat]
    BY <1>4 DEF ArriveAnswer, Types
  <2> QED
    BY <1>4, <2>1, <2>2 DEF ArriveAnswer, Types, recvVars, listVars, ghosts,
                            reportGhosts, requestGhosts
<1>5. ASSUME NEW m \in Messages, ArriveRequest(m) PROVE Types'
  <2>1. open' \in BOOLEAN /\ inbox' \in {<<>>} \cup {<<n>> : n \in Messages}
    BY <1>3, <1>5 DEF ArriveRequest
  <2> QED
    BY <1>5, <2>1 DEF ArriveRequest, Types, recvVars, listVars, ghosts,
                      reportGhosts, requestGhosts
<1>6. \A s \in Seqs : Query(s) \in Messages /\ Command(s) \in Messages
  BY DEF Messages
<1> QED
  BY <1>1, <1>2, <1>4, <1>5, <1>6 DEF Environment

LEMMA TurnTypes ==
  ASSUME Types, Turn
  PROVE  Types'
<1>1. CASE NoMessage
  BY <1>1 DEF NoMessage, Types, listVars, ghosts, reportGhosts, requestGhosts
<1>2. ASSUME NEW r \in Reports, TakeAnswer(r) PROVE Types'
  <2>1. inbox' = <<>> /\ finish' = FALSE /\ held' = r /\ rpc' = "match"
    BY <1>2 DEF TakeAnswer, Take
  <2> QED
    BY <1>2, <2>1 DEF TakeAnswer, Types, listVars, ghosts, reportGhosts, requestGhosts
<1>3. ASSUME NEW s \in Seqs, NEW ran \in Nat, Remember(s, ran) PROVE asked' \in Seqs /\ runs' \in Nat
  BY <1>3 DEF Remember, Types
<1>4. ASSUME NEW s \in Seqs, TakeQuery(s) PROVE Types'
  <2>1. /\ inbox' = <<>> /\ rpc' = "report"
        /\ UNCHANGED <<rgs, open, finish, held, sendq, listVars, owed, reportGhosts>>
    BY <1>4 DEF TakeQuery, Take
  <2>2. lastSeq' \in Seqs /\ asked' \in Seqs /\ runs' \in Nat
    <3>1. lastSeq' \in Seqs /\ (Remember(s, 0) \/ Remember(s, 1))
      BY <1>4 DEF TakeQuery, Repeated, Refused, Accepted, Types
    <3> QED
      BY <1>3, <3>1
  <2>3. queue' \in Seq(Reports) /\ Len(queue') < QueueSize /\ made' \in 0 .. MaxReports
    <3>1. CASE Repeated(s) \/ Refused(s)
      BY <3>1 DEF Repeated, Refused, Types
    <3>2. CASE Accepted(s)
      <4>0. PICK n \in 0 .. Batch : \E k \in 0 .. n :
               /\ k < QueueSize /\ made + n <= MaxReports /\ made' = made + n
               /\ queue' = [i \in 1 .. k |-> made + i]
        BY <3>2 DEF Accepted
      <4>1. PICK k \in 0 .. n :
               /\ k < QueueSize /\ made + n <= MaxReports /\ made' = made + n
               /\ queue' = [i \in 1 .. k |-> made + i]
        BY <4>0
      <4>2. n \in Nat /\ k \in Nat /\ k <= n /\ made \in Nat
        BY <4>1, ArcsAssumption DEF ArcsAssumption, Types
      <4>3. \A i \in 1 .. k : made + i \in Reports
        BY <4>1, <4>2, ArcsAssumption DEF Reports, ArcsAssumption
      <4>4. queue' \in Seq(Reports)
        BY <4>1, <4>2, <4>3, SeqDef
      <4>5. Len(queue') = k
        BY <4>1, <4>2, <4>4, LenProperties
      <4> QED
        BY <4>1, <4>2, <4>4, <4>5, ReportsAreNumbers
    <3> QED
      BY <1>4, <3>1, <3>2 DEF TakeQuery
  <2> QED
    BY <2>1, <2>2, <2>3 DEF Types, listVars, reportGhosts
<1>5. ASSUME NEW s \in Seqs, TakeCommand(s) PROVE Types'
  <2>1. /\ inbox' = <<>> /\ rpc' = "report" /\ lastSeq' = s
        /\ UNCHANGED <<rgs, open, queue, finish, held, sendq, listVars, owed, made, reportGhosts>>
        /\ (Remember(s, 0) \/ Remember(s, 1))
    BY <1>5 DEF TakeCommand, Take
  <2>2. asked' \in Seqs /\ runs' \in Nat
    BY <1>3, <2>1
  <2> QED
    BY <2>1, <2>2 DEF Types, listVars, reportGhosts
<1> QED
  BY <1>1, <1>2, <1>4, <1>5 DEF Turn

LEMMA RestTypes ==
  ASSUME Types, RestOfTurn
  PROVE  Types'
<1>1. CASE MatchAnswer
  BY <1>1 DEF MatchAnswer, Types, ghosts, reportGhosts, requestGhosts
<1>2. CASE NoReport
  BY <1>2 DEF NoReport, Types, listVars, ghosts, reportGhosts, requestGhosts
<1>3. ASSUME Pop
      PROVE  /\ Head(queue) \in Reports /\ held' = Head(queue) /\ last' = Head(queue)
             /\ queue' \in Seq(Reports) /\ Len(queue') < QueueSize
  BY <1>3, TailOf, LenProperties, ArcsAssumption DEF Pop, Types, ArcsAssumption
<1>4. CASE ReportSaved
  <2>1. sendq' \in Seq(Reports)
    BY <1>3, <1>4, AppendTo DEF ReportSaved, Types
  <2> QED
    BY <1>3, <1>4, <2>1 DEF ReportSaved, Pop, Types, listVars, requestGhosts
<1>5. CASE ReportLost
  BY <1>3, <1>5 DEF ReportLost, Pop, Types, listVars, requestGhosts
<1>6. CASE Mark
  BY <1>6 DEF Mark, Types, listVars, ghosts, reportGhosts, requestGhosts
<1> QED
  BY <1>1, <1>2, <1>4, <1>5, <1>6 DEF RestOfTurn

LEMMA OtherTypes ==
  ASSUME Types, SendThread \/ TimerElapses \/ Remove
  PROVE  Types'
<1>1. CASE SendTracked
  <2>1. Head(sendq) \in Reports /\ sendq' \in Seq(Reports)
    BY <1>1, TailOf DEF SendTracked, Types
  <2>2. owed' \in [Reports -> Nat]
    BY <1>1, <2>1, WrittenTypes DEF SendTracked
  <2> QED
    BY <1>1, <2>1, <2>2 DEF SendTracked, Types, recvVars, ghosts, reportGhosts, requestGhosts
<1>2. CASE SendFails
  <2>1. sendq' \in Seq(Reports) /\ adrift' \in BOOLEAN
    BY <1>2, TailOf DEF SendFails, Types
  <2> QED
    BY <1>2, <2>1 DEF SendFails, Types, recvVars, listVars, requestGhosts
<1>3. ASSUME NEW r \in Reports, Resend(r) PROVE Types'
  <2>1. owed' \in [Reports -> Nat]
    BY <1>3, WrittenTypes DEF Resend
  <2> QED
    BY <1>3, <2>1 DEF Resend, Types, recvVars, requestGhosts
<1>4. ASSUME NEW r \in Reports, Expire(r) PROVE Types'
  <2>1. adrift' \in BOOLEAN /\ finish' \in BOOLEAN
    BY <1>4 DEF Expire
  <2>2. /\ expiring' = r /\ expired' = expired + 1
        /\ UNCHANGED <<rgs, open, inbox, lastSeq, queue, rpc, held, sendq, inflight, retried, owed,
                       made, last, resent, asked, runs>>
    BY <1>4 DEF Expire, requestGhosts
  <2> QED
    BY <2>1, <2>2 DEF Types
<1>5. CASE Remove
  BY <1>5 DEF Remove, Types, recvVars, ghosts, reportGhosts, requestGhosts
<1> QED
  BY <1>1, <1>2, <1>3, <1>4, <1>5 DEF SendThread, TimerElapses

LEMMA TypesStep ==
  ASSUME Types, [Next]_vars
  PROVE  Types'
<1>1. CASE UNCHANGED vars
  BY <1>1 DEF Types, vars, recvVars, listVars, ghosts, reportGhosts, requestGhosts
<1> QED
  BY <1>1, EnvironmentTypes, TurnTypes, RestTypes, OtherTypes DEF Next, ReceiveThread

-----------------------------------------------------------------------------
(* A request runs once: the sequence number that is remembered is that of  *)
(* the request taken last.                                                 *)
Remembered == asked = lastSeq /\ runs \in {0, 1}

LEMMA RememberedStep ==
  ASSUME Remembered, [Next]_vars
  PROVE  Remembered'
<1>1. ASSUME NEW s \in Seqs, TakeQuery(s) PROVE Remembered'
  <2>1. lastSeq' = s /\ (Remember(s, 0) \/ (s # lastSeq /\ Remember(s, 1)))
    BY <1>1 DEF TakeQuery, Repeated, Refused, Accepted
  <2> QED
    BY <2>1 DEF Remember, Remembered
<1>2. ASSUME NEW s \in Seqs, TakeCommand(s) PROVE Remembered'
  BY <1>2 DEF TakeCommand, Remember, Remembered
<1>3. CASE UNCHANGED <<lastSeq, asked, runs>>
  BY <1>3 DEF Remembered
<1>4. CASE \/ Environment \/ NoMessage \/ (\E r \in Reports : TakeAnswer(r)) \/ RestOfTurn
           \/ SendThread \/ TimerElapses \/ Remove \/ UNCHANGED vars
  <2>1. UNCHANGED <<lastSeq, asked, runs>>
    BY <1>4 DEF Environment, BeginRegistration, EndRegistration, PortFails, ArriveAnswer,
                ArriveRequest, NoMessage, TakeAnswer, RestOfTurn, MatchAnswer, NoReport,
                ReportSaved, ReportLost, Mark, SendThread, SendTracked, SendFails,
                TimerElapses, Resend, Expire, Remove, Pop, vars, recvVars, ghosts, requestGhosts
  <2> QED
    BY <1>3, <2>1
<1> QED
  BY <1>1, <1>2, <1>4 DEF Next, ReceiveThread, Turn

(* A request that ARCS repeats because its acknowledgement got lost does   *)
(* not run again (RunsOnce).                                               *)
THEOREM RunsOnceCorrect == Spec => []RunsOnce
<1>1. Init => Remembered
  BY DEF Init, Remembered
<1>2. Remembered /\ [Next]_vars => Remembered'
  BY RememberedStep
<1>3. Remembered => RunsOnce
  BY DEF Remembered, RunsOnce
<1> QED
  BY <1>1, <1>2, <1>3, PTL DEF Spec

-----------------------------------------------------------------------------
(* Reports go out in the order of their numbers. *)
InSendq == {sendq[i] : i \in DOMAIN sendq}

LEMMA NumberTypes ==
  ASSUME Types
  PROVE  last \in Nat /\ held \in Nat /\ expiring \in Nat /\ made \in Nat
<1>1. last \in Reports \cup {None} /\ held \in Reports \cup {None} /\ expiring \in Reports \cup {None}
  BY DEF Types
<1>2. Reports \cup {None} \subseteq Nat
  BY ReportsAreNumbers DEF None
<1>3. made \in Nat
  BY ReportsAreNumbers DEF Types
<1> QED
  BY <1>1, <1>2, <1>3

LEMMA SendqTypes ==
  ASSUME Types
  PROVE  InSendq \subseteq Reports /\ Unsent \subseteq Reports /\ DOMAIN sendq = 1 .. Len(sendq)
<1>1. DOMAIN sendq = 1 .. Len(sendq)
  BY LenProperties DEF Types
<1>2. InSendq \subseteq Reports
  BY <1>1, ElementOfSeq DEF Types, InSendq
<1> QED
  BY <1>1, <1>2 DEF Unsent, InSendq

LEMMA SendqLosesFirst ==
  ASSUME Types, OnceInOrder, sendq # <<>>, sendq' = Tail(sendq)
  PROVE  /\ Head(sendq) \in InSendq /\ Head(sendq) \in Reports
         /\ Head(sendq) <= last /\ Head(sendq) \notin inflight
         /\ InSendq' = InSendq \ {Head(sendq)}
<1> DEFINE q == Tail(sendq)
<1>1. /\ Head(sendq) = sendq[1] /\ Head(sendq) \in Reports /\ 1 \in DOMAIN sendq
      /\ \A i \in DOMAIN q : i \in Nat \ {0} /\ i + 1 \in DOMAIN sendq /\ q[i] = sendq[i + 1]
      /\ \A i \in DOMAIN sendq \ {1} : i - 1 \in DOMAIN q /\ q[i - 1] = sendq[i]
  BY TailOf DEF Types
<1>2. \A i \in DOMAIN sendq : sendq[i] \in Nat
  BY SendqTypes, ReportsAreNumbers DEF InSendq
<1>3. \A i \in DOMAIN sendq \ {1} : sendq[i] # sendq[1]
  <2>1. ASSUME NEW i \in DOMAIN sendq \ {1} PROVE sendq[i] # sendq[1]
    <3>1. 1 \in 1 .. (i - 1)
      BY SendqTypes
    <3>2. sendq[1] < sendq[i]
      BY <3>1 DEF OnceInOrder
    <3> QED
      BY <1>1, <1>2, <3>2
  <2> QED
    BY <2>1
<1>4. \A r \in inflight : r < sendq[1] /\ r \in Nat
  BY <1>1, ReportsAreNumbers DEF OnceInOrder, Types
<1>5. sendq[1] \notin inflight
  BY <1>1, <1>2, <1>4
<1>6. InSendq' = {q[i] : i \in DOMAIN q}
  BY DEF InSendq
<1> HIDE DEF q
<1>7. {q[i] : i \in DOMAIN q} \subseteq InSendq \ {sendq[1]}
  <2>1. ASSUME NEW i \in DOMAIN q PROVE q[i] \in InSendq \ {sendq[1]}
    <3>1. i + 1 \in DOMAIN sendq \ {1} /\ q[i] = sendq[i + 1]
      BY <1>1
    <3> QED
      BY <1>3, <3>1 DEF InSendq
  <2> QED
    BY <2>1
<1>8. InSendq \ {sendq[1]} \subseteq {q[i] : i \in DOMAIN q}
  <2>1. ASSUME NEW i \in DOMAIN sendq, sendq[i] # sendq[1]
        PROVE  \E j \in DOMAIN q : q[j] = sendq[i]
    BY <1>1, <2>1
  <2> QED
    BY <2>1 DEF InSendq
<1> QED
  BY <1>1, <1>5, <1>6, <1>7, <1>8 DEF InSendq, OnceInOrder

LEMMA SendqGetsOne ==
  ASSUME Types, NEW r \in Reports, sendq' = Append(sendq, r)
  PROVE  InSendq' = InSendq \cup {r}
<1> DEFINE q == Append(sendq, r)
           n == Len(sendq)
<1>1. /\ n \in Nat /\ DOMAIN sendq = 1 .. n /\ DOMAIN q = 1 .. (n + 1)
      /\ q[n + 1] = r /\ \A i \in 1 .. n : q[i] = sendq[i]
  BY AppendTo DEF Types
<1>2. InSendq' = {q[i] : i \in DOMAIN q}
  BY DEF InSendq
<1> HIDE DEF q, n
<1>3. \A i \in 1 .. (n + 1) : i \in 1 .. n \/ i = n + 1
  BY <1>1
<1>4. n + 1 \in 1 .. (n + 1) /\ \A i \in 1 .. n : i \in 1 .. (n + 1)
  BY <1>1
<1> QED
  BY <1>1, <1>2, <1>3, <1>4 DEF InSendq

(* The next report has a number above all that were sent. *)
LEMMA PopOrder ==
  ASSUME Types, OnceInOrder, Pop
  PROVE  /\ Head(queue) \in Reports /\ last < Head(queue) /\ Head(queue) <= made
         /\ \A i \in DOMAIN queue' : /\ Head(queue) < queue'[i] /\ queue'[i] <= made
                                     /\ \A j \in 1 .. (i - 1) : queue'[j] < queue'[i]
<1>1. queue # <<>> /\ queue' = Tail(queue)
  BY DEF Pop
<1> DEFINE q == Tail(queue)
<1>2. /\ Head(queue) = queue[1] /\ Head(queue) \in Reports /\ 1 \in DOMAIN queue
      /\ \A i \in DOMAIN q : i \in Nat \ {0} /\ i + 1 \in DOMAIN queue /\ q[i] = queue[i + 1]
      /\ q \in Seq(Reports)
  BY <1>1, TailOf DEF Types
<1>3. DOMAIN q = 1 .. Len(q)
  BY <1>2, LenProperties
<1> HIDE DEF q
<1>4. ASSUME NEW i \in DOMAIN q
      PROVE  /\ Head(queue) < q[i] /\ q[i] <= made
             /\ \A j \in 1 .. (i - 1) : q[j] < q[i]
  <2>1. i \in Nat \ {0} /\ i + 1 \in DOMAIN queue /\ q[i] = queue[i + 1]
    BY <1>2
  <2>2. 1 \in 1 .. (i + 1 - 1)
    BY <2>1
  <2>3. queue[1] < queue[i + 1] /\ queue[i + 1] <= made
    BY <2>1, <2>2 DEF OnceInOrder
  <2>4. ASSUME NEW j \in 1 .. (i - 1) PROVE q[j] < q[i]
    <3>1. j \in DOMAIN q /\ j + 1 \in 1 .. (i + 1 - 1)
      BY <1>3, <2>1
    <3>2. q[j] = queue[j + 1] /\ queue[j + 1] < queue[i + 1]
      BY <1>2, <2>1, <3>1 DEF OnceInOrder
    <3> QED
      BY <2>1, <3>2
  <2> QED
    BY <1>2, <2>1, <2>3, <2>4
<1> QED
  BY <1>1, <1>2, <1>4 DEF OnceInOrder, q

LEMMA OrderStep ==
  ASSUME Types, OnceInOrder, [Next]_vars
  PROVE  OnceInOrder'
<1>1. \A r \in inflight : r \in Nat
  BY ReportsAreNumbers DEF Types
<1>2. CASE UNCHANGED <<made, last, queue, sendq>> /\ inflight' \subseteq inflight
  BY <1>2 DEF OnceInOrder
<1>3. ASSUME NEW s \in Seqs, TakeQuery(s) PROVE OnceInOrder'
  <2>0. UNCHANGED <<last, sendq, inflight>>
    BY <1>3 DEF TakeQuery, listVars, reportGhosts
  <2>1. CASE Repeated(s) \/ Refused(s)
    BY <1>2, <2>0, <2>1 DEF Repeated, Refused
  <2>2. CASE Accepted(s)
    <3>0. PICK n \in 0 .. Batch : \E k \in 0 .. n :
             made' = made + n /\ queue' = [i \in 1 .. k |-> made + i]
      BY <2>2 DEF Accepted
    <3>1. PICK k \in 0 .. n : made' = made + n /\ queue' = [i \in 1 .. k |-> made + i]
      BY <3>0
    <3>2. /\ n \in Nat /\ k \in Nat /\ k <= n /\ made \in Nat /\ last \in Nat /\ last <= made
      BY ArcsAssumption, NumberTypes DEF ArcsAssumption, OnceInOrder
    <3>3. last <= made'
      BY <3>1, <3>2
    <3>4. ASSUME NEW i \in DOMAIN queue'
          PROVE  /\ last < queue'[i] /\ queue'[i] <= made'
                 /\ \A j \in 1 .. (i - 1) : queue'[j] < queue'[i]
      <4>1. i \in 1 .. k /\ queue'[i] = made + i
        BY <3>1
      <4>2. \A j \in 1 .. (i - 1) : j \in 1 .. k /\ queue'[j] = made + j
        BY <3>1, <3>2, <4>1
      <4> QED
        BY <3>1, <3>2, <4>1, <4>2
    <3> QED
      BY <2>0, <3>3, <3>4 DEF OnceInOrder
  <2> QED
    BY <1>3, <2>1, <2>2 DEF TakeQuery
<1>4. CASE Pop /\ UNCHANGED <<made, sendq, inflight>>
  <2>1. last' = Head(queue) /\ last \in Nat /\ Head(queue) \in Nat /\ last < Head(queue)
    <3>1. last' = Head(queue)
      BY <1>4 DEF Pop
    <3> QED
      BY <1>4, <3>1, PopOrder, NumberTypes, ReportsAreNumbers
  <2>2. \A i \in DOMAIN sendq : sendq[i] \in Nat
    BY SendqTypes, ReportsAreNumbers DEF InSendq
  <2> QED
    BY <1>1, <1>4, <2>1, <2>2, PopOrder DEF OnceInOrder
<1>5. CASE ReportSaved
  <2>1. /\ last' = Head(queue) /\ last \in Nat /\ Head(queue) \in Nat /\ last < Head(queue)
        /\ Head(queue) \in Reports /\ sendq' = Append(sendq, Head(queue))
        /\ UNCHANGED <<made, inflight>>
    <3>1. Pop
      BY <1>5 DEF ReportSaved
    <3>2. last' = Head(queue)
      BY <3>1 DEF Pop
    <3>3. sendq' = Append(sendq, Head(queue)) /\ UNCHANGED <<made, inflight>>
      BY <1>5 DEF ReportSaved, listVars
    <3> QED
      BY <3>1, <3>2, <3>3, PopOrder, NumberTypes, ReportsAreNumbers
  <2> DEFINE q == Append(sendq, Head(queue))
             n == Len(sendq)
  <2>2. /\ n \in Nat /\ DOMAIN sendq = 1 .. n /\ DOMAIN q = 1 .. (n + 1)
        /\ q[n + 1] = Head(queue) /\ \A i \in 1 .. n : q[i] = sendq[i]
    BY <2>1, AppendTo DEF Types
  <2>3. \A i \in DOMAIN sendq : sendq[i] \in Nat
    BY SendqTypes, ReportsAreNumbers DEF InSendq
  <2> HIDE DEF q, n
  <2>4. ASSUME NEW i \in DOMAIN q
        PROVE  /\ q[i] <= last' /\ \A j \in 1 .. (i - 1) : q[j] < q[i]
               /\ \A r \in inflight : r < q[i]
    <3>1. CASE i = n + 1
      <4>1. \A j \in 1 .. (i - 1) : q[j] = sendq[j] /\ sendq[j] <= last /\ sendq[j] \in Nat
        BY <2>2, <2>3, <3>1 DEF OnceInOrder
      <4> QED
        BY <1>1, <2>1, <2>2, <3>1, <4>1 DEF OnceInOrder
    <3>2. CASE i \in 1 .. n
      <4>1. /\ q[i] = sendq[i] /\ sendq[i] <= last /\ sendq[i] \in Nat
            /\ \A j \in 1 .. (i - 1) : sendq[j] < sendq[i]
            /\ \A r \in inflight : r < sendq[i]
        BY <2>2, <2>3, <3>2 DEF OnceInOrder
      <4>2. \A j \in 1 .. (i - 1) : q[j] = sendq[j]
        BY <2>2, <3>2
      <4> QED
        BY <2>1, <4>1, <4>2
    <3> QED
      BY <2>2, <3>1, <3>2
  <2>5. \A r \in inflight' : r <= last'
    BY <1>1, <2>1 DEF OnceInOrder
  <2>6. sendq' = q /\ Pop
    BY <1>5, <2>1 DEF ReportSaved, q
  <2>7. last' <= made' /\ \A i \in DOMAIN queue' :
           /\ last' < queue'[i] /\ queue'[i] <= made'
           /\ \A j \in 1 .. (i - 1) : queue'[j] < queue'[i]
    BY <2>1, <2>6, PopOrder
  <2>8. \A i \in DOMAIN sendq' : /\ sendq'[i] <= last'
                                 /\ \A j \in 1 .. (i - 1) : sendq'[j] < sendq'[i]
                                 /\ \A r \in inflight' : r < sendq'[i]
    BY <2>1, <2>4, <2>6
  <2> QED
    BY <2>5, <2>7, <2>8 DEF OnceInOrder
<1>6. CASE /\ sendq # <<>> /\ sendq' = Tail(sendq)
           /\ UNCHANGED <<made, last, queue>> /\ inflight' \subseteq inflight \cup {Head(sendq)}
  <2> DEFINE q == Tail(sendq)
  <2>1. /\ Head(sendq) = sendq[1] /\ 1 \in DOMAIN sendq
        /\ \A i \in DOMAIN q : i \in Nat \ {0} /\ i + 1 \in DOMAIN sendq /\ q[i] = sendq[i + 1]
        /\ q \in Seq(Reports)
    BY <1>6, TailOf DEF Types
  <2>2. DOMAIN q = 1 .. Len(q)
    BY <2>1, LenProperties
  <2> HIDE DEF q
  <2>3. ASSUME NEW i \in DOMAIN q
        PROVE  /\ q[i] <= last /\ \A j \in 1 .. (i - 1) : q[j] < q[i]
               /\ \A r \in inflight \cup {sendq[1]} : r < q[i]
    <3>1. i \in Nat \ {0} /\ i + 1 \in DOMAIN sendq /\ q[i] = sendq[i + 1]
      BY <2>1
    <3>2. \A j \in 1 .. (i - 1) : j \in DOMAIN q /\ j + 1 \in 1 .. (i + 1 - 1)
      BY <2>2, <3>1
    <3>3. \A j \in 1 .. (i - 1) : q[j] < q[i]
      BY <2>1, <3>1, <3>2 DEF OnceInOrder
    <3>4. 1 \in 1 .. (i + 1 - 1)
      BY <3>1
    <3> QED
      BY <3>1, <3>3, <3>4 DEF OnceInOrder
  <2>4. \A r \in inflight' : r <= last'
    BY <1>6, <2>1 DEF OnceInOrder
  <2>5. sendq' = q
    BY <1>6 DEF q
  <2>6. \A i \in DOMAIN sendq' : /\ sendq'[i] <= last'
                                 /\ \A j \in 1 .. (i - 1) : sendq'[j] < sendq'[i]
                                 /\ \A r \in inflight' : r < sendq'[i]
    BY <1>6, <2>1, <2>3, <2>5
  <2> QED
    BY <1>6, <2>4, <2>6 DEF OnceInOrder
<1>7. CASE ReportLost
  BY <1>4, <1>7 DEF ReportLost, listVars
<1>8. CASE SendThread
  BY <1>6, <1>8 DEF SendThread, SendTracked, SendFails, recvVars, listVars, ghosts, reportGhosts
<1>9. CASE \/ Environment \/ NoMessage \/ (\E r \in Reports : TakeAnswer(r))
           \/ (\E s \in Seqs : TakeCommand(s)) \/ MatchAnswer \/ NoReport \/ Mark
           \/ TimerElapses \/ Remove \/ UNCHANGED vars
  <2>1. UNCHANGED <<made, last, queue, sendq>> /\ inflight' \subseteq inflight
    BY <1>9 DEF Environment, BeginRegistration, EndRegistration, PortFails, ArriveAnswer,
                ArriveRequest, NoMessage, TakeAnswer, TakeCommand, MatchAnswer, NoReport,
                Mark, TimerElapses, Resend, Expire, Remove, vars, recvVars, listVars, ghosts,
                reportGhosts
  <2> QED
    BY <1>2, <2>1
<1> QED
  BY <1>3, <1>5, <1>7, <1>8, <1>9 DEF Next, ReceiveThread, Turn, RestOfTurn

-----------------------------------------------------------------------------
(* The answers to come. *)
LEMMA InboxApart ==
  ASSUME NEW r, NEW q
  PROVE  /\ <<Answer(r)>> = <<Answer(q)>> => r = q
         /\ <<Answer(r)>> # <<>>
         /\ <<Answer(r)>> # <<Query(q)>> /\ <<Answer(r)>> # <<Command(q)>>
<1>1. Answer(r) = Answer(q) => r = q
  BY DEF Answer
<1>2. Answer(r) # Query(q) /\ Answer(r) # Command(q)
  <2>1. Answer(r).kind = "answer" /\ Query(q).kind = "query" /\ Command(q).kind = "command"
    BY DEF Answer, Query, Command
  <2> QED
    BY <2>1
<1> QED
  BY <1>1, <1>2

LEMMA DueTypes ==
  ASSUME Types, NEW r \in Reports
  PROVE  owed[r] \in Nat /\ Due(r) \in Nat /\ Due(r) = owed[r] + (IF inbox = <<Answer(r)>> THEN 1 ELSE 0)
  BY DEF Types, Due

(* An answer that arrives is no longer owed; it may get lost on the way,   *)
(* and another with it.                                                    *)
LEMMA DueArrives ==
  ASSUME Types, Environment
  PROVE  \A q \in Reports : Due(q)' \in Nat /\ Due(q)' <= Due(q)
<1>1. Types'
  BY EnvironmentTypes
<1>2. CASE UNCHANGED <<owed, inbox>>
  BY <1>2, DueTypes DEF Due
<1>3. ASSUME NEW r \in Reports, ArriveAnswer(r), NEW q \in Reports
      PROVE  Due(q)' \in Nat /\ Due(q)' <= Due(q)
  <2>1. /\ owed[r] > 0 /\ owed'[r] = owed[r] - 1 /\ owed[r] \in Nat
        /\ q # r => owed'[q] = owed[q]
    BY <1>3 DEF ArriveAnswer, Types
  <2>2. inbox' = inbox \/ inbox' = <<>> \/ (inbox = <<>> /\ inbox' = <<Answer(r)>>)
    BY <1>3 DEF ArriveAnswer, Arrive
  <2>3. inbox' = <<Answer(q)>> => inbox = <<Answer(q)>> \/ (q = r /\ inbox = <<>>)
    BY <2>2, InboxApart
  <2>4. <<Answer(q)>> # <<>>
    BY InboxApart
  <2>5. /\ Due(q)' = owed'[q] + (IF inbox' = <<Answer(q)>> THEN 1 ELSE 0)
        /\ Due(q) = owed[q] + (IF inbox = <<Answer(q)>> THEN 1 ELSE 0)
        /\ owed[q] \in Nat
    BY DueTypes DEF Due
  <2> QED
    BY <2>1, <2>3, <2>4, <2>5
<1>4. ASSUME NEW m \in Messages, ArriveRequest(m), NEW q \in Reports, <<m>> # <<Answer(q)>>
      PROVE  Due(q)' \in Nat /\ Due(q)' <= Due(q)
  <2>1. owed' = owed /\ (inbox' = inbox \/ inbox' = <<>> \/ inbox' = <<m>>)
    BY <1>4 DEF ArriveRequest, Arrive
  <2>2. inbox' = <<Answer(q)>> => inbox = <<Answer(q)>>
    BY <1>4, <2>1, InboxApart
  <2>3. /\ Due(q)' = owed'[q] + (IF inbox' = <<Answer(q)>> THEN 1 ELSE 0)
        /\ Due(q) = owed[q] + (IF inbox = <<Answer(q)>> THEN 1 ELSE 0)
        /\ owed[q] \in Nat
    BY DueTypes DEF Due
  <2> QED
    BY <2>1, <2>2, <2>3
<1>5. ASSUME NEW s \in Seqs, ArriveRequest(Query(s)) \/ ArriveRequest(Command(s)),
             NEW q \in Reports
      PROVE  Due(q)' \in Nat /\ Due(q)' <= Due(q)
  <2>1. Query(s) \in Messages /\ Command(s) \in Messages
    BY DEF Messages
  <2> QED
    BY <1>4, <1>5, <2>1, InboxApart
<1> QED
  BY <1>2, <1>3, <1>5 DEF Environment, BeginRegistration, EndRegistration, PortFails

(* Taking an answer takes one from what is due. *)
LEMMA DueTaken ==
  ASSUME Types, Turn
  PROVE  /\ (\E r \in Reports : TakeAnswer(r)) \/ \A q \in Reports : Due(q)' = Due(q)
         /\ \A r \in Reports : TakeAnswer(r) =>
               /\ Due(r) > 0 /\ Due(r)' = Due(r) - 1
               /\ \A q \in Reports \ {r} : Due(q)' = Due(q)
<1>1. ASSUME NoMessage PROVE \A q \in Reports : Due(q)' = Due(q)
  BY <1>1 DEF NoMessage, Due
<1>2. ASSUME NEW r \in Reports, TakeAnswer(r)
      PROVE  /\ Due(r) > 0 /\ Due(r)' = Due(r) - 1
             /\ \A q \in Reports \ {r} : Due(q)' = Due(q)
  <2>1. inbox = <<Answer(r)>> /\ inbox' = <<>> /\ owed' = owed
    BY <1>2 DEF TakeAnswer, Take
  <2>2. inbox' # <<Answer(r)>> /\ \A q \in Reports \ {r} : inbox # <<Answer(q)>> /\ inbox' # <<Answer(q)>>
    BY <2>1, InboxApart
  <2> QED
    BY <2>1, <2>2, DueTypes DEF Due
<1>3. ASSUME NEW s \in Seqs, TakeQuery(s) \/ TakeCommand(s)
      PROVE  \A q \in Reports : Due(q)' = Due(q)
  <2>1. (inbox = <<Query(s)>> \/ inbox = <<Command(s)>>) /\ inbox' = <<>> /\ owed' = owed
    BY <1>3 DEF TakeQuery, TakeCommand, Take
  <2>2. \A q \in Reports : inbox # <<Answer(q)>> /\ inbox' # <<Answer(q)>>
    BY <2>1, InboxApart
  <2> QED
    BY <2>1, <2>2 DEF Due
<1> QED
  BY <1>1, <1>2, <1>3 DEF Turn

(* Sending a report puts at most one more answer to what is due. *)
LEMMA DueWritten ==
  ASSUME Types, NEW r \in Reports, Written(r), inbox' = inbox
  PROVE  /\ Due(r)' \in {Due(r), Due(r) + 1}
         /\ \A q \in Reports \ {r} : Due(q)' = Due(q)
<1>1. /\ owed' \in [Reports -> Nat] /\ owed'[r] \in {owed[r], owed[r] + 1}
      /\ \A q \in Reports \ {r} : owed'[q] = owed[q]
  BY WrittenTypes
<1> QED
  BY <1>1, DueTypes DEF Due

-----------------------------------------------------------------------------
(* Each report is sent again, expires and is answered no more often than   *)
(* it may.                                                                 *)
LEMMA InflightApart ==
  ASSUME Types, OnceInOrder, NEW r \in inflight
  PROVE  r \notin Unsent /\ r \notin InSendq /\ r \in Reports
<1>1. r \in Reports /\ r \in Nat /\ r <= last /\ last \in Nat
  BY NumberTypes, ReportsAreNumbers DEF Types, OnceInOrder
<1>2. \A i \in DOMAIN sendq : sendq[i] \in Nat /\ r < sendq[i]
  BY SendqTypes, ReportsAreNumbers DEF OnceInOrder, InSendq
<1>3. r \notin InSendq
  BY <1>1, <1>2 DEF InSendq
<1> QED
  BY <1>1, <1>3 DEF Unsent, InSendq

LEMMA TwiceShrinks ==
  ASSUME Types, EachTwiceAtMost, Unsent' \subseteq Unsent,
         inflight' \ retried' \subseteq inflight \ retried,
         inflight' \ {expiring'} \subseteq inflight \ {expiring},
         UNCHANGED <<resent, expired>>,
         \A q \in Reports : Due(q)' \in Nat /\ Due(q)' <= Due(q)
  PROVE  EachTwiceAtMost'
<1> DEFINE A == Unsent \cup (inflight \ retried)
           B == Unsent \cup (inflight \ {expiring})
<1>1. IsFiniteSet(A) /\ IsFiniteSet(B)
  BY SendqTypes, ReportsAreNumbers, SubsetCount DEF Types
<1>2. A' \subseteq A /\ B' \subseteq B
  OBVIOUS
<1>3. resent + Cardinality(A) <= MaxReports /\ expired + Cardinality(B) <= MaxReports
  BY DEF EachTwiceAtMost
<1>4. \A q \in Reports : /\ q \in Unsent => Due(q) = 0
                         /\ q \in inflight \ retried => Due(q) <= 1
                         /\ Due(q) <= 2 /\ Due(q) \in Nat
  BY DueTypes DEF EachTwiceAtMost
<1>5. \A q \in Reports : /\ q \in Unsent' => Due(q)' = 0
                         /\ q \in inflight' \ retried' => Due(q)' <= 1
                         /\ Due(q)' <= 2
  <2>1. ASSUME NEW q \in Reports
        PROVE  /\ q \in Unsent' => Due(q)' = 0
               /\ q \in inflight' \ retried' => Due(q)' <= 1
               /\ Due(q)' <= 2
    <3>1. Due(q)' \in Nat /\ Due(q)' <= Due(q) /\ Due(q) \in Nat
      BY <1>4
    <3> QED
      BY <1>4, <3>1
  <2> QED
    BY <2>1
<1> HIDE DEF A, B
<1>6. /\ Cardinality(A) \in Nat /\ Cardinality(B) \in Nat
      /\ Cardinality(A') \in Nat /\ Cardinality(A') <= Cardinality(A)
      /\ Cardinality(B') \in Nat /\ Cardinality(B') <= Cardinality(B)
  BY <1>1, <1>2, SubsetCount
<1>7. resent' + Cardinality(A') <= MaxReports /\ expired' + Cardinality(B') <= MaxReports
  BY <1>3, <1>6, ReportsAreNumbers DEF Types
<1> QED
  BY <1>5, <1>7 DEF EachTwiceAtMost, A, B

LEMMA TwiceStep ==
  ASSUME Types, OnceInOrder, EachTwiceAtMost, FlagKept, [Next]_vars
  PROVE  EachTwiceAtMost'
<1> DEFINE A == Unsent \cup (inflight \ retried)
           B == Unsent \cup (inflight \ {expiring})
<1>a. IsFiniteSet(A) /\ IsFiniteSet(B) /\ resent \in Nat /\ expired \in Nat
  BY SendqTypes, ReportsAreNumbers, SubsetCount DEF Types
<1>b. /\ resent + Cardinality(A) <= MaxReports /\ expired + Cardinality(B) <= MaxReports
      /\ \A q \in Reports : /\ q \in Unsent => Due(q) = 0
                            /\ q \in inflight \ retried => Due(q) <= 1
                            /\ Due(q) <= 2 /\ Due(q) \in Nat
  BY DueTypes DEF EachTwiceAtMost
<1>c. None \notin inflight
  BY ReportsAreNumbers DEF Types
<1>1. CASE Environment
  <2>1. UNCHANGED <<last, sendq, inflight, retried, expiring, resent, expired>>
    BY <1>1 DEF Environment, BeginRegistration, EndRegistration, PortFails, ArriveAnswer,
                ArriveRequest, recvVars, listVars, ghosts, reportGhosts
  <2>2. Unsent' = Unsent
    BY <2>1 DEF Unsent
  <2> QED
    BY <1>1, <2>1, <2>2, DueArrives, TwiceShrinks
<1>2. CASE Turn
  <2>1. UNCHANGED <<last, sendq, inflight, retried, expiring, resent, expired>>
    BY <1>2 DEF Turn, NoMessage, TakeAnswer, TakeQuery, TakeCommand, listVars, ghosts, reportGhosts
  <2>2. Unsent' = Unsent
    BY <2>1 DEF Unsent
  <2>3. \A q \in Reports : Due(q)' \in Nat /\ Due(q)' <= Due(q)
    <3>1. CASE \A q \in Reports : Due(q)' = Due(q)
      BY <1>b, <3>1
    <3>2. ASSUME NEW r \in Reports, Due(r) > 0, Due(r)' = Due(r) - 1,
                 \A q \in Reports \ {r} : Due(q)' = Due(q), NEW q \in Reports
          PROVE  Due(q)' \in Nat /\ Due(q)' <= Due(q)
      <4>1. Due(q) \in Nat
        BY <1>b
      <4> QED
        BY <3>2, <4>1
    <3> QED
      BY <1>2, <3>1, <3>2, DueTaken
  <2> QED
    BY <2>1, <2>2, <2>3, TwiceShrinks
<1>3. CASE RestOfTurn \/ SendFails \/ Remove \/ UNCHANGED vars
  <2>1. UNCHANGED <<owed, inbox, resent, expired>>
    BY <1>3 DEF RestOfTurn, MatchAnswer, NoReport, ReportSaved, ReportLost, Pop, Mark, SendFails,
                Remove, vars, ghosts, reportGhosts
  <2>2. \A q \in Reports : Due(q)' \in Nat /\ Due(q)' <= Due(q)
    BY <1>b, <2>1 DEF Due
  <2>3. /\ inflight' \ retried' \subseteq inflight \ retried
        /\ inflight' \ {expiring'} \subseteq inflight \ {expiring}
    BY <1>3, <1>c DEF RestOfTurn, MatchAnswer, NoReport, ReportSaved, ReportLost, Mark, SendFails,
                Remove, vars, listVars, MutexFree, FlagKept
  <2>4. Unsent' \subseteq Unsent
    <3>1. CASE UNCHANGED <<last, sendq>>
      BY <3>1 DEF Unsent
    <3>2. CASE Pop
      <4>1. /\ Head(queue) \in Reports /\ last < Head(queue) /\ last' = Head(queue)
            /\ last \in Nat /\ Head(queue) \in Nat
        BY <3>2, PopOrder, NumberTypes, ReportsAreNumbers DEF Pop
      <4>2. \A q \in Reports : q > last' => q > last
        BY <4>1, ReportsAreNumbers
      <4>3. InSendq' \subseteq InSendq \cup {Head(queue)}
        <5>1. CASE ReportSaved
          BY <4>1, <5>1, SendqGetsOne DEF ReportSaved
        <5>2. CASE UNCHANGED sendq
          BY <5>2 DEF InSendq
        <5> QED
          BY <1>3, <3>2, <5>1, <5>2 DEF RestOfTurn, MatchAnswer, NoReport, ReportLost, Mark,
                                        SendFails, Remove, vars, Pop, recvVars
      <4> QED
        BY <4>1, <4>2, <4>3 DEF Unsent, InSendq
    <3>3. CASE SendFails
      <4>1. sendq # <<>> /\ sendq' = Tail(sendq) /\ last' = last
        BY <3>3 DEF SendFails
      <4>2. InSendq' \subseteq InSendq
        BY <4>1, SendqLosesFirst
      <4> QED
        BY <4>1, <4>2 DEF Unsent, InSendq
    <3> QED
      BY <1>3, <3>1, <3>2, <3>3 DEF RestOfTurn, MatchAnswer, NoReport, ReportSaved, ReportLost,
                                    Mark, Remove, vars, ghosts, reportGhosts
  <2> QED
    BY <2>1, <2>2, <2>3, <2>4, TwiceShrinks
<1>4. CASE SendTracked
  <2>0. Head(sendq) \in Reports
    BY <1>4, TailOf DEF SendTracked, Types
  <2>p. PICK r \in Reports : r = Head(sendq)
    BY <2>0
  <2>1. /\ sendq # <<>> /\ sendq' = Tail(sendq) /\ inflight' = inflight \cup {r} /\ Written(r)
        /\ UNCHANGED <<last, retried, expiring, resent, expired, inbox>> /\ expiring = None
    BY <1>4, <2>p DEF SendTracked, ghosts, reportGhosts, MutexFree
  <2>2. /\ r \in InSendq /\ r \in Reports /\ r <= last /\ r \notin inflight
        /\ InSendq' = InSendq \ {r}
    BY <2>1, <2>p, SendqLosesFirst
  <2>3. r \in Unsent /\ Unsent' = Unsent \ {r} /\ r \notin retried /\ r # None
    <3>1. r \in Nat /\ last \in Nat /\ r # None
      BY <2>2, NumberTypes, ReportsAreNumbers
    <3>2. ~(r > last)
      BY <2>2, <3>1
    <3> QED
      BY <2>1, <2>2, <3>1, <3>2 DEF Unsent, InSendq, Types
  <2>4. /\ Unsent' \cup (inflight' \ retried') = A
        /\ Unsent' \cup (inflight' \ {expiring'}) = B
    BY <2>1, <2>3
  <2>5. /\ Due(r)' \in {Due(r), Due(r) + 1} /\ \A q \in Reports \ {r} : Due(q)' = Due(q)
    BY <2>1, <2>2, DueWritten
  <2>6. Due(r) = 0
    BY <1>b, <2>2, <2>3
  <2>7. \A q \in Reports : /\ q \in Unsent' => Due(q)' = 0
                           /\ q \in inflight' \ retried' => Due(q)' <= 1
                           /\ Due(q)' <= 2
    BY <1>b, <2>1, <2>3, <2>5, <2>6
  <2>8. /\ resent' + Cardinality(Unsent' \cup (inflight' \ retried')) <= MaxReports
        /\ expired' + Cardinality(Unsent' \cup (inflight' \ {expiring'})) <= MaxReports
    BY <1>b, <2>1, <2>4
  <2> QED
    BY <2>7, <2>8 DEF EachTwiceAtMost
<1>5. ASSUME NEW r \in Reports, Resend(r) PROVE EachTwiceAtMost'
  <2>1. /\ r \in inflight \ retried /\ retried' = retried \cup {r} /\ resent' = resent + 1
        /\ UNCHANGED <<last, sendq, inflight, expiring, expired, inbox>> /\ Written(r)
    BY <1>5 DEF Resend, recvVars
  <2>2. Unsent' = Unsent /\ r \notin Unsent
    BY <2>1, InflightApart DEF Unsent
  <2>3. r \in A /\ Unsent' \cup (inflight' \ retried') = A \ {r}
    BY <2>1, <2>2
  <2>4. Unsent' \cup (inflight' \ {expiring'}) = B
    BY <2>1, <2>2
  <2>5. /\ Due(r)' \in {Due(r), Due(r) + 1} /\ \A q \in Reports \ {r} : Due(q)' = Due(q)
    BY <2>1, DueWritten
  <2>6. \A q \in Reports : /\ q \in Unsent' => Due(q)' = 0
                           /\ q \in inflight' \ retried' => Due(q)' <= 1
                           /\ Due(q)' <= 2
    BY <1>b, <2>1, <2>2, <2>5
  <2>7. Cardinality(A \ {r}) = Cardinality(A) - 1 /\ Cardinality(A) \in Nat
    BY <1>a, <2>3, FS_RemoveElement, FS_CardinalityType
  <2>8. resent' + Cardinality(Unsent' \cup (inflight' \ retried')) <= MaxReports
    <3>1. Cardinality(Unsent' \cup (inflight' \ retried')) = Cardinality(A) - 1
      BY <2>3, <2>7
    <3> HIDE DEF A
    <3> QED
      BY <1>a, <1>b, <2>1, <2>7, <3>1, ReportsAreNumbers
  <2>9. expired' + Cardinality(Unsent' \cup (inflight' \ {expiring'})) <= MaxReports
    BY <1>b, <2>1, <2>4
  <2> QED
    BY <2>6, <2>8, <2>9 DEF EachTwiceAtMost
<1>6. ASSUME NEW r \in Reports, Expire(r) PROVE EachTwiceAtMost'
  <2>1. /\ r \in retried /\ expiring = None /\ expiring' = r /\ expired' = expired + 1
        /\ UNCHANGED <<last, sendq, inflight, retried, resent, owed, inbox>>
    BY <1>6 DEF Expire, MutexFree
  <2>2. Unsent' = Unsent /\ r \notin Unsent /\ r \in inflight /\ r # None
    BY <1>c, <2>1, InflightApart DEF Unsent, Types
  <2>3. r \in B /\ Unsent' \cup (inflight' \ {expiring'}) = B \ {r}
    BY <2>1, <2>2, <1>c
  <2>4. Unsent' \cup (inflight' \ retried') = A
    BY <2>1, <2>2
  <2>5. \A q \in Reports : Due(q)' = Due(q)
    BY <2>1 DEF Due
  <2>6. \A q \in Reports : /\ q \in Unsent' => Due(q)' = 0
                           /\ q \in inflight' \ retried' => Due(q)' <= 1
                           /\ Due(q)' <= 2
    BY <1>b, <2>1, <2>2, <2>5
  <2>7. Cardinality(B \ {r}) = Cardinality(B) - 1 /\ Cardinality(B) \in Nat
    BY <1>a, <2>3, FS_RemoveElement, FS_CardinalityType
  <2>8. expired' + Cardinality(Unsent' \cup (inflight' \ {expiring'})) <= MaxReports
    <3>1. Cardinality(Unsent' \cup (inflight' \ {expiring'})) = Cardinality(B) - 1
      BY <2>3, <2>7
    <3> HIDE DEF B
    <3> QED
      BY <1>a, <1>b, <2>1, <2>7, <3>1, ReportsAreNumbers
  <2>9. resent' + Cardinality(Unsent' \cup (inflight' \ retried')) <= MaxReports
    BY <1>b, <2>1, <2>4
  <2> QED
    BY <2>6, <2>8, <2>9 DEF EachTwiceAtMost
<1> QED
  BY <1>1, <1>2, <1>3, <1>4, <1>5, <1>6 DEF Next, ReceiveThread, SendThread, TimerElapses

-----------------------------------------------------------------------------
(* Every report out, and every answer that would let out one more, is paid *)
(* for.                                                                    *)
Room == resent + expired + (IF FlagRaised THEN 1 ELSE 0)

(* What one report takes of the room. *)
Weight(r) ==
    (IF r \in Waiting THEN 1 ELSE 0) + (IF r \in Spare(1) THEN 1 ELSE 0)
    + (IF r \in Spare(2) THEN 1 ELSE 0)

LEMMA WaitingTypes ==
  ASSUME Types
  PROVE  /\ Waiting = InSendq \cup Listed /\ Waiting \subseteq Reports
         /\ IsFiniteSet(Waiting) /\ IsFiniteSet(Spare(1)) /\ IsFiniteSet(Spare(2))
         /\ Spare(1) \subseteq Reports /\ Spare(2) \subseteq Reports
         /\ Room \in Nat
<1>1. Waiting = InSendq \cup Listed /\ Listed \subseteq Reports
  BY DEF Waiting, InSendq, Listed, Types
<1>2. Spare(1) \subseteq Reports /\ Spare(2) \subseteq Reports
  BY DEF Spare
<1>3. Room \in Nat
  BY DEF Room, Types
<1> QED
  BY <1>1, <1>2, <1>3, SendqTypes, ReportsAreNumbers, SubsetCount

LEMMA RoomTypes ==
  /\ Types => Room \in Nat
  /\ Types' => Room' \in Nat
<1>1. Types => resent \in Nat /\ expired \in Nat
  BY DEF Types
<1>2. Types' => resent' \in Nat /\ expired' \in Nat
  BY DEF Types
<1>3. Room' = resent' + expired' + (IF FlagRaised' THEN 1 ELSE 0)
  BY DEF Room
<1> QED
  BY <1>1, <1>2, <1>3 DEF Room

LEMMA WindowShrinks ==
  ASSUME Types, Types', WindowKept,
         Waiting' \subseteq Waiting, Spare(1)' \subseteq Spare(1), Spare(2)' \subseteq Spare(2),
         UNCHANGED <<resent, expired>>, FlagRaised => FlagRaised'
  PROVE  WindowKept'
<1>1. /\ Cardinality(Waiting) \in Nat /\ Cardinality(Waiting') \in Nat
      /\ Cardinality(Waiting') <= Cardinality(Waiting)
      /\ Cardinality(Spare(1)) \in Nat /\ Cardinality(Spare(1)') \in Nat
      /\ Cardinality(Spare(1)') <= Cardinality(Spare(1))
      /\ Cardinality(Spare(2)) \in Nat /\ Cardinality(Spare(2)') \in Nat
      /\ Cardinality(Spare(2)') <= Cardinality(Spare(2))
  BY WaitingTypes, SubsetCount
<1>2. Room \in Nat /\ Room' \in Nat /\ Room <= Room'
  <2>1. resent \in Nat /\ expired \in Nat /\ resent' = resent /\ expired' = expired
    BY DEF Types
  <2>2. Room' = resent' + expired' + (IF FlagRaised' THEN 1 ELSE 0)
    BY DEF Room
  <2> QED
    BY <2>1, <2>2 DEF Room
<1>3. Cardinality(Waiting) + Cardinality(Spare(1)) + Cardinality(Spare(2)) <= Room
  BY DEF WindowKept, Room
<1>4. Cardinality(Waiting') + Cardinality(Spare(1)') + Cardinality(Spare(2)') <= Room'
  BY <1>1, <1>2, <1>3
<1> QED
  BY <1>4 DEF WindowKept, Room

(* A step that changes what one report takes by no more than the room. *)
LEMMA WindowAtOne ==
  ASSUME NEW r \in Reports
  PROVE  /\ Types /\ Types' /\ WindowKept
         /\ Waiting' \ {r} = Waiting \ {r}
         /\ Spare(1)' \ {r} = Spare(1) \ {r} /\ Spare(2)' \ {r} = Spare(2) \ {r}
         /\ Weight(r)' + Room <= Weight(r) + Room'
         => WindowKept'
<1>0. SUFFICES ASSUME Types, Types', WindowKept,
                      Waiting' \ {r} = Waiting \ {r},
                      Spare(1)' \ {r} = Spare(1) \ {r}, Spare(2)' \ {r} = Spare(2) \ {r},
                      Weight(r)' + Room <= Weight(r) + Room'
               PROVE  WindowKept'
  OBVIOUS
<1>1. IsFiniteSet(Waiting) /\ IsFiniteSet(Spare(1)) /\ IsFiniteSet(Spare(2))
  BY <1>0, WaitingTypes
<1>2. PICK a \in Nat, a1 \in Nat, x \in {0, 1}, x1 \in {0, 1} :
         /\ a = Cardinality(Waiting) /\ a1 = Cardinality(Waiting')
         /\ x = (IF r \in Waiting THEN 1 ELSE 0) /\ x1 = (IF r \in Waiting' THEN 1 ELSE 0)
         /\ a1 + x = a + x1
  BY <1>0, <1>1, DifferAtOne
<1>3. PICK b \in Nat, b1 \in Nat, y \in {0, 1}, y1 \in {0, 1} :
         /\ b = Cardinality(Spare(1)) /\ b1 = Cardinality(Spare(1)')
         /\ y = (IF r \in Spare(1) THEN 1 ELSE 0) /\ y1 = (IF r \in Spare(1)' THEN 1 ELSE 0)
         /\ b1 + y = b + y1
  BY <1>0, <1>1, DifferAtOne
<1>4. PICK c \in Nat, c1 \in Nat, z \in {0, 1}, z1 \in {0, 1} :
         /\ c = Cardinality(Spare(2)) /\ c1 = Cardinality(Spare(2)')
         /\ z = (IF r \in Spare(2) THEN 1 ELSE 0) /\ z1 = (IF r \in Spare(2)' THEN 1 ELSE 0)
         /\ c1 + z = c + z1
  BY <1>0, <1>1, DifferAtOne
<1>5. PICK n \in Nat, n1 \in Nat : n = Room /\ n1 = Room'
  BY <1>0, RoomTypes
<1>6. Weight(r) = x + y + z /\ Weight(r)' = x1 + y1 + z1
  BY <1>2, <1>3, <1>4 DEF Weight
<1>7. x1 + y1 + z1 + n <= x + y + z + n1
  BY <1>0, <1>5, <1>6
<1>8. a + b + c <= n
  BY <1>0, <1>2, <1>3, <1>4, <1>5 DEF WindowKept, Room
<1>9. a1 + b1 + c1 <= n1
  BY <1>2, <1>3, <1>4, <1>7, <1>8
<1> QED
  BY <1>2, <1>3, <1>4, <1>5, <1>9 DEF WindowKept, Room

(* What is due of a report decides what it takes. *)
LEMMA WeightOf ==
  ASSUME NEW r \in Reports
  PROVE  /\ r \in Listed => /\ r \in Spare(1) <=> Due(r) >= 2
                            /\ r \in Spare(2) <=> Due(r) >= 3
         /\ r \notin Listed => /\ r \in Spare(1) <=> Due(r) >= 1
                               /\ r \in Spare(2) <=> Due(r) >= 2
         /\ r \in Listed' => /\ r \in Spare(1)' <=> Due(r)' >= 2
                             /\ r \in Spare(2)' <=> Due(r)' >= 3
         /\ r \notin Listed' => /\ r \in Spare(1)' <=> Due(r)' >= 1
                                /\ r \in Spare(2)' <=> Due(r)' >= 2
  BY DEF Spare

LEMMA SpareSame ==
  ASSUME NEW r, \A q \in Reports \ {r} : Due(q)' = Due(q) /\ (q \in Listed' <=> q \in Listed)
  PROVE  Spare(1)' \ {r} = Spare(1) \ {r} /\ Spare(2)' \ {r} = Spare(2) \ {r}
<1>1. \A q \in Reports \ {r} : /\ q \in Spare(1)' <=> q \in Spare(1)
                               /\ q \in Spare(2)' <=> q \in Spare(2)
  BY WeightOf
<1>2. Spare(1) \cup Spare(2) \cup Spare(1)' \cup Spare(2)' \subseteq Reports
  BY DEF Spare
<1> QED
  BY <1>1, <1>2

LEMMA SpareShrinks ==
  ASSUME Types, Listed' = Listed, \A q \in Reports : Due(q)' \in Nat /\ Due(q)' <= Due(q)
  PROVE  Spare(1)' \subseteq Spare(1) /\ Spare(2)' \subseteq Spare(2)
<1>1. ASSUME NEW q \in Reports
      PROVE  (q \in Spare(1)' => q \in Spare(1)) /\ (q \in Spare(2)' => q \in Spare(2))
  <2>1. Due(q)' \in Nat /\ Due(q)' <= Due(q) /\ Due(q) \in Nat
    BY DueTypes
  <2> QED
    BY <2>1, WeightOf
<1>2. Spare(1)' \cup Spare(2)' \subseteq Reports
  BY DEF Spare
<1> QED
  BY <1>1, <1>2

(* Every turn of the receive thread and every step of the others. *)
LEMMA WindowStep ==
  ASSUME Types, OnceInOrder, EachTwiceAtMost, WindowKept, FlagKept, Types', [Next]_vars
  PROVE  WindowKept'
<1>a. \A q \in Reports : Due(q) \in Nat /\ Due(q) <= 2
  BY DueTypes DEF EachTwiceAtMost
<1>b. /\ Waiting = InSendq \cup Listed /\ Waiting' = InSendq' \cup Listed'
      /\ resent \in Nat /\ expired \in Nat
  BY DEF Types, Waiting, InSendq
<1>c. ASSUME UNCHANGED <<sendq, resent, expired>>, Listed' = Listed,
             FlagRaised => FlagRaised',
             \A q \in Reports : Due(q)' \in Nat /\ Due(q)' <= Due(q)
      PROVE  WindowKept'
  <2>1. Waiting' = Waiting
    BY <1>b, <1>c DEF InSendq
  <2>2. Spare(1)' \subseteq Spare(1) /\ Spare(2)' \subseteq Spare(2)
    BY <1>c, SpareShrinks
  <2> QED
    BY <1>c, <2>1, <2>2, WindowShrinks
<1>1. CASE Environment
  <2>1. UNCHANGED <<sendq, inflight, rpc, held, finish, resent, expired>>
    BY <1>1 DEF Environment, BeginRegistration, EndRegistration, PortFails, ArriveAnswer,
                ArriveRequest, recvVars, listVars, ghosts, reportGhosts
  <2>2. Listed' = Listed /\ (FlagRaised => FlagRaised')
    BY <2>1 DEF Listed, FlagRaised
  <2> QED
    BY <1>1, <1>c, <2>1, <2>2, DueArrives
<1>2. ASSUME UNCHANGED <<sendq, resent, expired, owed, inbox>>,
             Listed' = Listed, FlagRaised => FlagRaised'
      PROVE  WindowKept'
  <2>1. \A q \in Reports : Due(q)' \in Nat /\ Due(q)' <= Due(q)
    BY <1>2, <1>a DEF Due
  <2> QED
    BY <1>2, <1>c, <2>1
<1>3. CASE \/ NoReport \/ Mark \/ MatchAnswer \/ UNCHANGED vars
  <2>1. UNCHANGED <<sendq, resent, expired, owed, inbox>>
    BY <1>3 DEF NoReport, Mark, MatchAnswer, vars, ghosts, reportGhosts
  <2>2. Listed' = Listed
    BY <1>3 DEF NoReport, Mark, MatchAnswer, vars, recvVars, listVars, Listed
  <2>3. FlagRaised => FlagRaised'
    BY <1>3 DEF NoReport, Mark, MatchAnswer, vars, recvVars, FlagRaised
  <2> QED
    BY <1>2, <2>1, <2>2, <2>3
<1>4. CASE ReportLost
  <2>1. /\ UNCHANGED <<sendq, resent, expired, owed, inbox, inflight>>
        /\ rpc = "report" /\ rpc' = "mark"
    BY <1>4 DEF ReportLost, Pop, listVars
  <2> QED
    BY <1>2, <2>1 DEF Listed, FlagRaised
<1>5. CASE Turn
  <2>1. /\ UNCHANGED <<sendq, inflight, resent, expired>> /\ rpc = "listen"
    BY <1>5 DEF Turn, NoMessage, TakeAnswer, TakeQuery, TakeCommand, TurnBegins, Take, listVars,
                ghosts, reportGhosts
  <2>2. Listed = inflight
    BY <2>1 DEF Listed
  <2>3. CASE ~(\E r \in Reports : TakeAnswer(r))
    <3>1. rpc' = "report" /\ finish' = finish
      BY <1>5, <2>3 DEF Turn, NoMessage, TakeQuery, TakeCommand
    <3>2. Listed' = Listed /\ (FlagRaised => FlagRaised')
      BY <2>1, <2>2, <3>1 DEF Listed, FlagRaised
    <3>3. \A q \in Reports : Due(q)' \in Nat /\ Due(q)' <= Due(q)
      BY <1>5, <1>a, <2>3, DueTaken
    <3> QED
      BY <1>c, <2>1, <3>2, <3>3
  <2>4. ASSUME NEW r \in Reports, TakeAnswer(r),
               Due(r) > 0, Due(r)' = Due(r) - 1, \A q \in Reports \ {r} : Due(q)' = Due(q)
        PROVE  WindowKept'
    <3>1. rpc' = "match" /\ held' = r /\ finish' = FALSE
      BY <2>4 DEF TakeAnswer
    <3>2. Listed' = inflight \ {r}
      BY <2>1, <3>1 DEF Listed
    <3>3. InSendq' = InSendq
      BY <2>1 DEF InSendq
    <3>4. Waiting' \ {r} = Waiting \ {r}
      BY <1>b, <2>2, <3>2, <3>3
    <3>5. Spare(1)' \ {r} = Spare(1) \ {r} /\ Spare(2)' \ {r} = Spare(2) \ {r}
      <4>1. \A q \in Reports \ {r} : Due(q)' = Due(q) /\ (q \in Listed' <=> q \in Listed)
        BY <2>2, <2>4, <3>2
      <4> QED
        BY <4>1, SpareSame
    <3>6. Weight(r)' + 1 <= Weight(r)
      <4>1. (Due(r) = 1 /\ Due(r)' = 0) \/ (Due(r) = 2 /\ Due(r)' = 1)
        <5>1. Due(r) \in {1, 2}
          BY <1>a, <2>4
        <5> QED
          BY <2>4, <5>1
      <4>2. CASE r \in inflight
        <5>1. r \in Waiting /\ r \notin Waiting' /\ r \in Listed /\ r \notin Listed'
          BY <1>b, <2>2, <3>2, <3>3, <4>2, InflightApart
        <5>2. (r \in Spare(1)' <=> r \in Spare(1)) /\ (r \in Spare(2)' <=> r \in Spare(2))
          BY <4>1, <5>1, WeightOf
        <5> QED
          BY <5>1, <5>2 DEF Weight
      <4>3. CASE r \notin inflight
        <5>1. (r \in Waiting' <=> r \in Waiting) /\ r \notin Listed /\ r \notin Listed'
          BY <1>b, <2>2, <3>2, <3>3, <4>3
        <5>2. /\ r \in Spare(1) /\ (r \in Spare(1)' <=> Due(r) = 2)
              /\ (r \in Spare(2) <=> Due(r) = 2) /\ r \notin Spare(2)'
          BY <4>1, <5>1, WeightOf
        <5> QED
          BY <5>1, <5>2 DEF Weight
      <4> QED
        BY <4>2, <4>3
    <3>7. Room <= Room' + 1 /\ Room \in Nat /\ Room' \in Nat
      BY <1>b, <2>1, RoomTypes DEF Room
    <3>8. Weight(r) \in Nat /\ Weight(r)' \in Nat
      BY DEF Weight
    <3>9. Weight(r)' + Room <= Weight(r) + Room'
      <4>1. PICK m \in Nat, m1 \in Nat, n \in Nat, n1 \in Nat :
               m = Weight(r) /\ m1 = Weight(r)' /\ n = Room /\ n1 = Room'
        BY <3>7, <3>8
      <4>2. m1 + 1 <= m /\ n <= n1 + 1
        BY <3>6, <3>7, <4>1
      <4>3. m1 + n <= m + n1
        BY <4>2
      <4> QED
        BY <4>1, <4>3
    <3> QED
      BY <3>4, <3>5, <3>9, WindowAtOne
  <2> QED
    BY <1>5, <2>3, <2>4, DueTaken
<1>6. CASE ReportSaved
  <2>0. Pop /\ Head(queue) \in Reports
    BY <1>6, PopOrder DEF ReportSaved
  <2>1. PICK r \in Reports : sendq' = Append(sendq, r)
    BY <1>6, <2>0 DEF ReportSaved
  <2>2. /\ UNCHANGED <<resent, expired, owed, inbox, inflight, finish>>
        /\ rpc = "report" /\ rpc' = "mark" /\ ~finish
    BY <1>6 DEF ReportSaved, Pop, listVars
  <2>3. Listed' = Listed /\ InSendq' = InSendq \cup {r}
    BY <2>1, <2>2, SendqGetsOne DEF Listed
  <2>4. Waiting' \ {r} = Waiting \ {r}
    BY <1>b, <2>3
  <2>5. \A q \in Reports : Due(q)' = Due(q)
    BY <2>2 DEF Due
  <2>6. Spare(1)' \ {r} = Spare(1) \ {r} /\ Spare(2)' \ {r} = Spare(2) \ {r}
    BY <2>3, <2>5, SpareSame
  <2>7. (r \in Spare(1)' <=> r \in Spare(1)) /\ (r \in Spare(2)' <=> r \in Spare(2))
    BY <2>3, <2>5, WeightOf
  <2>8. Weight(r)' <= Weight(r) + 1 /\ Weight(r) \in Nat /\ Weight(r)' \in Nat
    BY <2>7 DEF Weight
  <2>9. Room' = Room + 1 /\ Room \in Nat
    <3>1. ~FlagRaised /\ FlagRaised'
      BY <2>2 DEF FlagRaised
    <3>2. Room = resent + expired + 0 /\ Room' = resent + expired + 1
      BY <2>2, <3>1 DEF Room
    <3> QED
      BY <1>b, <3>2
  <2>10. Weight(r)' + Room <= Weight(r) + Room'
    BY <2>8, <2>9
  <2> QED
    BY <2>4, <2>6, <2>10, WindowAtOne
<1>7. CASE SendTracked
  <2>0. Head(sendq) \in Reports
    BY <1>7, TailOf DEF SendTracked, Types
  <2>p. PICK r \in Reports : r = Head(sendq)
    BY <2>0
  <2>1. /\ sendq # <<>> /\ sendq' = Tail(sendq) /\ inflight' = inflight \cup {r} /\ Written(r)
        /\ UNCHANGED <<rpc, held, finish, resent, expired, inbox>>
    BY <1>7, <2>p DEF SendTracked, recvVars, ghosts, reportGhosts
  <2>2. r \in InSendq /\ r \notin inflight /\ InSendq' = InSendq \ {r}
    BY <2>1, <2>p, SendqLosesFirst
  <2>3. Listed' \ {r} = Listed \ {r} /\ r \notin Listed
    BY <2>1, <2>2 DEF Listed
  <2>4. Waiting' \ {r} = Waiting \ {r} /\ r \in Waiting /\ (r \in Waiting' <=> r \in Listed')
    BY <1>b, <2>2, <2>3
  <2>5. Due(r) = 0
    BY <2>2 DEF EachTwiceAtMost, Unsent, InSendq
  <2>6. /\ Due(r)' \in {0, 1} /\ \A q \in Reports \ {r} : Due(q)' = Due(q)
    BY <2>1, <2>5, DueWritten
  <2>7. Spare(1)' \ {r} = Spare(1) \ {r} /\ Spare(2)' \ {r} = Spare(2) \ {r}
    BY <2>3, <2>6, SpareSame
  <2>8. Weight(r)' <= Weight(r) /\ Weight(r) \in Nat /\ Weight(r)' \in Nat
    <3>1. r \notin Spare(2)' /\ ~(r \in Waiting' /\ r \in Spare(1)')
      BY <2>4, <2>6, WeightOf
    <3> QED
      BY <2>4, <3>1 DEF Weight
  <2>9. Room' = Room /\ Room \in Nat
    BY <2>1, RoomTypes DEF Room, FlagRaised
  <2>10. Weight(r)' + Room <= Weight(r) + Room'
    BY <2>8, <2>9
  <2> QED
    BY <2>4, <2>7, <2>10, WindowAtOne
<1>8. CASE SendFails
  <2>1. /\ sendq # <<>> /\ sendq' = Tail(sendq)
        /\ UNCHANGED <<rpc, held, finish, inflight, resent, expired, inbox, owed>>
    BY <1>8 DEF SendFails, recvVars, listVars
  <2>2. Listed' = Listed /\ FlagRaised' = FlagRaised /\ InSendq' \subseteq InSendq
    BY <2>1, SendqLosesFirst DEF Listed, FlagRaised
  <2>3. Waiting' \subseteq Waiting
    BY <1>b, <2>2
  <2>4. \A q \in Reports : Due(q)' \in Nat /\ Due(q)' <= Due(q)
    BY <1>a, <2>1 DEF Due
  <2>5. Spare(1)' \subseteq Spare(1) /\ Spare(2)' \subseteq Spare(2)
    BY <2>2, <2>4, SpareShrinks
  <2> QED
    BY <2>1, <2>2, <2>3, <2>5, WindowShrinks
<1>9. ASSUME NEW r \in Reports, Resend(r) PROVE WindowKept'
  <2>1. /\ UNCHANGED <<sendq, inflight, rpc, held, finish, expired, inbox>>
        /\ resent' = resent + 1 /\ Written(r)
    BY <1>9 DEF Resend, recvVars
  <2>2. Listed' = Listed /\ Waiting' = Waiting
    BY <1>b, <2>1 DEF Listed, InSendq
  <2>3. /\ Due(r)' \in {Due(r), Due(r) + 1} /\ \A q \in Reports \ {r} : Due(q)' = Due(q)
    BY <2>1, DueWritten
  <2>4. Spare(1)' \ {r} = Spare(1) \ {r} /\ Spare(2)' \ {r} = Spare(2) \ {r}
    BY <2>2, <2>3, SpareSame
  <2>5. Weight(r)' <= Weight(r) + 1 /\ Weight(r) \in Nat /\ Weight(r)' \in Nat
    <3>1. /\ r \in Spare(1)' /\ r \notin Spare(1) => r \notin Spare(2)'
          /\ r \in Spare(2)' /\ r \notin Spare(2) => r \in Spare(1)
      BY <1>a, <2>2, <2>3, WeightOf
    <3> QED
      BY <2>2, <3>1 DEF Weight
  <2>6. Room' = Room + 1 /\ Room \in Nat
    BY <1>b, <2>1, RoomTypes DEF Room, FlagRaised
  <2>7. Weight(r)' + Room <= Weight(r) + Room'
    BY <2>5, <2>6
  <2> QED
    BY <2>2, <2>4, <2>7, WindowAtOne
<1>10. ASSUME NEW r \in Reports, Expire(r) PROVE WindowKept'
  <2>1. /\ UNCHANGED <<sendq, inflight, rpc, held, resent, owed, inbox>>
        /\ expired' = expired + 1
    BY <1>10 DEF Expire
  <2>2. Listed' = Listed /\ Waiting' = Waiting
    BY <1>b, <2>1 DEF Listed, InSendq
  <2>3. \A q \in Reports : Due(q)' = Due(q)
    BY <2>1 DEF Due
  <2>4. Spare(1)' \ {r} = Spare(1) \ {r} /\ Spare(2)' \ {r} = Spare(2) \ {r}
    BY <2>2, <2>3, SpareSame
  <2>5. Weight(r)' = Weight(r) /\ Weight(r) \in Nat
    <3>1. (r \in Spare(1)' <=> r \in Spare(1)) /\ (r \in Spare(2)' <=> r \in Spare(2))
      BY <2>2, <2>3, WeightOf
    <3> QED
      BY <2>2, <3>1 DEF Weight
  <2>6. Room <= Room' /\ Room \in Nat /\ Room' \in Nat
    <3>1. Room' = resent + (expired + 1) + (IF FlagRaised' THEN 1 ELSE 0)
      BY <2>1 DEF Room
    <3> QED
      BY <1>b, <3>1, RoomTypes DEF Room
  <2>7. Weight(r)' + Room <= Weight(r) + Room'
    BY <2>5, <2>6
  <2> QED
    BY <2>2, <2>4, <2>7, WindowAtOne
<1>11. CASE Remove
  <2>1. /\ UNCHANGED <<sendq, rpc, held, finish, resent, expired, owed, inbox>>
        /\ expiring # None /\ inflight' = inflight \ {expiring}
    BY <1>11 DEF Remove, recvVars, ghosts, reportGhosts
  <2>p. PICK r \in Reports : r = expiring
    BY <2>1 DEF Types
  <2>2. Listed' = Listed \ {r} /\ InSendq' = InSendq
    BY <2>1, <2>p DEF Listed, InSendq
  <2>3. Waiting' \ {r} = Waiting \ {r}
    BY <1>b, <2>2
  <2>4. \A q \in Reports : Due(q)' = Due(q)
    BY <2>1 DEF Due
  <2>5. Spare(1)' \ {r} = Spare(1) \ {r} /\ Spare(2)' \ {r} = Spare(2) \ {r}
    BY <2>2, <2>4, SpareSame
  <2>6. Weight(r)' <= Weight(r) /\ Weight(r) \in Nat /\ Weight(r)' \in Nat
    <3>0. Due(r) \in {0, 1, 2} /\ Due(r)' = Due(r)
      BY <1>a, <2>4
    <3>1. CASE r \in Listed
      <4>1. r \in Waiting /\ r \notin Waiting' /\ r \notin Listed'
        BY <1>b, <2>2, <3>1, InflightApart DEF Listed
      <4>2. /\ r \in Spare(1)' /\ r \notin Spare(1) => Due(r) = 1
            /\ r \in Spare(2)' => Due(r) = 2 /\ r \in Spare(1) /\ r \in Spare(1)'
        BY <3>0, <3>1, <4>1, WeightOf
      <4>3. Due(r) = 1 => r \notin Spare(2)'
        BY <3>0, <4>1, WeightOf
      <4> QED
        BY <4>1, <4>2, <4>3 DEF Weight
    <3>2. CASE r \notin Listed
      <4>1. (r \in Waiting' <=> r \in Waiting) /\ r \notin Listed'
        BY <1>b, <2>2, <3>2
      <4>2. (r \in Spare(1)' <=> r \in Spare(1)) /\ (r \in Spare(2)' <=> r \in Spare(2))
        BY <3>0, <3>2, <4>1, WeightOf
      <4> QED
        BY <4>1, <4>2 DEF Weight
    <3> QED
      BY <3>1, <3>2
  <2>7. Room' = Room /\ Room \in Nat
    BY <2>1, RoomTypes DEF Room, FlagRaised
  <2>8. Weight(r)' + Room <= Weight(r) + Room'
    BY <2>6, <2>7
  <2> QED
    BY <2>3, <2>5, <2>8, WindowAtOne
<1> QED
  BY <1>1, <1>3, <1>4, <1>5, <1>6, <1>7, <1>8, <1>9, <1>10, <1>11
     DEF Next, ReceiveThread, RestOfTurn, SendThread, TimerElapses

-----------------------------------------------------------------------------
(* The flag. *)
LEMMA FlagStep ==
  ASSUME Types, OnceInOrder, FlagKept, [Next]_vars
  PROVE  FlagKept'
<1>a. Out = InSendq \cup inflight /\ Out' = InSendq' \cup inflight'
  BY DEF Out, InSendq
<1>b. retried \subseteq inflight /\ None \notin inflight /\ InSendq \subseteq Reports
  BY SendqTypes, ReportsAreNumbers DEF Types
<1>1. CASE UNCHANGED <<rpc, finish, held, last, sendq, inflight, retried, expiring, adrift>>
  <2>1. Out' = Out
    BY <1>1 DEF Out
  <2> QED
    BY <1>1, <2>1 DEF FlagKept, FlagRaised
<1>2. CASE Environment \/ UNCHANGED vars
  BY <1>1, <1>2 DEF Environment, BeginRegistration, EndRegistration, PortFails, ArriveAnswer,
                    ArriveRequest, recvVars, listVars, ghosts, reportGhosts, vars
<1>3. CASE Turn
  <2>1. /\ UNCHANGED <<last, sendq, inflight, retried, expiring, adrift>> /\ rpc = "listen"
    BY <1>3 DEF Turn, NoMessage, TakeAnswer, TakeQuery, TakeCommand, TurnBegins, Take, listVars,
                ghosts, reportGhosts
  <2>2. (rpc' = "report" /\ finish' = finish) \/ (rpc' = "match" /\ ~finish')
    BY <1>3 DEF Turn, NoMessage, TakeAnswer, TakeQuery, TakeCommand
  <2>3. Out' = Out
    BY <2>1 DEF Out
  <2> QED
    BY <2>1, <2>2, <2>3 DEF FlagKept, FlagRaised
<1>4. CASE MatchAnswer
  <2>1. /\ rpc = "match" /\ rpc' = "report" /\ finish' = finish /\ expiring = None /\ expiring' = None
    BY <1>4 DEF MatchAnswer, MutexFree
  <2>2. ~finish
    BY <2>1 DEF FlagKept
  <2> QED
    BY <2>1, <2>2 DEF FlagKept, FlagRaised
<1>5. CASE NoReport
  <2>1. /\ UNCHANGED <<last, sendq, inflight, retried, expiring, adrift, finish>>
        /\ rpc = "report" /\ rpc' = "listen"
    BY <1>5 DEF NoReport, listVars, ghosts, reportGhosts
  <2>2. Out' = Out
    BY <2>1 DEF Out
  <2> QED
    BY <2>1, <2>2 DEF FlagKept, FlagRaised
<1>6. CASE Mark
  <2>1. /\ UNCHANGED <<last, sendq, inflight, retried, expiring, adrift>>
        /\ rpc = "mark" /\ rpc' = "listen" /\ finish' = TRUE
    BY <1>6 DEF Mark, listVars, ghosts, reportGhosts
  <2>2. Out' = Out
    BY <2>1 DEF Out
  <2> QED
    BY <2>1, <2>2 DEF FlagKept, FlagRaised
<1>7. CASE ReportSaved
  <2>0. Pop /\ Head(queue) \in Reports /\ last < Head(queue)
    BY <1>7, PopOrder DEF ReportSaved
  <2>p. PICK r \in Reports : r = Head(queue)
    BY <2>0
  <2>1. /\ sendq' = Append(sendq, r) /\ held' = r /\ last' = r
        /\ UNCHANGED <<finish, inflight, retried, expiring>> /\ rpc' = "mark" /\ ~finish
    BY <1>7, <2>p DEF ReportSaved, Pop, listVars
  <2>2. r \in Out'
    BY <1>a, <2>1, SendqGetsOne
  <2>3. expiring # r
    <3>1. r \in Nat \ {0} /\ last \in Nat /\ last < r
      BY <2>0, <2>p, NumberTypes, ReportsAreNumbers
    <3>2. CASE expiring = None
      BY <3>1, <3>2 DEF None
    <3>3. CASE expiring # None
      <4>1. expiring <= last /\ expiring \in Nat
        BY <1>b, <3>3, NumberTypes DEF FlagKept, OnceInOrder
      <4> QED
        BY <3>1, <4>1
    <3> QED
      BY <3>2, <3>3
  <2> QED
    BY <2>1, <2>2, <2>3 DEF FlagKept, FlagRaised
<1>8. CASE ReportLost
  <2>1. /\ held' = last' /\ adrift' = TRUE /\ rpc' = "mark" /\ ~finish
        /\ UNCHANGED <<finish, retried, expiring>>
    BY <1>8 DEF ReportLost, Pop, listVars
  <2> QED
    BY <2>1 DEF FlagKept, FlagRaised
<1>9. CASE SendTracked
  <2>1. /\ sendq # <<>> /\ sendq' = Tail(sendq) /\ inflight' = inflight \cup {Head(sendq)}
        /\ UNCHANGED <<rpc, finish, held, last, retried, expiring, adrift>>
    BY <1>9 DEF SendTracked, recvVars, ghosts, reportGhosts
  <2>2. Out' = Out
    BY <1>a, <2>1, SendqLosesFirst
  <2> QED
    BY <2>1, <2>2 DEF FlagKept, FlagRaised
<1>10. CASE SendFails
  <2>1. /\ sendq # <<>> /\ sendq' = Tail(sendq) /\ adrift' = (adrift \/ Head(sendq) = last)
        /\ UNCHANGED <<rpc, finish, held, last, inflight, retried, expiring>>
    BY <1>10 DEF SendFails, recvVars, listVars
  <2>2. Out \subseteq Out' \cup {Head(sendq)}
    BY <1>a, <2>1, SendqLosesFirst
  <2> QED
    BY <2>1, <2>2 DEF FlagKept, FlagRaised
<1>11. ASSUME NEW r \in Reports, Resend(r) PROVE FlagKept'
  <2>1. /\ UNCHANGED <<rpc, finish, held, last, sendq, inflight, expiring, adrift>>
        /\ expiring = None
    BY <1>11 DEF Resend, recvVars, MutexFree
  <2>2. Out' = Out
    BY <2>1 DEF Out
  <2> QED
    BY <2>1, <2>2 DEF FlagKept, FlagRaised
<1>12. ASSUME NEW r \in Reports, Expire(r) PROVE FlagKept'
  <2>1. /\ r \in retried /\ expiring = None /\ expiring' = r /\ finish' = FALSE
        /\ adrift' = (adrift \/ (rpc = "mark" /\ held = r))
        /\ UNCHANGED <<rpc, held, last, sendq, inflight, retried>>
    BY <1>12 DEF Expire, MutexFree
  <2>2. Out' = Out
    BY <2>1 DEF Out
  <2> QED
    BY <2>1, <2>2 DEF FlagKept, FlagRaised
<1>13. CASE Remove
  <2>1. /\ expiring # None /\ inflight' = inflight \ {expiring} /\ expiring' = None
        /\ UNCHANGED <<rpc, finish, held, last, sendq, adrift>>
    BY <1>13 DEF Remove, recvVars, ghosts, reportGhosts
  <2>2. Out \ {expiring} \subseteq Out' \ {None}
    <3>1. InSendq' = InSendq /\ None \notin Reports
      BY <2>1, ReportsAreNumbers DEF InSendq
    <3> QED
      BY <1>a, <1>b, <2>1, <3>1
  <2> QED
    BY <2>1, <2>2 DEF FlagKept, FlagRaised
<1> QED
  BY <1>2, <1>3, <1>4, <1>5, <1>6, <1>7, <1>8, <1>9, <1>10, <1>11, <1>12, <1>13
     DEF Next, ReceiveThread, RestOfTurn, SendThread, TimerElapses

-----------------------------------------------------------------------------
LEMMA QueriesStart ==
  ASSUME Init
  PROVE  Types /\ ReportsAccounted
<1>1. Types
  <2>1. /\ 0 \in Seqs /\ 0 \in 0 .. MaxReports /\ QueueSize > 0
    BY ArcsAssumption DEF ArcsAssumption, Seqs
  <2>2. <<>> \in Seq(Reports) /\ Len(<<>>) = 0
    BY EmptySeq
  <2> QED
    BY <2>1, <2>2, ArcsAssumption DEF Init, Types, ArcsAssumption
<1>2. /\ sendq = <<>> /\ queue = <<>> /\ inflight = {} /\ DOMAIN sendq = {} /\ DOMAIN queue = {}
  <2>1. DOMAIN <<>> = {}
    OBVIOUS
  <2> QED
    BY <2>1 DEF Init
<1>3. OnceInOrder
  BY <1>2 DEF Init, OnceInOrder, None
<1>4. \A r \in Reports : Due(r) = 0
  BY InboxApart DEF Init, Due
<1>5. EachTwiceAtMost
  <2>1. Unsent = Reports
    <3>1. \A r \in Reports : r > 0
      BY ReportsAreNumbers
    <3> QED
      BY <1>2, <3>1 DEF Unsent, Init, None
  <2>2. Unsent \cup (inflight \ retried) = Reports /\ Unsent \cup (inflight \ {expiring}) = Reports
    BY <1>2, <2>1
  <2>3. resent = 0 /\ expired = 0
    BY DEF Init
  <2>4. /\ resent + Cardinality(Unsent \cup (inflight \ retried)) <= MaxReports
        /\ expired + Cardinality(Unsent \cup (inflight \ {expiring})) <= MaxReports
    BY <2>2, <2>3, ReportsAreNumbers
  <2> QED
    BY <1>2, <1>4, <2>4 DEF EachTwiceAtMost
<1>6. WindowKept
  <2>1. Waiting = {} /\ Spare(1) = {} /\ Spare(2) = {}
    BY <1>2, <1>4 DEF Waiting, Listed, Spare
  <2>2. resent = 0 /\ expired = 0 /\ ~FlagRaised
    BY DEF Init, FlagRaised
  <2> QED
    BY <2>1, <2>2, FS_EmptySet DEF WindowKept
<1>7. FlagKept
  BY DEF Init, FlagKept, FlagRaised
<1> QED
  BY <1>1, <1>3, <1>5, <1>6, <1>7 DEF ReportsAccounted

(* What the window promises follows from the accounts. *)
LEMMA AccountsBound ==
  ASSUME Types, ReportsAccounted
  PROVE  OneAtATime
<1>1. WindowBounded
  <2>1. /\ Cardinality(Waiting) \in Nat /\ Cardinality(Spare(1)) \in Nat
        /\ Cardinality(Spare(2)) \in Nat /\ IsFiniteSet(Waiting)
    BY WaitingTypes, FS_CardinalityType
  <2>2. Cardinality(Waiting) <= Room
    <3>1. Cardinality(Waiting) + Cardinality(Spare(1)) + Cardinality(Spare(2)) <= Room
      BY DEF ReportsAccounted, WindowKept, Room
    <3> QED
      BY <2>1, <3>1, RoomTypes
  <2>3. resent \in Nat /\ expired \in Nat
    BY DEF Types
  <2>4. CASE rpc = "match"
    <3>1. Room = resent + expired
      <4>1. ~FlagRaised
        BY <2>4 DEF ReportsAccounted, FlagKept, FlagRaised
      <4> QED
        BY <2>3, <4>1 DEF Room
    <3>2. Out \subseteq Waiting \cup {held}
      BY <2>4 DEF Out, Waiting, Listed
    <3>3. Cardinality(Waiting \cup {held}) <= Cardinality(Waiting) + 1
          /\ IsFiniteSet(Waiting \cup {held})
      BY <2>1, FS_AddElement
    <3>4. /\ Cardinality(Out) <= Cardinality(Waiting \cup {held}) /\ Cardinality(Out) \in Nat
          /\ Cardinality(Waiting \cup {held}) \in Nat
      BY <3>2, <3>3, SubsetCount
    <3>5. Cardinality(Out) <= 1 + resent + expired
      BY <2>1, <2>2, <2>3, <3>1, <3>3, <3>4
    <3> QED
      BY <3>5 DEF WindowBounded
  <2>5. CASE rpc # "match"
    <3>1. Out = Waiting
      BY <2>5 DEF Out, Waiting, Listed
    <3>2. Room <= 1 + resent + expired
      BY <2>3 DEF Room
    <3> QED
      BY <2>1, <2>2, <2>3, <3>1, <3>2, RoomTypes DEF WindowBounded
  <2> QED
    BY <2>4, <2>5
<1>2. FlagMeansPending
  BY DEF ReportsAccounted, FlagKept, FlagMeansPending, FlagRaised
<1> QED
  BY <1>1, <1>2 DEF OneAtATime

(* The accounts of the reports are kept by all three threads, by ARCS and  *)
(* by everything that gets lost, and with them the types (QueryInv): what  *)
(* ARCS owes, and the numbers sent again and expired, have their bounds    *)
(* from the accounts, and the ring its own from the filling of it.         *)
THEOREM AccountsCorrect == Spec => []QueryInv
<1>1. Init => Types /\ ReportsAccounted
  BY QueriesStart
<1>2. Types /\ ReportsAccounted /\ [Next]_vars => Types' /\ ReportsAccounted'
  BY TypesStep, OrderStep, TwiceStep, WindowStep, FlagStep DEF ReportsAccounted
<1>3. Types /\ ReportsAccounted => QueryInv
  BY TypesAreTypes DEF ReportsAccounted, QueryInv
<1> QED
  BY <1>1, <1>2, <1>3, PTL DEF Spec

(* No more reports are out than one, and one more for each that was sent   *)
(* again or has expired; and while qrFinishFlag is set what will clear it  *)
(* is on its way (OneAtATime).                                             *)
THEOREM OneAtATimeCorrect == Spec => []OneAtATime
<1>1. QueryInv => OneAtATime
  BY TypesAreTypes, AccountsBound DEF QueryInv
<1> QED
  BY <1>1, AccountsCorrect, PTL

=============================================================================
