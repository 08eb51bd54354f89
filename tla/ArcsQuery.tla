------------------------------ MODULE ArcsQuery ------------------------------
(***************************************************************************)
(* The queries of the ARCS device (lib/arcs).  A query is acknowledged and *)
(* its answer split into reports, which wait in the ring l_arcsQueue; the  *)
(* receive thread hands them to the send queue one at a time, the next     *)
(* when qrFinishFlag is clear.  The flag is set by the receive thread      *)
(* after it has handed the report over, and cleared without a lock by the  *)
(* answer to any report (receive thread) or by the expiry of one (epoll    *)
(* thread).  Reports are tracked in the in-flight list under its mutex     *)
(* (the list itself, and the wait of the send thread, are the module       *)
(* Inflight).                                                              *)
(***************************************************************************)
EXTENDS Naturals, Sequences, FiniteSets

CONSTANTS
    QueueSize,   \* ARCS_QR_QSIZE
    Batch,       \* the most reports one query is answered with
    MaxReports,  \* bound: reports made
    MaxSeq       \* bound: sequence numbers ARCS uses, from 0

ASSUME ArcsAssumption ==
    /\ QueueSize \in Nat \ {0} /\ Batch \in Nat \ {0}
    /\ MaxReports \in Nat /\ MaxSeq \in Nat

VARIABLES
    rgs,       \* gregister_tmnl_pro.rgs_state # RGST_IDLE
    open,      \* the FIFO to ARCS is open
    inbox,     \* ringBuf and msgPro: the message received whole, or none
    lastSeq,   \* l_lastSeq
    queue,     \* arcsQrQueue: the reports that wait, by number
    finish,    \* qrFinishFlag
    rpc,       \* where the receive thread is in ArcsCommon_process
    held,      \* the report it has popped last, or the one the answer names
    sendq,     \* the reports in the send queue, oldest first
    inflight,  \* the reports in the in-flight list
    retried,   \* those of them that were sent a second time
    expiring,  \* the report packetTimeouts is ending, or none
    owed,      \* how often ARCS may still answer each report
    made,      \* ghost: reports made (l_arcsSeq)
    last,      \* ghost: the report popped last
    resent, expired,   \* ghost: how many reports were sent twice, and expired
    adrift,            \* ghost: the last one got lost, or expired too early
    asked, runs        \* ghost: the latest request and how often it has run

recvVars == <<lastSeq, queue, finish, rpc, held>>
listVars == <<inflight, retried, expiring>>
reportGhosts == <<last, resent, expired, adrift>>
requestGhosts == <<asked, runs>>
ghosts == <<made, reportGhosts, requestGhosts>>
vars == <<rgs, open, inbox, recvVars, sendq, listVars, owed, ghosts>>

Reports == 1 .. MaxReports
Seqs == 0 .. MaxSeq
None == 0

Answer(r) == [kind |-> "answer", number |-> r]
Query(s) == [kind |-> "query", number |-> s]
Command(s) == [kind |-> "command", number |-> s]
Messages ==
    {Answer(r) : r \in Reports} \cup {Query(s) : s \in Seqs} \cup {Command(s) : s \in Seqs}

(* ginflight_pro.mutex, held across steps by packetTimeouts only. *)
MutexFree == expiring = None

Init ==
    /\ rgs = TRUE /\ open = TRUE /\ inbox = <<>>
    /\ lastSeq = 0 /\ queue = <<>> /\ finish = FALSE
    /\ rpc = "listen" /\ held = None
    /\ sendq = <<>> /\ inflight = {} /\ retried = {} /\ expiring = None
    /\ owed = [r \in Reports |-> 0]
    /\ made = 0 /\ last = None
    /\ resent = 0 /\ expired = 0 /\ adrift = FALSE
    /\ asked = 0 /\ runs = 0

-----------------------------------------------------------------------------
(* The registration of the terminals, under way when the threads start, *)
(* and what comes from ARCS *)

BeginRegistration ==
    /\ ~rgs /\ rgs' = TRUE
    /\ UNCHANGED <<open, inbox, recvVars, sendq, listVars, owed, ghosts>>

EndRegistration ==
    /\ rgs /\ rgs' = FALSE
    /\ UNCHANGED <<open, inbox, recvVars, sendq, listVars, owed, ghosts>>

(* A message whose last byte is followed by another within the 2 ms of the *)
(* timer is lost, and the other with it.                                   *)
Arrive(m) ==
    /\ open
    /\ IF rgs
       THEN open' = FALSE /\ UNCHANGED inbox
       ELSE inbox' = (IF inbox = <<>> THEN <<m>> ELSE <<>>) /\ UNCHANGED open

ArriveAnswer(r) ==
    /\ owed[r] > 0
    /\ owed' = [owed EXCEPT ![r] = @ - 1]
    /\ Arrive(Answer(r))
    /\ UNCHANGED <<rgs, recvVars, sendq, listVars, ghosts>>

ArriveRequest(m) ==
    /\ Arrive(m)
    /\ UNCHANGED <<rgs, recvVars, sendq, listVars, owed, ghosts>>

(* An error or the end of the file. *)
PortFails ==
    /\ open /\ open' = FALSE
    /\ UNCHANGED <<rgs, inbox, recvVars, sendq, listVars, owed, ghosts>>

-----------------------------------------------------------------------------
(* ArcsCommon_process, each turn of the receive thread *)

(* A turn begins, with a message to take or with none; whatever it does    *)
(* with the message, ArcsCommon_qrPro follows.                             *)
TurnBegins == rpc = "listen" /\ ~rgs

NoMessage ==
    /\ TurnBegins
    /\ rpc' = "report"
    /\ UNCHANGED <<rgs, open, inbox, lastSeq, queue, finish, held, sendq, listVars,
                   owed, ghosts>>

Take(m) == TurnBegins /\ inbox = <<m>> /\ inbox' = <<>>

(* The answer to any report clears the flag, before the in-flight mutex is *)
(* taken ...                                                               *)
TakeAnswer(r) ==
    /\ Take(Answer(r))
    /\ finish' = FALSE
    /\ held' = r /\ rpc' = "match"
    /\ UNCHANGED <<rgs, open, lastSeq, queue, sendq, listVars, owed, ghosts>>

(* ... and then ends the report with its sequence number. *)
MatchAnswer ==
    /\ rpc = "match" /\ MutexFree
    /\ inflight' = inflight \ {held} /\ retried' = retried \ {held}
    /\ held' = None /\ rpc' = "report"
    /\ UNCHANGED <<rgs, open, inbox, lastSeq, queue, finish, sendq, expiring, owed, ghosts>>

(* What the properties remember of a request: how often it has run since   *)
(* another one came in between.                                            *)
Remember(s, ran) ==
    /\ asked' = s
    /\ runs' = (IF asked = s THEN runs ELSE 0) + ran

(* A repeat of the last request is acknowledged and nothing else. *)
Repeated(s) ==
    /\ s = lastSeq
    /\ Remember(s, 0)
    /\ UNCHANGED <<lastSeq, queue, made>>

(* A query while reports of the last one wait is refused. *)
Refused(s) ==
    /\ s # lastSeq /\ lastSeq' = s /\ queue # <<>>
    /\ Remember(s, 0)
    /\ UNCHANGED <<queue, made>>

(* Mutation: the sequence number of a query that runs is not remembered.   *)
AcceptedForgotten(s) ==
    /\ s # lastSeq /\ queue = <<>>
    /\ Remember(s, 1)
    /\ \E n \in 0 .. Batch : \E k \in 0 .. n :
           /\ k < QueueSize /\ made + n <= MaxReports
           /\ made' = made + n
           /\ queue' = [i \in 1 .. k |-> made + i]
    /\ UNCHANGED lastSeq

(* Any other is answered by some reports, none if there is no such         *)
(* terminal; those the ring has no place for, or malloc no memory, are     *)
(* lost.                                                                   *)
Accepted(s) ==
    /\ s # lastSeq /\ lastSeq' = s /\ queue = <<>>
    /\ Remember(s, 1)
    /\ \E n \in 0 .. Batch : \E k \in 0 .. n :
           /\ k < QueueSize /\ made + n <= MaxReports
           /\ made' = made + n
           /\ queue' = [i \in 1 .. k |-> made + i]

TakeQuery(s) ==
    /\ Take(Query(s))
    /\ Repeated(s) \/ Refused(s) \/ Accepted(s)
    /\ rpc' = "report"
    /\ UNCHANGED <<rgs, open, finish, held, sendq, listVars, owed, reportGhosts>>

(* The commands that change terminals, matrix, camera or settings. *)
TakeCommand(s) ==
    /\ Take(Command(s))
    /\ lastSeq' = s
    /\ Remember(s, IF s = lastSeq THEN 0 ELSE 1)
    /\ rpc' = "report"
    /\ UNCHANGED <<rgs, open, queue, finish, held, sendq, listVars, owed, made, reportGhosts>>

(* ArcsCommon_qrPro: the next report goes to the send queue ... *)
NoReport ==
    /\ rpc = "report" /\ (finish \/ queue = <<>>)
    /\ rpc' = "listen"
    /\ UNCHANGED <<rgs, open, inbox, lastSeq, queue, finish, held, sendq, listVars,
                   owed, ghosts>>

(* Mutation: the flag is not looked at. *)
PopAlways ==
    /\ rpc = "report" /\ queue # <<>>
    /\ held' = Head(queue) /\ last' = Head(queue) /\ queue' = Tail(queue)
    /\ rpc' = "mark"

Pop ==
    /\ rpc = "report" /\ ~finish /\ queue # <<>>
    /\ held' = Head(queue) /\ last' = Head(queue) /\ queue' = Tail(queue)
    /\ rpc' = "mark"

ReportSaved ==
    /\ Pop
    /\ sendq' = Append(sendq, Head(queue)) /\ adrift' = FALSE
    /\ UNCHANGED <<rgs, open, inbox, lastSeq, finish, listVars, owed, made, resent, expired,
                   requestGhosts>>

(* ... unless system_tx has no memory for it, which nobody looks at.       *)
ReportLost ==
    /\ Pop
    /\ adrift' = TRUE
    /\ UNCHANGED <<rgs, open, inbox, lastSeq, finish, sendq, listVars, owed, made, resent,
                   expired, requestGhosts>>

(* ... and then the flag is set. *)
Mark ==
    /\ rpc = "mark"
    /\ finish' = TRUE
    /\ held' = None /\ rpc' = "listen"
    /\ UNCHANGED <<rgs, open, inbox, lastSeq, queue, sendq, listVars, owed, ghosts>>

-----------------------------------------------------------------------------
(* ArcsCommon_sendPacket, in the send thread under the in-flight mutex *)

(* What is written to an open port ARCS may answer once. *)
Written(r) == owed' = [owed EXCEPT ![r] = IF open THEN @ + 1 ELSE @]

SendTracked ==
    /\ sendq # <<>> /\ MutexFree
    /\ inflight' = inflight \cup {Head(sendq)}
    /\ sendq' = Tail(sendq)
    /\ Written(Head(sendq))
    /\ UNCHANGED <<rgs, open, inbox, recvVars, retried, expiring, ghosts>>

(* No memory for the node: the report is neither listed nor sent. *)
SendFails ==
    /\ sendq # <<>> /\ MutexFree
    /\ sendq' = Tail(sendq)
    /\ adrift' = (adrift \/ Head(sendq) = last)
    /\ UNCHANGED <<rgs, open, inbox, recvVars, listVars, owed, made, last, resent, expired,
                   requestGhosts>>

-----------------------------------------------------------------------------
(* ArcsCommon_packetTimeouts, in the epoll thread under the in-flight mutex *)

(* Mutation: a report sent again is not marked, and is sent again anew.    *)
ResendUnmarked(r) ==
    /\ MutexFree /\ r \in inflight \ retried
    /\ resent' = resent + 1
    /\ Written(r)
    /\ UNCHANGED <<rgs, open, inbox, recvVars, sendq, listVars, made, last, expired, adrift,
                   requestGhosts>>

(* The first time its timer elapses a report is sent again. *)
Resend(r) ==
    /\ MutexFree /\ r \in inflight \ retried
    /\ retried' = retried \cup {r}
    /\ resent' = resent + 1
    /\ Written(r)
    /\ UNCHANGED <<rgs, open, inbox, recvVars, sendq, inflight, expiring, made, last, expired,
                   adrift, requestGhosts>>

(* Mutation: the flag stays when a report expires. *)
ExpireUncleared(r) ==
    /\ MutexFree /\ r \in retried
    /\ expiring' = r
    /\ expired' = expired + 1
    /\ adrift' = (adrift \/ (rpc = "mark" /\ held = r))
    /\ UNCHANGED <<rgs, open, inbox, recvVars, sendq, inflight, retried, owed, made, last,
                   resent, requestGhosts>>

(* The second time the flag is cleared ... *)
Expire(r) ==
    /\ MutexFree /\ r \in retried
    /\ finish' = FALSE
    /\ expiring' = r
    /\ expired' = expired + 1
    /\ adrift' = (adrift \/ (rpc = "mark" /\ held = r))
    /\ UNCHANGED <<rgs, open, inbox, lastSeq, queue, rpc, held, sendq, inflight, retried, owed,
                   made, last, resent, requestGhosts>>

(* ... and the report taken off the list. *)
Remove ==
    /\ expiring # None
    /\ inflight' = inflight \ {expiring} /\ retried' = retried \ {expiring}
    /\ expiring' = None
    /\ UNCHANGED <<rgs, open, inbox, recvVars, sendq, owed, ghosts>>

-----------------------------------------------------------------------------
Turn ==
    \/ NoMessage
    \/ \E r \in Reports : TakeAnswer(r)
    \/ \E s \in Seqs : TakeQuery(s) \/ TakeCommand(s)

RestOfTurn == MatchAnswer \/ NoReport \/ ReportSaved \/ ReportLost \/ Mark

Environment ==
    \/ BeginRegistration \/ EndRegistration \/ PortFails
    \/ \E r \in Reports : ArriveAnswer(r)
    \/ \E s \in Seqs : ArriveRequest(Query(s)) \/ ArriveRequest(Command(s))

ReceiveThread == Turn \/ RestOfTurn
SendThread == SendTracked \/ SendFails
TimerElapses == \E r \in Reports : Resend(r) \/ Expire(r)

Next == Environment \/ ReceiveThread \/ SendThread \/ TimerElapses \/ Remove

Spec == Init /\ [][Next]_vars

(* The threads keep running, timers elapse and a registration ends.  The   *)
(* mutex is free, and no registration under way, again and again: a turn   *)
(* comes every millisecond, an expiry every two seconds.                   *)
Fairness ==
    /\ WF_vars(EndRegistration)
    /\ SF_vars(ReceiveThread) /\ SF_vars(SendThread)
    /\ SF_vars(TimerElapses) /\ WF_vars(Remove)

FairSpec == Spec /\ Fairness

-----------------------------------------------------------------------------
(* Every variable holds what the code can store in it; the ring keeps one  *)
(* place unused, and only reports in the list were sent again.             *)
TypeOK ==
    /\ rgs \in BOOLEAN /\ open \in BOOLEAN /\ finish \in BOOLEAN
    /\ inbox \in {<<>>} \cup {<<m>> : m \in Messages}
    /\ lastSeq \in Seqs /\ asked \in Seqs /\ runs \in Nat
    /\ queue \in Seq(Reports) /\ Len(queue) < QueueSize
    /\ rpc \in {"listen", "match", "report", "mark"}
    /\ {held, last, expiring} \subseteq Reports \cup {None}
    /\ sendq \in Seq(Reports) /\ made \in 0 .. MaxReports
    /\ retried \subseteq inflight /\ inflight \subseteq Reports
    /\ owed \in [Reports -> 0 .. 2]
    /\ {resent, expired} \subseteq 0 .. MaxReports /\ adrift \in BOOLEAN

(* The reports ARCS has not answered and the host has not given up. *)
Out == {sendq[i] : i \in DOMAIN sendq} \cup inflight

(* The flag stands for one report on its way: with nothing sent again, no  *)
(* second report goes out before the first has ended.  A report that was   *)
(* sent again can be answered again, or after it has expired, and every    *)
(* such answer lets one more report out.                                   *)
WindowBounded == Cardinality(Out) <= 1 + resent + expired

(* While the flag is set, the report it was set for is on its way, so that *)
(* its answer or its expiry will clear it; or it had got lost for want of  *)
(* memory, or had expired before the flag was set.                         *)
FlagMeansPending == finish => last \in Out \/ adrift

(* Both. *)
OneAtATime == WindowBounded /\ FlagMeansPending

(* Why at most so many are out.  Reports go out in the order of their       *)
(* numbers, each one once.                                                 *)
OnceInOrder ==
    /\ last <= made
    /\ \A i \in DOMAIN queue : /\ last < queue[i] /\ queue[i] <= made
                               /\ \A j \in 1 .. (i - 1) : queue[j] < queue[i]
    /\ \A i \in DOMAIN sendq : /\ sendq[i] <= last
                               /\ \A j \in 1 .. (i - 1) : sendq[j] < sendq[i]
                               /\ \A r \in inflight : r < sendq[i]
    /\ \A r \in inflight : r <= last

Unsent == {r \in Reports : r > last} \cup {sendq[i] : i \in DOMAIN sendq}

(* So each is sent again once, expires once, and is answered at most once  *)
(* for each time it was sent.                                              *)
Due(r) == owed[r] + (IF inbox = <<Answer(r)>> THEN 1 ELSE 0)

EachTwiceAtMost ==
    /\ resent + Cardinality(Unsent \cup (inflight \ retried)) <= MaxReports
    /\ expired + Cardinality(Unsent \cup (inflight \ {expiring})) <= MaxReports
    /\ \A r \in Reports :
          /\ r \in Unsent => Due(r) = 0
          /\ r \in inflight \ retried => Due(r) <= 1
          /\ Due(r) <= 2

(* An answer to come that ends no report in the list lets one more report  *)
(* out.                                                                    *)
Listed == inflight \ (IF rpc = "match" THEN {held} ELSE {})
Waiting == {sendq[i] : i \in DOMAIN sendq} \cup Listed
Spare(k) == {r \in Reports : Due(r) >= k + (IF r \in Listed THEN 1 ELSE 0)}
FlagRaised == finish \/ rpc = "mark"

WindowKept ==
    Cardinality(Waiting) + Cardinality(Spare(1)) + Cardinality(Spare(2))
        <= resent + expired + (IF FlagRaised THEN 1 ELSE 0)

(* The flag is raised for the report popped last, and never while an       *)
(* answer is being matched.                                                *)
FlagKept ==
    /\ rpc \in {"mark", "match"} => ~finish
    /\ rpc = "mark" => held = last
    /\ expiring # None => expiring \in retried
    /\ FlagRaised => last \in Out \ {expiring} \/ adrift

(* The accounts of the reports out: none goes out twice, none is sent      *)
(* again, expires or is answered more often than it may, and every report  *)
(* that is out, and every answer that would let out one more, is paid for  *)
(* by the flag, a second sending or an expiry.                             *)
ReportsAccounted == OnceInOrder /\ EachTwiceAtMost /\ WindowKept /\ FlagKept

(* Types and accounts: what is owed and what was sent again has no bound   *)
(* but the one of its account.                                             *)
QueryInv == TypeOK /\ ReportsAccounted

(* A request that ARCS repeats, because the acknowledgement got lost, does *)
(* not run a second time unless it sends another one in between.           *)
RunsOnce == runs <= 1

(* The flag is set and nothing is on its way that would clear it. *)
Stranded == finish /\ Out = {} /\ adrift

(* The reports of a query go out, whatever gets lost between the host and  *)
(* ARCS, with a closed port, and whatever ARCS asks meanwhile: the next    *)
(* query is not refused for ever.                                          *)
ReportsDrain == (queue # <<>>) ~> (queue = <<>> \/ Stranded)
=============================================================================
