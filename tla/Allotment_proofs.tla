--------------------------- MODULE Allotment_proofs ---------------------------
(* The allotment for every set of terminals, size of the table and of the  *)
(* queue, and number of requests, crashes and allotments started over.     *)
EXTENDS Allotment, FiniteSetTheorems, SequenceTheorems, TLAPS

(* A set of numbers has a least one. *)
LEMMA LeastNumber ==
  ASSUME NEW T, T \subseteq Nat, T # {}
  PROVE  \E x \in T : \A y \in T : x <= y
<1>1. PICK x \in T : \A y \in T : ~(<<y, x>> \in OpToRel(<, Nat))
  BY NatLessThanWellFounded, WFMin
<1>2. ASSUME NEW y \in T PROVE x <= y
  <2>1. x \in Nat /\ y \in Nat
    OBVIOUS
  <2>2. ~(y < x)
    BY <1>1, <2>1 DEF OpToRel
  <2> QED
    BY <2>1, <2>2
<1> QED
  BY <1>1, <1>2

(* Addresses are numbers, and there are at least two. *)
LEMMA AddrFacts ==
  /\ Addrs \subseteq Nat /\ 0 \in Addrs /\ 1 \in Addrs /\ NoAddr \notin Addrs
  /\ \A i \in Addrs : i + 1 < MaxTerminals => i + 1 \in Addrs
BY AllotmentAssumption DEF AllotmentAssumption, Addrs

(* The search for a free slot finds one if there is one. *)
LEMMA NextFreeFinds ==
  ASSUME index \in Addrs, FreeSlots # {}
  PROVE  NextFree \in FreeSlots
<1> DEFINE Ahead(s) == (s - index) % MaxTerminals
           Dist == {Ahead(s) : s \in FreeSlots}
<1>1. \A s \in FreeSlots : Ahead(s) \in Nat
  <2> SUFFICES ASSUME NEW s \in FreeSlots PROVE Ahead(s) \in Nat
    OBVIOUS
  <2>1. s - index \in Int /\ MaxTerminals \in Nat \ {0}
    BY AddrFacts, AllotmentAssumption DEF FreeSlots, AllotmentAssumption
  <2> QED
    BY <2>1
<1>2. PICK x \in Dist : \A y \in Dist : x <= y
  <2>1. Dist \subseteq Nat /\ Dist # {}
    BY <1>1
  <2> HIDE DEF Dist
  <2> QED
    BY <2>1, LeastNumber
<1>3. \E s \in FreeSlots : \A r \in FreeSlots : Ahead(s) <= Ahead(r)
  BY <1>2
<1> QED
  BY <1>3 DEF NextFree

(* The types, by what the actions change together. *)
SlotTypes ==
  /\ table \in [Addrs -> Addrs \cup {NoAddr}]
  /\ index \in Addrs
  /\ renewed \in BOOLEAN
ServedTypes ==
  /\ allotQueue \in Seq(Requests) /\ Len(allotQueue) < QueueSize
  /\ cur \in [term : Terminals, already : BOOLEAN, renew : BOOLEAN] \cup {NoRequest}
LockTypes == {saving, searching} \subseteq Addrs \cup {NoAddr}
FileTypes == fileNum \in Nat /\ fileRecs \in Seq(Addrs) /\ total \in Nat
NodeTypes ==
  /\ node \in [Terminals -> [addr : Addrs \cup {NoAddr}, rgst : BOOLEAN, known : BOOLEAN]]
  /\ unbound \subseteq Addrs
TermTypes ==
  /\ held \in [Terminals -> Addrs \cup {NoAddr}]
  /\ offers \subseteq (Terminals \X (Addrs \cup {NoAddr}))
  /\ confirms \subseteq Terminals
BoundTypes ==
  /\ reallotPc \in {"idle", "table", "nodes", "file", "send"}
  /\ overrun \in BOOLEAN /\ gapLoaded \in BOOLEAN
  /\ requests \in 0 .. MaxRequests
  /\ restarts \in 0 .. MaxRestarts
  /\ reallots \in 0 .. MaxReallots

LEMMA TypesAreTypes ==
  /\ TypeOK <=> /\ SlotTypes /\ ServedTypes /\ LockTypes /\ FileTypes /\ NodeTypes
                /\ TermTypes /\ BoundTypes
  /\ TypeOK' <=> /\ SlotTypes' /\ ServedTypes' /\ LockTypes' /\ FileTypes' /\ NodeTypes'
                 /\ TermTypes' /\ BoundTypes'
BY DEF TypeOK, SlotTypes, ServedTypes, LockTypes, FileTypes, NodeTypes, TermTypes, BoundTypes

-----------------------------------------------------------------------------
(* Types *)

(* What a slot is given, and which one. *)
LEMMA NewAddrsFit ==
  ASSUME SlotTypes, NEW new \in NewAddrs
  PROVE  /\ new[1] \in Addrs \cup {NoAddr} /\ new[2] \in Addrs
         /\ FreeSlots # {} => new[2] \in FreeSlots /\ new[1] = new[2]
<1>1. CASE FreeSlots # {}
  <2>1. NextFree \in FreeSlots /\ NextFree \in Addrs
    BY <1>1, NextFreeFinds DEF SlotTypes, FreeSlots
  <2>2. new = <<NextFree, NextFree>>
    BY <1>1 DEF NewAddrs
  <2> QED
    BY <2>1, <2>2
<1>2. CASE FreeSlots = {}
  <2>1. PICK a \in (IF index + 1 < MaxTerminals THEN {table[index + 1]}
                    ELSE Addrs \cup {NoAddr}) : new = <<a, 0>>
    BY <1>2 DEF NewAddrs
  <2>2. a \in Addrs \cup {NoAddr}
    BY <2>1, AddrFacts DEF SlotTypes
  <2> QED
    BY <1>2, <2>1, <2>2, AddrFacts
<1> QED
  BY <1>1, <1>2

LEMMA TakeTypes ==
  ASSUME SlotTypes, TermTypes, NEW t \in Terminals, NEW slot \in Addrs,
         NEW a \in Addrs \cup {NoAddr}, Take(t, slot, a)
  PROVE  SlotTypes' /\ offers' \subseteq (Terminals \X (Addrs \cup {NoAddr}))
<1>1. /\ table' = [table EXCEPT ![slot] = a] /\ index' = slot /\ renewed' = FALSE
      /\ offers' = offers \cup {<<t, a>>}
  BY DEF Take
<1>2. offers' \subseteq (Terminals \X (Addrs \cup {NoAddr}))
  BY <1>1 DEF TermTypes
<1>3. renewed' \in BOOLEAN
  BY <1>1
<1>4. table' \in [Addrs -> Addrs \cup {NoAddr}] /\ index' \in Addrs
  BY <1>1 DEF SlotTypes
<1> QED
  BY <1>2, <1>3, <1>4 DEF SlotTypes

(* An offer, of the current address or of a new one. *)
LEMMA OfferTypes ==
  ASSUME SlotTypes, TermTypes, LockTypes, NEW t \in Terminals, OfferCurrent(t) \/ OfferNew(t)
  PROVE  /\ SlotTypes' /\ offers' \subseteq (Terminals \X (Addrs \cup {NoAddr}))
         /\ searching' \in Addrs \cup {NoAddr}
<1>1. CASE OfferCurrent(t)
  <2>1. table[index] \in Addrs \cup {NoAddr}
    BY DEF SlotTypes
  <2>2. /\ offers' = offers \cup {<<t, table[index]>>}
        /\ UNCHANGED <<table, index, renewed, searching>>
    BY <1>1 DEF OfferCurrent
  <2> QED
    BY <2>1, <2>2 DEF SlotTypes, TermTypes, LockTypes
<1>2. CASE OfferNew(t) /\ Endless
  <2>1. searching' = table[1] /\ UNCHANGED <<table, index, renewed, offers>>
    BY <1>2 DEF OfferNew
  <2> QED
    BY <2>1, AddrFacts DEF SlotTypes, TermTypes
<1>3. CASE OfferNew(t) /\ ~Endless
  <2>1. UNCHANGED searching
    BY <1>3 DEF OfferNew
  <2>2. PICK new \in NewAddrs : Take(t, new[2], new[1])
    BY <1>3 DEF OfferNew
  <2>3. new[1] \in Addrs \cup {NoAddr} /\ new[2] \in Addrs
    BY NewAddrsFit
  <2> QED
    BY <2>1, <2>2, <2>3, TakeTypes DEF LockTypes
<1> QED
  BY <1>1, <1>2, <1>3

(* What terminal_register makes of a node. *)
LEMMA RegisteredType ==
  ASSUME NEW n \in [addr : Addrs \cup {NoAddr}, rgst : BOOLEAN, known : BOOLEAN],
         NEW a \in Addrs
  PROVE  Registered(n, a) \in [addr : Addrs \cup {NoAddr}, rgst : BOOLEAN, known : BOOLEAN]
BY DEF Registered, Node

LEMMA ReceiveTypes ==
  ASSUME TypeOK, ServingKept, Allotting
  PROVE  TypeOK'
<1> USE TypesAreTypes
<1>1. CASE AllotBegin
  <2>1. /\ allotQueue # <<>> /\ allotQueue' = Tail(allotQueue)
        /\ cur' = Served(Head(allotQueue).term, Head(allotQueue).already, FALSE)
        /\ UNCHANGED <<saving, node, unbound, total, fileVars, held, confirms,
                       reallotPc, gapLoaded, boundVars>>
    BY <1>1 DEF AllotBegin
  <2>2. /\ Head(allotQueue) \in Requests /\ Tail(allotQueue) \in Seq(Requests)
        /\ Len(Tail(allotQueue)) < QueueSize
    BY <2>1, AllotmentAssumption DEF ServedTypes, AllotmentAssumption
  <2>3. ServedTypes'
    BY <2>1, <2>2 DEF ServedTypes, Served, Requests
  <2>4. PICK t \in Terminals : OfferCurrent(t) \/ OfferNew(t)
    BY <1>1, <2>2 DEF AllotBegin, Allot, Requests
  <2>5. overrun' \in BOOLEAN
    BY <2>4 DEF OfferCurrent, OfferNew, BoundTypes
  <2>6. BoundTypes'
    BY <2>1, <2>5 DEF BoundTypes, boundVars
  <2>7. LockTypes' /\ FileTypes' /\ NodeTypes' /\ TermTypes'
    BY <2>1, <2>4, OfferTypes DEF LockTypes, FileTypes, fileVars, NodeTypes, TermTypes
  <2> QED
    BY <2>3, <2>4, <2>6, <2>7, OfferTypes
<1>2. CASE SearchEnds
  <2>1. PICK s \in FreeSlots : Take(cur.term, s, IF s = 0 THEN searching ELSE s)
    BY <1>2 DEF SearchEnds
  <2>2. /\ searching # NoAddr /\ searching' = NoAddr
        /\ UNCHANGED <<allotQueue, cur, saving, node, unbound, total, fileVars,
                       held, confirms, reallotPc, ghostVars, boundVars>>
    BY <1>2 DEF SearchEnds
  <2>3. cur.term \in Terminals
    BY <2>2 DEF ServingKept, ServedTypes
  <2>4. s \in Addrs /\ (IF s = 0 THEN searching ELSE s) \in Addrs \cup {NoAddr}
    BY DEF FreeSlots, LockTypes
  <2>5. SlotTypes' /\ offers' \subseteq (Terminals \X (Addrs \cup {NoAddr}))
    BY <2>1, <2>3, <2>4, TakeTypes
  <2>6. ServedTypes' /\ LockTypes' /\ FileTypes' /\ NodeTypes'
    BY <2>2 DEF ServedTypes, LockTypes, FileTypes, fileVars, NodeTypes
  <2>7. TermTypes' /\ BoundTypes'
    BY <2>2, <2>5 DEF TermTypes, BoundTypes, ghostVars, boundVars
  <2> QED
    BY <2>5, <2>6, <2>7
<1>3. CASE AllotStale
  <2>1. /\ allotQueue # <<>> /\ allotQueue' = Tail(allotQueue)
        /\ UNCHANGED <<table, index, renewed, cur, saving, searching, node,
                   unbound, total, fileVars, termVars, reallotPc, ghostVars,
                   boundVars>>
    BY <1>3 DEF AllotStale
  <2>2. Tail(allotQueue) \in Seq(Requests) /\ Len(Tail(allotQueue)) < QueueSize
    BY <2>1, AllotmentAssumption DEF ServedTypes, AllotmentAssumption
  <2>3. ServedTypes' /\ SlotTypes' /\ LockTypes' /\ FileTypes' /\ NodeTypes'
    BY <2>1, <2>2 DEF ServedTypes, SlotTypes, LockTypes, FileTypes, fileVars, NodeTypes
  <2>4. TermTypes' /\ BoundTypes'
    BY <2>1 DEF TermTypes, termVars, BoundTypes, ghostVars, boundVars
  <2> QED
    BY <2>3, <2>4
<1>4. CASE AllotFinish
  <2>1. UNCHANGED <<table, index, allotQueue, searching, node, unbound, total,
                    fileRecs, termVars, reallotPc, ghostVars, boundVars>>
    BY <1>4 DEF AllotFinish
  <2>2a. renewed' \in BOOLEAN
    BY <1>4 DEF AllotFinish, SlotTypes
  <2>2b. fileNum' \in Nat
    BY <1>4 DEF AllotFinish, FileTypes
  <2>2c. saving' \in Addrs \cup {NoAddr}
    BY <1>4 DEF AllotFinish, SlotTypes, LockTypes
  <2>2d. cur' \in {cur, NoRequest}
    BY <1>4 DEF AllotFinish
  <2>3. SlotTypes' /\ ServedTypes' /\ LockTypes' /\ FileTypes' /\ NodeTypes'
    BY <2>1, <2>2a, <2>2b, <2>2c, <2>2d DEF ServedTypes, SlotTypes, LockTypes, FileTypes, NodeTypes
  <2>4. TermTypes' /\ BoundTypes'
    BY <2>1 DEF TermTypes, termVars, BoundTypes, ghostVars, boundVars
  <2> QED
    BY <2>3, <2>4
<1>5. CASE WriteRecord
  <2>1. /\ saving \in Addrs /\ fileRecs' = Append(fileRecs, saving) /\ total' = total + 1
        /\ saving' = NoAddr /\ cur' = NoRequest
        /\ UNCHANGED <<table, index, renewed, allotQueue, searching, node,
                       unbound, fileNum, termVars, reallotPc, ghostVars, boundVars>>
    BY <1>5 DEF WriteRecord, LockTypes
  <2>2. FileTypes' /\ SlotTypes' /\ ServedTypes' /\ LockTypes' /\ NodeTypes'
    BY <2>1 DEF FileTypes, ServedTypes, SlotTypes, LockTypes, NodeTypes
  <2>3. TermTypes' /\ BoundTypes'
    BY <2>1 DEF TermTypes, termVars, BoundTypes, ghostVars, boundVars
  <2> QED
    BY <2>2, <2>3
<1>6. CASE AllotExpire
  <2>1. /\ cur' = NoRequest /\ table' \in {table, [table EXCEPT ![index] = NoAddr]}
        /\ UNCHANGED <<index, renewed, allotQueue, saving, searching, node,
                       unbound, total, fileVars, termVars, reallotPc, ghostVars, boundVars>>
    BY <1>6 DEF AllotExpire
  <2>2. FileTypes' /\ SlotTypes' /\ ServedTypes' /\ LockTypes' /\ NodeTypes'
    BY <2>1 DEF FileTypes, fileVars, ServedTypes, SlotTypes, LockTypes, NodeTypes
  <2>3. TermTypes' /\ BoundTypes'
    BY <2>1 DEF TermTypes, termVars, BoundTypes, ghostVars, boundVars
  <2> QED
    BY <2>2, <2>3
<1> QED
  BY <1>1, <1>2, <1>3, <1>4, <1>5, <1>6 DEF Allotting

(* The frames of the terminals, the operator, a crash and an offer taken. *)
LEMMA OtherTypes ==
  ASSUME TypeOK,
         \/ ReallotBegin \/ Reallotting \/ Restart
         \/ \E t \in Terminals :
               \/ RecvRequest(t) \/ RecvConfirm(t) \/ RecvRegistration(t)
               \/ \E a \in Addrs \cup {NoAddr} : TakeOffer(t, a)
  PROVE  TypeOK'
<1> USE TypesAreTypes
<1>1. ASSUME NEW t \in Terminals, RecvRequest(t) PROVE TypeOK'
  <2> DEFINE request == [term |-> t, already |-> held[t] # NoAddr]
  <2>1. /\ requests < MaxRequests /\ requests' = requests + 1 /\ node' = Meet(t)
        /\ \/ allotQueue' = allotQueue
           \/ Len(allotQueue) # QueueSize - 1 /\ allotQueue' = Append(allotQueue, request)
        /\ UNCHANGED <<table, index, renewed, cur, saving, searching, unbound,
                       total, fileVars, termVars, reallotPc, ghostVars, restarts, reallots>>
    BY <1>1 DEF RecvRequest
  <2>2. allotQueue' \in Seq(Requests) /\ Len(allotQueue') < QueueSize
    <3>1. request \in Requests
      BY DEF Requests
    <3> HIDE DEF request
    <3> QED
      BY <2>1, <3>1, AllotmentAssumption DEF ServedTypes, AllotmentAssumption
  <2>3. SlotTypes' /\ LockTypes' /\ FileTypes'
    BY <2>1 DEF SlotTypes, LockTypes, FileTypes, fileVars
  <2>4. ServedTypes'
    BY <2>1, <2>2 DEF ServedTypes
  <2>5. NodeTypes'
    BY <2>1 DEF NodeTypes, Meet, Node
  <2>6. TermTypes'
    BY <2>1 DEF TermTypes, termVars
  <2>7. BoundTypes'
    BY <2>1, AllotmentAssumption DEF BoundTypes, ghostVars, AllotmentAssumption
  <2> QED
    BY <2>3, <2>4, <2>5, <2>6, <2>7
<1>2. ASSUME NEW t \in Terminals, RecvConfirm(t) PROVE TypeOK'
  <2>1. /\ confirms' = confirms \ {t} /\ node' = Meet(t)
        /\ cur' = (IF cur.term = t THEN Served(t, cur.already, TRUE) ELSE cur)
        /\ UNCHANGED <<table, index, renewed, allotQueue, saving, searching,
                   unbound, total, fileVars, held, offers, reallotPc, ghostVars, boundVars>>
    BY <1>2 DEF RecvConfirm
  <2>2. cur.already \in BOOLEAN
    <3>1. CASE cur = NoRequest
      BY <3>1 DEF NoRequest, Served
    <3>2. CASE cur \in [term : Terminals, already : BOOLEAN, renew : BOOLEAN]
      BY <3>2
    <3> QED
      BY <3>1, <3>2 DEF ServedTypes
  <2>3. Served(t, cur.already, TRUE) \in [term : Terminals, already : BOOLEAN, renew : BOOLEAN]
    BY <2>2 DEF Served
  <2>4. ServedTypes'
    BY <2>1, <2>3 DEF ServedTypes
  <2>5. SlotTypes' /\ LockTypes' /\ FileTypes'
    BY <2>1 DEF SlotTypes, LockTypes, FileTypes, fileVars
  <2>6. NodeTypes'
    BY <2>1 DEF NodeTypes, Meet, Node
  <2>7. TermTypes' /\ BoundTypes'
    BY <2>1 DEF TermTypes, BoundTypes, ghostVars, boundVars
  <2> QED
    BY <2>4, <2>5, <2>6, <2>7
<1>3. ASSUME NEW t \in Terminals, RecvRegistration(t) PROVE TypeOK'
  <2> DEFINE a == held[t]
             NodeSet == [addr : Addrs \cup {NoAddr}, rgst : BOOLEAN, known : BOOLEAN]
  <2>1. /\ a \in Addrs /\ NoNode \in NodeSet
        /\ \A u \in Terminals : node[u] \in NodeSet /\ node[u].addr \in Addrs \cup {NoAddr}
                                /\ node[u].rgst \in BOOLEAN
    BY <1>3 DEF RecvRegistration, TermTypes, NodeTypes, NoNode, Node
  <2>2. /\ Node(node[t].addr, node[t].rgst, TRUE) \in NodeSet
        /\ \A u \in Terminals : Node(a, node[u].rgst, TRUE) \in NodeSet
        /\ Node(a, NoNode.rgst, TRUE) \in NodeSet
    BY <2>1 DEF Node, NoNode
  <2>3. /\ Registered(Node(node[t].addr, node[t].rgst, TRUE), a) \in NodeSet
        /\ \A u \in Terminals : Registered(Node(a, node[u].rgst, TRUE), a) \in NodeSet
        /\ Registered(Node(a, NoNode.rgst, TRUE), a) \in NodeSet
    BY <2>1, <2>2, RegisteredType
  <2>4. /\ unbound' \in {unbound, unbound \ {a}}
        /\ \E n \in NodeSet :
              \/ node' = [node EXCEPT ![t] = n]
              \/ \E u \in Terminals : node' = [node EXCEPT ![u] = NoNode, ![t] = n]
    <3> HIDE DEF NodeSet
    <3> QED
      BY <1>3, <2>3 DEF RecvRegistration
  <2>5. NodeTypes'
    BY <2>1, <2>4 DEF NodeTypes
  <2>6. UNCHANGED <<table, index, renewed, allotQueue, cur, saving, searching,
                   total, fileVars, termVars, reallotPc, ghostVars, boundVars>>
    BY <1>3 DEF RecvRegistration
  <2>7. SlotTypes' /\ ServedTypes' /\ LockTypes' /\ FileTypes' /\ TermTypes' /\ BoundTypes'
    BY <2>6 DEF SlotTypes, ServedTypes, LockTypes, FileTypes, fileVars, TermTypes, termVars,
                BoundTypes, ghostVars, boundVars
  <2> QED
    BY <2>5, <2>7
<1>4. ASSUME NEW t \in Terminals, NEW a \in Addrs \cup {NoAddr}, TakeOffer(t, a) PROVE TypeOK'
  <2>1. TermTypes'
    BY <1>4 DEF TakeOffer, TermTypes
  <2>2. UNCHANGED <<hostVars, fileVars, reallotPc, ghostVars, boundVars>>
    BY <1>4 DEF TakeOffer
  <2>3. SlotTypes' /\ ServedTypes' /\ LockTypes' /\ FileTypes' /\ NodeTypes' /\ BoundTypes'
    BY <2>2 DEF SlotTypes, ServedTypes, LockTypes, FileTypes, fileVars, hostVars, NodeTypes,
                BoundTypes, ghostVars, boundVars
  <2> QED
    BY <2>1, <2>3
<1>5. CASE ReallotBegin
  <2>1. /\ reallots < MaxReallots /\ reallots' = reallots + 1
        /\ reallotPc' = "table" /\ index' = 0 /\ renewed' = FALSE
        /\ UNCHANGED <<table, allotQueue, cur, saving, searching, node, unbound,
                   total, fileVars, termVars, ghostVars, requests, restarts>>
    BY <1>5 DEF ReallotBegin
  <2>2. renewed' \in BOOLEAN
    BY <2>1
  <2>3. SlotTypes'
    BY <2>1, <2>2, AddrFacts DEF SlotTypes
  <2>4. BoundTypes'
    BY <2>1, AllotmentAssumption DEF BoundTypes, ghostVars, AllotmentAssumption
  <2>5. ServedTypes' /\ LockTypes' /\ FileTypes' /\ NodeTypes' /\ TermTypes'
    BY <2>1 DEF ServedTypes, LockTypes, FileTypes, fileVars, NodeTypes, TermTypes, termVars
  <2> QED
    BY <2>3, <2>4, <2>5
<1>6. CASE Reallotting
  <2>1. UNCHANGED <<index, renewed, allotQueue, cur, saving, searching, total, ghostVars, boundVars,
                    offers, confirms>>
    BY <1>6 DEF Reallotting, ReallotTable, ReallotNodes, ReallotFile, ReallotSend, hostVars,
                termVars
  <2>2. reallotPc' \in {"idle", "table", "nodes", "file", "send"}
    BY <1>6 DEF Reallotting, ReallotTable, ReallotNodes, ReallotFile, ReallotSend
  <2>3. table' \in {table, EmptyTable}
    BY <1>6 DEF Reallotting, ReallotTable, ReallotNodes, ReallotFile, ReallotSend, hostVars
  <2>4. NodeTypes'
    <3>1. CASE ReallotNodes
      BY <3>1 DEF ReallotNodes, NodeTypes, Node
    <3>2. CASE ReallotTable \/ ReallotFile \/ ReallotSend
      BY <3>2 DEF ReallotTable, ReallotFile, ReallotSend, NodeTypes, hostVars
    <3> QED
      BY <1>6, <3>1, <3>2 DEF Reallotting
  <2>5. held' \in [Terminals -> Addrs \cup {NoAddr}]
    BY <1>6 DEF Reallotting, ReallotTable, ReallotNodes, ReallotFile, ReallotSend, TermTypes,
                termVars
  <2>6. fileNum' \in Nat /\ fileRecs' \in Seq(Addrs)
    <3>1. CASE ReallotFile
      BY <3>1, EmptySeq DEF ReallotFile
    <3>2. CASE ReallotTable \/ ReallotNodes \/ ReallotSend
      BY <3>2 DEF ReallotTable, ReallotNodes, ReallotSend, FileTypes, fileVars
    <3> QED
      BY <1>6, <3>1, <3>2 DEF Reallotting
  <2>7. SlotTypes' /\ ServedTypes' /\ LockTypes' /\ FileTypes'
    BY <2>1, <2>3, <2>6 DEF SlotTypes, EmptyTable, ServedTypes, LockTypes, FileTypes
  <2>8. TermTypes' /\ BoundTypes'
    BY <2>1, <2>2, <2>5 DEF TermTypes, BoundTypes, ghostVars, boundVars
  <2> QED
    BY <2>4, <2>7, <2>8
<1>7. CASE Restart
  <2>1. /\ restarts < MaxRestarts /\ restarts' = restarts + 1
        /\ table' = Loaded /\ unbound' = {Loaded[s] : s \in Addrs} \ {NoAddr}
        /\ total' = (IF Readable THEN fileNum ELSE 0)
        /\ node' = [t \in Terminals |-> NoNode]
        /\ index' = 0 /\ renewed' = FALSE
        /\ allotQueue' = <<>> /\ cur' = NoRequest /\ saving' = NoAddr /\ searching' = NoAddr
        /\ reallotPc' = "idle"
        /\ UNCHANGED <<fileVars, termVars, overrun, requests, reallots>>
    BY <1>7 DEF Restart
  <2>2. gapLoaded' \in BOOLEAN
    BY <1>7 DEF Restart, BoundTypes
  <2>3. Loaded \in [Addrs -> Addrs \cup {NoAddr}]
    <3>1. CASE ~Readable
      BY <3>1 DEF Loaded, EmptyTable
    <3>2. CASE Readable
      <4>1. \A s \in Addrs : s < fileNum => fileRecs[s + 1] \in Addrs
        <5> SUFFICES ASSUME NEW s \in Addrs, s < fileNum PROVE fileRecs[s + 1] \in Addrs
          OBVIOUS
        <5>1. fileNum = Len(fileRecs) /\ fileRecs \in Seq(Addrs) /\ s \in Nat
          BY <3>2, AddrFacts DEF Readable, FileTypes
        <5>2. s + 1 \in 1 .. Len(fileRecs)
          BY <5>1
        <5> QED
          BY <5>1, <5>2, ElementOfSeq
      <4> QED
        BY <3>2, <4>1 DEF Loaded
    <3> QED
      BY <3>1, <3>2
  <2>4. NodeTypes'
    BY <2>1, <2>3 DEF NodeTypes, NoNode, Node
  <2>5. renewed' \in BOOLEAN
    BY <2>1
  <2>6. SlotTypes'
    BY <2>1, <2>3, <2>5, AddrFacts DEF SlotTypes
  <2>7. ServedTypes' /\ LockTypes' /\ FileTypes'
    BY <2>1, AllotmentAssumption DEF ServedTypes, LockTypes, FileTypes, fileVars,
                                     AllotmentAssumption
  <2>8. TermTypes'
    BY <2>1 DEF TermTypes, termVars
  <2>9. BoundTypes'
    BY <2>1, <2>2, AllotmentAssumption DEF BoundTypes, AllotmentAssumption
  <2> QED
    BY <2>4, <2>6, <2>7, <2>8, <2>9
<1> QED
  BY <1>1, <1>2, <1>3, <1>4, <1>5, <1>6, <1>7

LEMMA TypesStep ==
  ASSUME TypeOK, ServingKept, [Next]_vars
  PROVE  TypeOK'
<1>1. CASE UNCHANGED vars
  BY <1>1 DEF vars, hostVars, fileVars, termVars, ghostVars, boundVars, TypeOK
<1> QED
  BY <1>1, ReceiveTypes, OtherTypes DEF Next

-----------------------------------------------------------------------------
(* The lock, the nodes and the slots *)

LEMMA ContainsAppend ==
  ASSUME NEW S, NEW q \in Seq(S), NEW a \in S, NEW e
  PROVE  Contains(Append(q, a), e) <=> Contains(q, e) \/ e = a
<1>1. /\ Len(Append(q, a)) = Len(q) + 1 /\ Len(q) \in Nat
      /\ \A i \in 1 .. Len(q) : Append(q, a)[i] = q[i]
      /\ Append(q, a)[Len(q) + 1] = a
  BY AppendProperties, LenProperties
<1> QED
  BY <1>1 DEF Contains

(* A request that is served is not the absent one. *)
LEMMA ServedIsOne ==
  /\ \A t \in Terminals, b, r \in BOOLEAN : Served(t, b, r) # NoRequest
  /\ TypeOK /\ cur.renew => cur # NoRequest
  /\ TypeOK /\ cur # NoRequest => cur.term \in Terminals
<1>1. \A t \in Terminals, b, r \in BOOLEAN : Served(t, b, r).term # NoRequest.term
  BY AllotmentAssumption DEF Served, NoRequest, AllotmentAssumption
<1>2. NoRequest.renew = FALSE
  BY DEF Served, NoRequest
<1> QED
  BY <1>1, <1>2 DEF TypeOK

(* As long as the operator and the crashes stay out of it, only the         *)
(* receive thread touches the slots, the lock and the file, and only it     *)
(* ends a request.                                                          *)
LEMMA ReceiveThreadOnly ==
  ASSUME TypeOK, ServingKept, [Next]_vars, Undisturbed'
  PROVE  /\ Undisturbed
         /\ ~ReallotBegin /\ ~Reallotting /\ ~Restart
         /\ ~Allotting => /\ UNCHANGED <<table, index, renewed, saving, searching, fileRecs,
                                         overrun, gapLoaded, restarts, reallots>>
                          /\ cur # NoRequest => cur' # NoRequest
<1>1. restarts \in Nat /\ reallots \in Nat
  BY AllotmentAssumption DEF TypeOK, AllotmentAssumption
<1>2. ~ReallotBegin /\ ~Restart
  BY <1>1 DEF Undisturbed, ReallotBegin, Restart
<1>3. ~Reallotting
  <2>1. Reallotting => reallotPc # "idle" /\ reallots' = reallots
    BY DEF Reallotting, ReallotTable, ReallotNodes, ReallotFile, ReallotSend, boundVars
  <2> QED
    BY <1>1, <2>1 DEF Undisturbed, ServingKept
<1>4. ASSUME Allotting PROVE Undisturbed
  <2>1. UNCHANGED boundVars
    BY <1>4 DEF Allotting, AllotBegin, SearchEnds, AllotStale, AllotFinish, WriteRecord, AllotExpire
  <2> QED
    BY <2>1 DEF Undisturbed, boundVars
<1>5. ASSUME NEW t \in Terminals,
             \/ RecvRequest(t) \/ RecvConfirm(t) \/ RecvRegistration(t)
             \/ \E a \in Addrs \cup {NoAddr} : TakeOffer(t, a)
      PROVE  /\ UNCHANGED <<table, index, renewed, saving, searching, fileRecs,
                            overrun, gapLoaded, restarts, reallots>>
             /\ cur # NoRequest => cur' # NoRequest
  <2>1. UNCHANGED <<table, index, renewed, saving, searching, fileRecs,
                    overrun, gapLoaded, restarts, reallots>>
    BY <1>5 DEF RecvRequest, RecvConfirm, RecvRegistration, TakeOffer, fileVars, ghostVars,
                boundVars, hostVars
  <2>2. cur' \in {cur, Served(t, cur.already, TRUE)}
    BY <1>5 DEF RecvRequest, RecvConfirm, RecvRegistration, TakeOffer, hostVars
  <2>3. Served(t, cur.already, TRUE).term # NoRequest.term
    BY AllotmentAssumption DEF Served, NoRequest, AllotmentAssumption
  <2> QED
    BY <2>1, <2>2, <2>3
<1>6. UNCHANGED vars => UNCHANGED <<table, index, renewed, saving, searching, fileRecs,
                            overrun, gapLoaded, restarts, reallots, cur>>
  BY DEF vars, hostVars, fileVars, ghostVars, boundVars
<1> QED
  BY <1>2, <1>3, <1>4, <1>5, <1>6 DEF Next, Undisturbed

(* What AllotBegin leaves behind, by the kind of offer it makes. *)
LEMMA BeginOffers ==
  ASSUME TypeOK, AllotBegin
  PROVE  \E t \in Terminals :
           /\ cur' # NoRequest /\ UNCHANGED <<saving, node, unbound, fileVars, restarts, reallots>>
           /\ saving = NoAddr /\ searching = NoAddr /\ cur = NoRequest
           /\ \/ /\ offers' = offers \cup {<<t, table[index]>>}
                 /\ ~renewed /\ table[index] # NoAddr
                 /\ UNCHANGED <<table, index, renewed, searching, overrun>>
              \/ /\ FreeSlots = {} /\ overrun' = TRUE
                 /\ UNCHANGED <<table, index, renewed, offers>>
              \/ /\ searching' = NoAddr /\ overrun' = (overrun \/ FreeSlots = {})
                 /\ \E new \in NewAddrs : Take(t, new[2], new[1])
<1>1. Head(allotQueue) \in Requests
  BY DEF AllotBegin, TypeOK
<1>2. PICK t \in Terminals, b \in BOOLEAN :
         /\ cur' = Served(t, b, FALSE)
         /\ \/ OfferCurrent(t) /\ ~renewed /\ table[index] # NoAddr
            \/ OfferNew(t)
  BY <1>1 DEF AllotBegin, Allot, Requests
<1>3. cur' # NoRequest
  BY <1>2, ServedIsOne
<1>4. /\ UNCHANGED <<saving, node, unbound, fileVars, restarts, reallots>>
      /\ saving = NoAddr /\ searching = NoAddr /\ cur = NoRequest
  BY DEF AllotBegin, LockFree, boundVars
<1>5. CASE OfferCurrent(t) /\ ~renewed /\ table[index] # NoAddr
  BY <1>3, <1>4, <1>5 DEF OfferCurrent
<1>6. CASE OfferNew(t) /\ Endless
  BY <1>3, <1>4, <1>6 DEF OfferNew, Endless
<1>7. CASE OfferNew(t) /\ ~Endless
  BY <1>3, <1>4, <1>7 DEF OfferNew
<1> QED
  BY <1>2, <1>5, <1>6, <1>7

(* The lock is held for a request, and by one of its two holders only. *)
LEMMA HolderStep ==
  ASSUME TypeOK, ServingKept, [Next]_vars
  PROVE  /\ saving' # NoAddr \/ searching' # NoAddr => cur' # NoRequest
         /\ saving' = NoAddr \/ searching' = NoAddr
         /\ searching' # NoAddr => overrun'
         /\ reallotPc' # "idle" => reallots' > 0
<1> DEFINE Held == /\ saving # NoAddr \/ searching # NoAddr => cur # NoRequest
                   /\ saving = NoAddr \/ searching = NoAddr
                   /\ searching # NoAddr => overrun
<1>1. Held
  BY DEF ServingKept
<1>2. CASE AllotBegin
  <2>1. PICK t \in Terminals :
           /\ cur' # NoRequest /\ saving' = NoAddr
           /\ \/ searching' = NoAddr
              \/ overrun' = TRUE
    BY <1>2, BeginOffers
  <2>2. UNCHANGED <<reallotPc, reallots>>
    BY <1>2 DEF AllotBegin, boundVars
  <2> QED
    BY <2>1, <2>2 DEF ServingKept
<1>3. CASE SearchEnds \/ AllotStale \/ WriteRecord \/ AllotExpire
  <2>1. Held'
    BY <1>1, <1>3 DEF SearchEnds, AllotStale, WriteRecord, AllotExpire, LockFree, ghostVars
  <2>2. UNCHANGED <<reallotPc, reallots>>
    BY <1>3 DEF SearchEnds, AllotStale, WriteRecord, AllotExpire, boundVars
  <2> QED
    BY <2>1, <2>2 DEF ServingKept
<1>4. CASE AllotFinish
  <2>1. cur # NoRequest /\ searching' = NoAddr
    BY <1>4, ServedIsOne DEF AllotFinish, LockFree
  <2>2. cur' = cur \/ saving' = NoAddr
    BY <1>4 DEF AllotFinish, LockFree
  <2>3. UNCHANGED <<reallotPc, reallots>>
    BY <1>4 DEF AllotFinish, boundVars
  <2> QED
    BY <2>1, <2>2, <2>3 DEF ServingKept
<1>5. CASE ReallotBegin \/ Reallotting
  <2>1. reallots \in Nat
    BY AllotmentAssumption DEF TypeOK, AllotmentAssumption
  <2>2. UNCHANGED <<saving, searching, cur, overrun>>
    BY <1>5 DEF ReallotBegin, Reallotting, ReallotTable, ReallotNodes, ReallotFile, ReallotSend,
                hostVars, ghostVars
  <2>3. reallots' > 0
    <3>1. CASE ReallotBegin
      BY <2>1, <3>1 DEF ReallotBegin
    <3>2. CASE Reallotting
      <4>1. reallotPc # "idle" /\ reallots' = reallots
        BY <3>2 DEF Reallotting, ReallotTable, ReallotNodes, ReallotFile, ReallotSend, boundVars
      <4> QED
        BY <4>1 DEF ServingKept
    <3> QED
      BY <1>5, <3>1, <3>2
  <2> QED
    BY <1>1, <2>2, <2>3
<1>6. CASE Restart
  <2>1. saving' = NoAddr /\ searching' = NoAddr /\ reallotPc' = "idle"
    BY <1>6 DEF Restart
  <2> QED
    BY <2>1
<1>7. ASSUME NEW t \in Terminals,
             \/ RecvRequest(t) \/ RecvConfirm(t) \/ RecvRegistration(t)
             \/ \E a \in Addrs \cup {NoAddr} : TakeOffer(t, a)
      PROVE  /\ UNCHANGED <<saving, searching, overrun, reallotPc, reallots>>
             /\ cur # NoRequest => cur' # NoRequest
  <2>1. UNCHANGED <<saving, searching, overrun, reallotPc, reallots>>
    BY <1>7 DEF RecvRequest, RecvConfirm, RecvRegistration, TakeOffer, ghostVars, boundVars, hostVars
  <2>2. cur' \in {cur, Served(t, cur.already, TRUE)}
    BY <1>7 DEF RecvRequest, RecvConfirm, RecvRegistration, TakeOffer, hostVars
  <2>3. Served(t, cur.already, TRUE).term # NoRequest.term
    BY AllotmentAssumption DEF Served, NoRequest, AllotmentAssumption
  <2> QED
    BY <2>1, <2>2, <2>3
<1>8. CASE UNCHANGED vars
  BY <1>8 DEF vars, hostVars, ghostVars, boundVars, ServingKept
<1>9. ASSUME /\ UNCHANGED <<saving, searching, overrun, reallotPc, reallots>>
             /\ cur # NoRequest => cur' # NoRequest
      PROVE  /\ saving' # NoAddr \/ searching' # NoAddr => cur' # NoRequest
             /\ saving' = NoAddr \/ searching' = NoAddr
             /\ searching' # NoAddr => overrun'
             /\ reallotPc' # "idle" => reallots' > 0
  BY <1>9 DEF ServingKept
<1> QED
  BY <1>2, <1>3, <1>4, <1>5, <1>6, <1>7, <1>8, <1>9 DEF Next, Allotting

(* The table stays full under the search, and what is renewed is in the     *)
(* file or on its way there.                                                *)
LEMMA ServingStep ==
  ASSUME TypeOK, ServingKept, [Next]_vars
  PROVE  ServingKept'
<1> DEFINE Full == searching # NoAddr => FreeSlots = {}
           Written == saving # NoAddr => renewed /\ saving = table[index]
           InFile == renewed /\ saving = NoAddr /\ table[index] # NoAddr
                         => Contains(fileRecs, table[index])
<1>1. SUFFICES ASSUME Undisturbed' PROVE Full' /\ Written' /\ InFile'
  BY HolderStep DEF ServingKept
<1>2. Undisturbed /\ Full /\ Written /\ InFile /\ ~ReallotBegin /\ ~Reallotting /\ ~Restart
  BY <1>1, ReceiveThreadOnly DEF ServingKept
<1>3. CASE ~Allotting
  <2>1. UNCHANGED <<table, index, renewed, saving, searching, fileRecs>>
    BY <1>1, <1>3, ReceiveThreadOnly
  <2> QED
    BY <1>2, <2>1 DEF FreeSlots
<1>4. CASE AllotBegin
  <2>1. /\ saving' = NoAddr /\ saving = NoAddr /\ searching = NoAddr /\ fileRecs' = fileRecs
        /\ \/ UNCHANGED <<table, index, renewed, searching>>
           \/ FreeSlots = {} /\ UNCHANGED <<table, index, renewed>>
           \/ /\ searching' = NoAddr
              /\ renewed' = FALSE
    BY <1>4, BeginOffers DEF fileVars, Take
  <2>2. CASE UNCHANGED <<table, index, renewed, searching>>
    BY <1>2, <2>1, <2>2 DEF FreeSlots
  <2>3. CASE FreeSlots = {} /\ UNCHANGED <<table, index, renewed>>
    BY <1>2, <2>1, <2>3 DEF FreeSlots
  <2>4. CASE searching' = NoAddr /\ renewed' = FALSE
    BY <2>1, <2>4
  <2> QED
    BY <2>1, <2>2, <2>3, <2>4
<1>5. CASE SearchEnds
  BY <1>2, <1>5 DEF SearchEnds
<1>6. CASE AllotStale
  <2>1. UNCHANGED <<table, index, renewed, saving, searching, fileRecs>>
    BY <1>6 DEF AllotStale, fileVars
  <2> QED
    BY <1>2, <2>1 DEF FreeSlots
<1>7. CASE AllotFinish
  <2>1. /\ saving = NoAddr /\ UNCHANGED <<table, index, searching, fileRecs>> /\ searching = NoAddr
        /\ \/ renewed' = TRUE /\ saving' = table[index] /\ table[index] # NoAddr
           \/ UNCHANGED <<renewed, saving>>
    BY <1>7 DEF AllotFinish, LockFree
  <2> QED
    BY <1>2, <2>1
<1>8. CASE WriteRecord
  <2>1. /\ saving # NoAddr /\ saving' = NoAddr /\ fileRecs' = Append(fileRecs, saving)
        /\ UNCHANGED <<table, index, renewed, searching>>
    BY <1>8 DEF WriteRecord
  <2>2. saving \in Addrs /\ fileRecs \in Seq(Addrs)
    BY <2>1 DEF TypeOK
  <2>3. Contains(fileRecs', saving)
    BY <2>1, <2>2, ContainsAppend
  <2> QED
    BY <1>2, <2>1, <2>3 DEF FreeSlots
<1>9. CASE AllotExpire
  <2>1. /\ saving = NoAddr /\ searching = NoAddr
        /\ UNCHANGED <<index, renewed, saving, searching, fileRecs>>
        /\ renewed => table' = table
    BY <1>9 DEF AllotExpire, LockFree, fileVars
  <2> QED
    BY <1>2, <2>1
<1> QED
  BY <1>3, <1>4, <1>5, <1>6, <1>7, <1>8, <1>9 DEF Allotting

-----------------------------------------------------------------------------
(* The queue *)

(* QueuedOnce, without the sequence of those who ask. *)
Apart(q, t) ==
  /\ \A i, j \in 1 .. Len(q) : q[i].term = q[j].term => i = j
  /\ \A i \in 1 .. Len(q) : q[i].term # t
Asking(q, t) == Append([i \in DOMAIN q |-> q[i].term], t)

LEMMA ApartIs ==
  ASSUME NEW q \in Seq(Requests), NEW t
  PROVE  IsInjective(Asking(q, t)) <=> Apart(q, t)
<1> DEFINE terms == [i \in 1 .. Len(q) |-> q[i].term]
           all == Asking(q, t)
<1>1. Len(q) \in Nat /\ DOMAIN q = 1 .. Len(q)
  BY LenProperties
<1>2. terms \in Seq({q[i].term : i \in 1 .. Len(q)}) /\ Len(terms) = Len(q)
  <2>1. terms \in [1 .. Len(q) -> {q[i].term : i \in 1 .. Len(q)}]
    OBVIOUS
  <2> HIDE DEF terms
  <2> QED
    BY <1>1, <2>1, LenProperties, IsASeq
<1>3. all = Append(terms, t)
  BY <1>1 DEF Asking
<1>4. /\ DOMAIN all = 1 .. (Len(q) + 1)
      /\ \A i \in 1 .. Len(q) : all[i] = terms[i]
      /\ all[Len(q) + 1] = t
  <2> HIDE DEF terms, all
  <2>1. terms \in Seq({q[i].term : i \in 1 .. Len(q)} \cup {t})
    BY <1>2, SeqMonotonic
  <2> QED
    BY <1>2, <1>3, <2>1, AppendProperties, LenProperties
<1>5. \A i \in 1 .. Len(q) : all[i] = q[i].term
  BY <1>4
<1> HIDE DEF all, terms
<1>6. ASSUME IsInjective(all) PROVE Apart(q, t)
  <2>1. \A i, j \in 1 .. (Len(q) + 1) : all[i] = all[j] => i = j
    BY <1>4, <1>6 DEF IsInjective
  <2> QED
    BY <1>1, <1>4, <1>5, <2>1 DEF Apart
<1>7. ASSUME Apart(q, t) PROVE IsInjective(all)
  <2> SUFFICES ASSUME NEW i \in 1 .. (Len(q) + 1), NEW j \in 1 .. (Len(q) + 1), all[i] = all[j]
               PROVE  i = j
    BY <1>4 DEF IsInjective
  <2> QED
    BY <1>1, <1>4, <1>5, <1>7 DEF Apart
<1> QED
  BY <1>6, <1>7 DEF all

LEMMA ApartTail ==
  ASSUME NEW q \in Seq(Requests), q # <<>>, NEW t, Apart(q, t)
  PROVE  Apart(Tail(q), t) /\ Apart(Tail(q), Head(q).term)
<1>1. /\ Len(Tail(q)) = Len(q) - 1 /\ Len(q) \in Nat \ {0} /\ Head(q) = q[1]
      /\ \A i \in 1 .. Len(Tail(q)) : Tail(q)[i] = q[i + 1]
  BY HeadTailProperties, LenProperties, EmptySeq
<1> QED
  BY <1>1 DEF Apart

LEMMA ApartAppend ==
  ASSUME NEW q \in Seq(Requests), NEW r \in Requests, NEW t, Apart(q, t),
         \A i \in 1 .. Len(q) : q[i].term # r.term, r.term # t
  PROVE  Apart(Append(q, r), t)
<1>1. /\ Len(Append(q, r)) = Len(q) + 1 /\ Len(q) \in Nat
      /\ \A i \in 1 .. Len(q) : Append(q, r)[i] = q[i]
      /\ Append(q, r)[Len(q) + 1] = r
  BY AppendProperties, LenProperties
<1> QED
  BY <1>1 DEF Apart

LEMMA QueuedStep ==
  ASSUME TypeOK, TypeOK', ServingKept, QueuedOnce, [Next]_vars
  PROVE  QueuedOnce'
<1>1. allotQueue \in Seq(Requests) /\ allotQueue' \in Seq(Requests)
  BY DEF TypeOK
<1>2. Apart(allotQueue, cur.term)
  BY <1>1, ApartIs DEF QueuedOnce, Asking
<1>3. SUFFICES Apart(allotQueue', cur'.term)
  <2>1. PICK q \in Seq(Requests) : q = allotQueue'
    BY <1>1
  <2>2. PICK t : t = cur'.term
    OBVIOUS
  <2>3. IsInjective(Asking(q, t)) <=> Apart(q, t)
    BY <2>1, ApartIs
  <2>4. QueuedOnce' <=> IsInjective(Asking(q, t))
    BY <2>1, <2>2 DEF QueuedOnce, Asking
  <2> QED
    BY <2>1, <2>2, <2>3, <2>4
<1>4. ASSUME NEW t, \/ t = cur.term
                    \/ t = NoTerminal
      PROVE  Apart(allotQueue, t)
  <2>1. \A i \in 1 .. Len(allotQueue) : allotQueue[i] \in Requests
    BY <1>1, ElementOfSeq
  <2>2. \A i \in 1 .. Len(allotQueue) : allotQueue[i].term # NoTerminal
    BY <2>1, AllotmentAssumption DEF Requests, AllotmentAssumption
  <2> QED
    BY <1>2, <1>4, <2>2 DEF Apart
<1>5. NoRequest.term = NoTerminal
  BY DEF NoRequest, Served
<1>6. CASE AllotBegin
  <2>1. allotQueue # <<>> /\ allotQueue' = Tail(allotQueue) /\ cur'.term = Head(allotQueue).term
    BY <1>6 DEF AllotBegin, Served
  <2> QED
    BY <1>1, <1>2, <2>1, ApartTail
<1>7. CASE AllotStale
  <2>1. allotQueue # <<>> /\ allotQueue' = Tail(allotQueue) /\ cur' = cur
    BY <1>7 DEF AllotStale
  <2> QED
    BY <1>1, <1>2, <2>1, ApartTail
<1>8. ASSUME NEW t \in Terminals, RecvRequest(t) PROVE Apart(allotQueue', cur'.term)
  <2> DEFINE request == [term |-> t, already |-> held[t] # NoAddr]
  <2>1. /\ cur' = cur
        /\ \/ allotQueue' = allotQueue
           \/ /\ ~\E i \in DOMAIN allotQueue : allotQueue[i].term = t
              /\ cur.term # t
              /\ allotQueue' = Append(allotQueue, request)
    BY <1>8 DEF RecvRequest
  <2>2. request \in Requests /\ request.term = t
    BY DEF Requests
  <2>3. DOMAIN allotQueue = 1 .. Len(allotQueue)
    BY <1>1, LenProperties
  <2> HIDE DEF request
  <2>4. CASE allotQueue' = allotQueue
    BY <1>2, <2>1, <2>4
  <2>5. CASE /\ ~\E i \in DOMAIN allotQueue : allotQueue[i].term = t
             /\ cur.term # t
             /\ allotQueue' = Append(allotQueue, request)
    <3>1. Apart(Append(allotQueue, request), cur.term)
      BY <1>1, <1>2, <2>2, <2>3, <2>5, ApartAppend
    <3> QED
      BY <2>1, <2>5, <3>1
  <2> QED
    BY <2>1, <2>4, <2>5
<1>9. CASE SearchEnds \/ AllotFinish \/ WriteRecord \/ AllotExpire
  <2>1. allotQueue' = allotQueue /\ cur' \in {cur, NoRequest}
    BY <1>9 DEF SearchEnds, AllotFinish, WriteRecord, AllotExpire
  <2> QED
    BY <1>4, <1>5, <2>1
<1>10. CASE ReallotBegin \/ Reallotting
  <2>1. allotQueue' = allotQueue /\ cur' = cur
    BY <1>10 DEF ReallotBegin, Reallotting, ReallotTable, ReallotNodes, ReallotFile, ReallotSend,
                 hostVars
  <2> QED
    BY <1>2, <2>1
<1>11. CASE Restart
  <2>1. allotQueue' = <<>>
    BY <1>11 DEF Restart
  <2> QED
    BY <2>1 DEF Apart
<1>12. ASSUME NEW t \in Terminals,
             \/ RecvConfirm(t) \/ RecvRegistration(t)
             \/ \E a \in Addrs \cup {NoAddr} : TakeOffer(t, a)
       PROVE Apart(allotQueue', cur'.term)
  <2>a. Served(t, cur.already, TRUE).term = t
    BY DEF Served
  <2>b. allotQueue' = allotQueue
    BY <1>12 DEF RecvConfirm, RecvRegistration, TakeOffer, hostVars
  <2>c. \/ cur' = cur
        \/ cur.term = t /\ cur' = Served(t, cur.already, TRUE)
    <3>1. CASE RecvConfirm(t)
      BY <3>1 DEF RecvConfirm
    <3>2. CASE RecvRegistration(t) \/ \E a \in Addrs \cup {NoAddr} : TakeOffer(t, a)
      <4>1. cur' = cur
        BY <3>2 DEF RecvRegistration, TakeOffer, hostVars
      <4> QED
        BY <4>1
    <3> QED
      BY <1>12, <3>1, <3>2
  <2>1. allotQueue' = allotQueue /\ cur'.term = cur.term
    BY <2>a, <2>b, <2>c
  <2> QED
    BY <1>2, <2>1
<1>13. CASE UNCHANGED vars
  <2>1. allotQueue' = allotQueue /\ cur' = cur
    BY <1>13 DEF vars, hostVars
  <2> QED
    BY <1>2, <2>1
<1> QED
  BY <1>6, <1>7, <1>8, <1>9, <1>10, <1>11, <1>12, <1>13 DEF Next, Allotting

-----------------------------------------------------------------------------
(* The nodes *)

(* A registration gives an address to a node that has none, or hands the    *)
(* node that has it over.                                                   *)
LEMMA RegistrationSteps ==
  ASSUME TypeOK, NodesKept, Undisturbed, NEW t \in Terminals, RecvRegistration(t)
  PROVE  \E n \in [addr : Addrs \cup {NoAddr}, rgst : BOOLEAN, known : BOOLEAN] :
           /\ n.addr # NoAddr => n.rgst /\ n.known
           /\ unbound' = unbound
           /\ \/ /\ node' = [node EXCEPT ![t] = n]
                 /\ node[t].addr # NoAddr => n.addr = node[t].addr
              \/ \E u \in Terminals \ {t} :
                    /\ node' = [node EXCEPT ![u] = NoNode, ![t] = n]
                    /\ n.addr = node[u].addr /\ node[t].addr = NoAddr
<1> DEFINE a == held[t]
           NodeSet == [addr : Addrs \cup {NoAddr}, rgst : BOOLEAN, known : BOOLEAN]
<1>1. /\ a \in Addrs /\ a # NoAddr
      /\ \A u \in Terminals : node[u] \in NodeSet /\ node[u].addr \in Addrs \cup {NoAddr}
                              /\ node[u].rgst \in BOOLEAN
  BY DEF RecvRegistration, TypeOK
<1>2. /\ unbound = {}
      /\ \A u \in Terminals : node[u].addr # NoAddr => node[u].rgst /\ node[u].known
  BY DEF NodesKept
<1>3. CASE /\ node' = [node EXCEPT ![t] = Registered(Node(node[t].addr, node[t].rgst, TRUE), a)]
           /\ UNCHANGED unbound
  <2>1. CASE ~node[t].rgst /\ Listed(a)
    <3>1. Registered(Node(node[t].addr, node[t].rgst, TRUE), a) = Node(a, TRUE, TRUE)
      BY <2>1 DEF Registered, Node
    <3>2. /\ Node(a, TRUE, TRUE) \in NodeSet /\ Node(a, TRUE, TRUE).rgst
          /\ Node(a, TRUE, TRUE).known
      BY <1>1 DEF Node
    <3>3. node[t].addr = NoAddr
      BY <1>2, <2>1
    <3> QED
      BY <1>3, <3>1, <3>2, <3>3
  <2>2. CASE ~(~node[t].rgst /\ Listed(a))
    <3>1. Registered(Node(node[t].addr, node[t].rgst, TRUE), a)
            = Node(node[t].addr, node[t].rgst, TRUE)
      BY <2>2 DEF Registered, Node
    <3>2. /\ Node(node[t].addr, node[t].rgst, TRUE) \in NodeSet
          /\ Node(node[t].addr, node[t].rgst, TRUE).rgst = node[t].rgst
          /\ Node(node[t].addr, node[t].rgst, TRUE).known
          /\ Node(node[t].addr, node[t].rgst, TRUE).addr = node[t].addr
      BY <1>1 DEF Node
    <3> QED
      BY <1>2, <1>3, <3>1, <3>2
  <2> QED
    BY <2>1, <2>2
<1>4. ASSUME NEW u \in Terminals \ {t}, node[u].addr = a, ~node[t].known, UNCHANGED unbound,
             node' = [node EXCEPT ![u] = NoNode,
                                  ![t] = Registered(Node(a, node[u].rgst, TRUE), a)]
      PROVE  \E n \in NodeSet :
               /\ n.addr # NoAddr => n.rgst /\ n.known
               /\ node' = [node EXCEPT ![u] = NoNode, ![t] = n]
               /\ n.addr = node[u].addr /\ node[t].addr = NoAddr
  <2>1. node[u].rgst = TRUE
    BY <1>1, <1>2, <1>4
  <2>2. node[t].addr = NoAddr
    BY <1>2, <1>4
  <2>3. Registered(Node(a, node[u].rgst, TRUE), a) = Node(a, TRUE, TRUE)
    BY <2>1 DEF Registered, Node
  <2>4. /\ Node(a, TRUE, TRUE) \in NodeSet /\ Node(a, TRUE, TRUE).rgst
        /\ Node(a, TRUE, TRUE).known /\ Node(a, TRUE, TRUE).addr = a
    BY <1>1 DEF Node
  <2> QED
    BY <1>4, <2>2, <2>3, <2>4
<1>5. \/ /\ node' = [node EXCEPT ![t] = Registered(Node(node[t].addr, node[t].rgst, TRUE), a)]
         /\ UNCHANGED unbound
      \/ \E u \in Terminals \ {t} :
            /\ node[u].addr = a /\ ~node[t].known /\ UNCHANGED unbound
            /\ node' = [node EXCEPT ![u] = NoNode,
                                    ![t] = Registered(Node(a, node[u].rgst, TRUE), a)]
  BY <1>2 DEF RecvRegistration
<1> HIDE DEF NodeSet
<1> QED
  BY <1>3, <1>4, <1>5 DEF NodeSet

(* A node that has an address keeps it, or hands it to another.             *)
LEMMA NodesStep ==
  ASSUME TypeOK, ServingKept, NodesKept, [Next]_vars, Undisturbed'
  PROVE  /\ NodesKept'
         /\ \A x \in Addrs : HasNode(x) => HasNode(x)'
<1> DEFINE NodeSet == [addr : Addrs \cup {NoAddr}, rgst : BOOLEAN, known : BOOLEAN]
<1>1. /\ Undisturbed /\ ~ReallotBegin /\ ~Reallotting /\ ~Restart
      /\ unbound = {} /\ node \in [Terminals -> NodeSet]
      /\ \A u \in Terminals : node[u].addr # NoAddr => node[u].rgst /\ node[u].known
  BY ReceiveThreadOnly DEF NodesKept, TypeOK
<1>2. \A x \in Addrs : x # NoAddr
  BY AddrFacts
<1>3. ASSUME UNCHANGED <<node, unbound>>
      PROVE  NodesKept' /\ \A x \in Addrs : HasNode(x) => HasNode(x)'
  BY <1>1, <1>3 DEF NodesKept, HasNode
<1>4. CASE Allotting \/ UNCHANGED vars
  <2>1. UNCHANGED <<node, unbound>>
    BY <1>4 DEF Allotting, AllotBegin, SearchEnds, AllotStale, AllotFinish, WriteRecord,
                AllotExpire, vars, hostVars
  <2> QED
    BY <1>3, <2>1
<1>5. ASSUME NEW t \in Terminals, NEW a \in Addrs \cup {NoAddr}, TakeOffer(t, a)
      PROVE  UNCHANGED <<node, unbound>>
  BY <1>5 DEF TakeOffer, hostVars
<1>6. ASSUME NEW t \in Terminals, RecvRequest(t) \/ RecvConfirm(t)
      PROVE  NodesKept' /\ \A x \in Addrs : HasNode(x) => HasNode(x)'
  <2>1. node' = Meet(t) /\ unbound' = unbound
    BY <1>6 DEF RecvRequest, RecvConfirm
  <2>2. /\ Node(node[t].addr, node[t].rgst, TRUE).addr = node[t].addr
        /\ Node(node[t].addr, node[t].rgst, TRUE).rgst = node[t].rgst
        /\ Node(node[t].addr, node[t].rgst, TRUE).known
    BY DEF Node
  <2>3. \A u \in Terminals : /\ node'[u].addr = node[u].addr /\ node'[u].rgst = node[u].rgst
                             /\ node[u].known => node'[u].known
    BY <1>1, <2>1, <2>2 DEF Meet
  <2> QED
    BY <1>1, <2>1, <2>3 DEF NodesKept, HasNode
<1>7. ASSUME NEW t \in Terminals, RecvRegistration(t)
      PROVE  NodesKept' /\ \A x \in Addrs : HasNode(x) => HasNode(x)'
  <2>1. PICK n \in NodeSet :
           /\ n.addr # NoAddr => n.rgst /\ n.known
           /\ unbound' = unbound
           /\ \/ /\ node' = [node EXCEPT ![t] = n]
                 /\ node[t].addr # NoAddr => n.addr = node[t].addr
              \/ \E u \in Terminals \ {t} :
                    /\ node' = [node EXCEPT ![u] = NoNode, ![t] = n]
                    /\ n.addr = node[u].addr /\ node[t].addr = NoAddr
    BY <1>1, <1>7, RegistrationSteps
  <2> HIDE DEF NodeSet
  <2>2. CASE /\ node' = [node EXCEPT ![t] = n]
             /\ node[t].addr # NoAddr => n.addr = node[t].addr
    <3>1. node'[t] = n /\ \A u \in Terminals \ {t} : node'[u] = node[u]
      BY <1>1, <2>2
    <3> QED
      BY <1>1, <1>2, <2>1, <2>2, <3>1 DEF NodesKept, HasNode
  <2>3. ASSUME NEW u \in Terminals \ {t}, node' = [node EXCEPT ![u] = NoNode, ![t] = n],
               n.addr = node[u].addr, node[t].addr = NoAddr
        PROVE  NodesKept' /\ \A x \in Addrs : HasNode(x) => HasNode(x)'
    <3>1. /\ node'[t] = n /\ node'[u] = NoNode
          /\ \A v \in Terminals \ {t, u} : node'[v] = node[v]
      BY <1>1, <2>3
    <3>2. NoNode.addr = NoAddr
      BY DEF NoNode, Node
    <3> QED
      BY <1>1, <1>2, <2>1, <2>3, <3>1, <3>2 DEF NodesKept, HasNode
  <2> QED
    BY <2>1, <2>2, <2>3
<1> QED
  BY <1>1, <1>3, <1>4, <1>5, <1>6, <1>7 DEF Next

-----------------------------------------------------------------------------
(* The slots *)

(* Whatever ends the request has saved its address or taken the slot back. *)
LEMMA PendingStep ==
  ASSUME TypeOK, TypeOK', ServingKept, NodesKept, PendingAccounted, [Next]_vars
  PROVE  PendingAccounted'
<1> SUFFICES ASSUME Undisturbed', NEW s \in Addrs, table'[s] # NoAddr
             PROVE  \/ Contains(fileRecs', table'[s])
                    \/ s = index' /\ cur' # NoRequest
                    \/ HasNode(table[s])'
  BY DEF PendingAccounted
<1>1. /\ Undisturbed /\ ~ReallotBegin /\ ~Reallotting /\ ~Restart
      /\ \A x \in Addrs : HasNode(x) => HasNode(x)'
  BY ReceiveThreadOnly, NodesStep
<1> DEFINE Accounted(r) == \/ Contains(fileRecs, table[r])
                           \/ r = index /\ cur # NoRequest
                           \/ HasNode(table[r])
<1>2. /\ table[s] # NoAddr => Accounted(s) /\ table[s] \in Addrs
      /\ index \in Addrs
      /\ renewed /\ saving = NoAddr /\ table[index] # NoAddr => Contains(fileRecs, table[index])
      /\ saving # NoAddr => saving = table[index]
      /\ searching # NoAddr => FreeSlots = {}
  BY <1>1 DEF PendingAccounted, TypeOK, ServingKept
<1>3. ASSUME table'[s] = table[s], fileRecs' = fileRecs,
             s = index /\ cur # NoRequest => s = index' /\ cur' # NoRequest
      PROVE  \/ Contains(fileRecs', table'[s])
             \/ s = index' /\ cur' # NoRequest
             \/ HasNode(table[s])'
  <2>1. Accounted(s) /\ table[s] \in Addrs
    BY <1>2, <1>3
  <2>2. PICK x \in Addrs : x = table[s]
    BY <2>1
  <2>3. HasNode(table[s]) => HasNode(table[s])'
    <3>1. HasNode(x) => HasNode(x)'
      BY <1>1
    <3> QED
      BY <1>3, <2>2, <3>1 DEF HasNode
  <2> QED
    BY <1>3, <2>1, <2>3
<1>4. CASE ~Allotting \/ AllotStale
  <2>1. UNCHANGED <<table, index, fileRecs>> /\ (cur # NoRequest => cur' # NoRequest)
    BY <1>4, ReceiveThreadOnly DEF AllotStale, fileVars
  <2> QED
    BY <1>3, <2>1
<1>5. CASE AllotBegin
  <2>1. /\ cur' # NoRequest /\ cur = NoRequest /\ fileRecs' = fileRecs
        /\ \/ UNCHANGED <<table, index>>
           \/ \E new \in NewAddrs : table' = [table EXCEPT ![new[2]] = new[1]] /\ index' = new[2]
    BY <1>5, BeginOffers DEF Take, fileVars
  <2>2. CASE UNCHANGED <<table, index>>
    BY <1>3, <2>1, <2>2
  <2>3. ASSUME NEW new \in NewAddrs, table' = [table EXCEPT ![new[2]] = new[1]], index' = new[2]
        PROVE  s = index' \/ table'[s] = table[s]
    BY <2>3 DEF TypeOK
  <2> QED
    BY <1>3, <2>1, <2>2, <2>3
<1>6. CASE SearchEnds
  BY <1>2, <1>6 DEF SearchEnds
<1>7. CASE AllotFinish
  <2>1. /\ UNCHANGED <<table, index, fileRecs>> /\ saving = NoAddr
        /\ cur' = cur \/ table[index] = NoAddr \/ renewed
    BY <1>7 DEF AllotFinish, LockFree
  <2> QED
    BY <1>2, <1>3, <2>1
<1>8. CASE WriteRecord
  <2>1. /\ saving # NoAddr /\ fileRecs' = Append(fileRecs, saving)
        /\ UNCHANGED <<table, index, node, unbound>>
    BY <1>8 DEF WriteRecord
  <2>2. fileRecs \in Seq(Addrs) /\ saving \in Addrs /\ table[s] \in Addrs
    BY <1>2, <2>1 DEF TypeOK
  <2>3. Contains(fileRecs', table[s]) <=> Contains(fileRecs, table[s]) \/ table[s] = saving
    BY <2>1, <2>2, ContainsAppend
  <2> QED
    BY <1>2, <2>1, <2>3 DEF HasNode
<1>9. CASE AllotExpire
  <2>1. /\ UNCHANGED <<index, fileRecs, node, unbound>> /\ saving = NoAddr
        /\ table' = (IF ~renewed /\ ~HasNode(table[index])
                     THEN [table EXCEPT ![index] = NoAddr] ELSE table)
    BY <1>9 DEF AllotExpire, LockFree, fileVars
  <2>2. table'[s] = table[s] /\ (s = index => renewed \/ HasNode(table[index]))
    BY <1>2, <2>1 DEF TypeOK
  <2> QED
    BY <1>2, <2>1, <2>2 DEF HasNode
<1> QED
  BY <1>4, <1>5, <1>6, <1>7, <1>8, <1>9 DEF Allotting

(* A new address goes into the slot of its number, and the slot of an       *)
(* address in the file is left.                                             *)
LEMMA SlotsStep ==
  ASSUME TypeOK, TypeOK', ServingKept, SlotsInOrder, [Next]_vars
  PROVE  SlotsInOrder'
<1> DEFINE InOrder == \A s \in Addrs : table[s] \in {s, NoAddr}
           Filed == \A i \in DOMAIN fileRecs : /\ table[fileRecs[i]] = fileRecs[i]
                                               /\ fileRecs[i] = index => renewed
<1>1. restarts \in Nat /\ reallots \in Nat
  BY AllotmentAssumption DEF TypeOK, AllotmentAssumption
<1>2. /\ restarts = 0 => ~gapLoaded
      /\ overrun \/ gapLoaded \/ InOrder
      /\ Undisturbed /\ ~overrun => Filed
  BY DEF SlotsInOrder
<1>3. CASE Restart
  <2>1. /\ restarts' = restarts + 1 /\ table' = Loaded /\ overrun' = overrun
        /\ gapLoaded' = (gapLoaded \/ \E s \in Addrs : Loaded[s] \notin {s, NoAddr})
    BY <1>3 DEF Restart
  <2>2. restarts' # 0
    BY <1>1, <2>1
  <2>3. gapLoaded' \/ InOrder'
    BY <2>1
  <2> QED
    BY <2>2, <2>3 DEF SlotsInOrder, Undisturbed
<1>4. CASE ReallotBegin \/ Reallotting
  <2>1. ~Undisturbed'
    BY <1>4, ReceiveThreadOnly
  <2>2. UNCHANGED <<restarts, gapLoaded, overrun>> /\ table' \in {table, EmptyTable}
    BY <1>4 DEF ReallotBegin, Reallotting, ReallotTable, ReallotNodes, ReallotFile, ReallotSend,
                ghostVars, boundVars, hostVars
  <2>3. InOrder => InOrder'
    BY <2>2 DEF EmptyTable
  <2> QED
    BY <1>2, <2>1, <2>2, <2>3 DEF SlotsInOrder
<1>6. CASE AllotBegin
  <2>1. /\ UNCHANGED <<fileRecs, restarts, reallots>>
        /\ \/ UNCHANGED <<table, index, renewed, overrun>>
           \/ overrun' = TRUE
           \/ /\ overrun' = (overrun \/ FreeSlots = {})
              /\ \E new \in NewAddrs : /\ table' = [table EXCEPT ![new[2]] = new[1]]
                                       /\ index' = new[2]
    BY <1>6, BeginOffers DEF Take, fileVars
  <2>2. gapLoaded' = gapLoaded /\ ~Restart
    <3>1. gapLoaded' = gapLoaded
      BY <1>6 DEF AllotBegin
    <3>2. restarts' = restarts
      BY <2>1
    <3> QED
      BY <1>1, <3>1, <3>2 DEF Restart
  <2>3. CASE UNCHANGED <<table, index, renewed, overrun>>
    BY <1>2, <2>1, <2>2, <2>3 DEF SlotsInOrder, Undisturbed
  <2>4. CASE overrun' = TRUE
    BY <1>2, <2>1, <2>2, <2>4 DEF SlotsInOrder, Undisturbed
  <2>5. ASSUME overrun' = (overrun \/ FreeSlots = {}), ~overrun',
               NEW new \in NewAddrs, table' = [table EXCEPT ![new[2]] = new[1]], index' = new[2]
        PROVE  SlotsInOrder'
    <3>1. new[2] \in FreeSlots /\ new[1] = new[2] /\ ~overrun
      BY <2>5, NewAddrsFit DEF TypeOK, SlotTypes
    <3>2. new[2] \in Addrs /\ table[new[2]] = NoAddr
      BY <3>1 DEF FreeSlots
    <3>3. InOrder => InOrder'
      BY <2>5, <3>1, <3>2 DEF TypeOK
    <3>4. Filed => Filed'
      <4> SUFFICES ASSUME Filed, NEW i \in DOMAIN fileRecs
                   PROVE  table'[fileRecs[i]] = fileRecs[i] /\ fileRecs[i] # index'
        BY <2>1
      <4>1. fileRecs[i] \in Addrs /\ fileRecs[i] # NoAddr
        <5>1. fileRecs \in Seq(Addrs)
          BY DEF TypeOK
        <5>2. fileRecs[i] \in Addrs
          BY <5>1, ElementOfSeq, LenProperties
        <5> QED
          BY <5>2, AddrFacts
      <4> QED
        BY <2>5, <3>2, <4>1 DEF TypeOK
    <3> QED
      BY <1>2, <2>1, <2>2, <3>1, <3>3, <3>4 DEF SlotsInOrder, Undisturbed
  <2> QED
    BY <2>1, <2>3, <2>4, <2>5
<1>7. CASE SearchEnds
  <2>1. searching # NoAddr /\ UNCHANGED <<restarts, gapLoaded, overrun>>
    BY <1>7 DEF SearchEnds, boundVars, ghostVars
  <2> QED
    BY <1>2, <2>1 DEF SlotsInOrder, ServingKept
<1>8. CASE AllotFinish
  <2>1. /\ UNCHANGED <<table, index, fileRecs, restarts, reallots, gapLoaded, overrun>>
        /\ renewed => renewed'
    BY <1>8 DEF AllotFinish, boundVars, ghostVars
  <2> QED
    BY <1>2, <2>1 DEF SlotsInOrder, Undisturbed
<1>9. CASE WriteRecord
  <2>1. /\ saving # NoAddr /\ fileRecs' = Append(fileRecs, saving)
        /\ UNCHANGED <<table, index, renewed, restarts, reallots, gapLoaded, overrun>>
    BY <1>9 DEF WriteRecord, boundVars, ghostVars
  <2>2. ASSUME Undisturbed, InOrder, Filed PROVE Filed'
    <3>1. renewed /\ saving = table[index] /\ saving = index
      BY <2>1, <2>2 DEF ServingKept, TypeOK
    <3>2. /\ fileRecs \in Seq(Addrs) /\ saving \in Addrs
      BY <2>1 DEF TypeOK
    <3>3. /\ DOMAIN fileRecs' = 1 .. (Len(fileRecs) + 1) /\ DOMAIN fileRecs = 1 .. Len(fileRecs)
          /\ \A i \in 1 .. Len(fileRecs) : fileRecs'[i] = fileRecs[i]
          /\ fileRecs'[Len(fileRecs) + 1] = saving /\ Len(fileRecs) \in Nat
      BY <2>1, <3>2, AppendProperties, LenProperties
    <3> SUFFICES ASSUME NEW i \in DOMAIN fileRecs'
                 PROVE  table'[fileRecs'[i]] = fileRecs'[i] /\ (fileRecs'[i] = index' => renewed')
      OBVIOUS
    <3>4. CASE i \in DOMAIN fileRecs
      BY <2>1, <2>2, <3>3, <3>4
    <3>5. CASE i = Len(fileRecs) + 1
      BY <2>1, <3>1, <3>3, <3>5
    <3> QED
      BY <3>3, <3>4, <3>5
  <2> QED
    BY <1>2, <2>1, <2>2 DEF SlotsInOrder, Undisturbed
<1>10. CASE AllotExpire
  <2>1. /\ UNCHANGED <<index, renewed, fileRecs, restarts, reallots, gapLoaded, overrun>>
        /\ \/ table' = table
           \/ ~renewed /\ table' = [table EXCEPT ![index] = NoAddr]
    BY <1>10 DEF AllotExpire, boundVars, ghostVars, fileVars
  <2>2. InOrder => InOrder'
    BY <2>1 DEF TypeOK
  <2>3. Filed => Filed'
    <3> SUFFICES ASSUME Filed, NEW i \in DOMAIN fileRecs
                 PROVE  table'[fileRecs[i]] = fileRecs[i]
      BY <2>1
    <3>1. fileRecs[i] \in Addrs
      <4>1. fileRecs \in Seq(Addrs)
        BY DEF TypeOK
      <4> QED
        BY <4>1, ElementOfSeq, LenProperties
    <3> QED
      BY <2>1, <3>1 DEF TypeOK
  <2> QED
    BY <1>2, <2>1, <2>2, <2>3 DEF SlotsInOrder, Undisturbed
<1>11. ASSUME UNCHANGED <<table, index, renewed, fileRecs, overrun, gapLoaded, restarts, reallots>>
       PROVE  SlotsInOrder'
  BY <1>2, <1>11 DEF SlotsInOrder, Undisturbed
<1>12. CASE AllotStale \/ UNCHANGED vars
  <2>1. UNCHANGED <<table, index, renewed, fileRecs, overrun, gapLoaded, restarts, reallots>>
    BY <1>12 DEF AllotStale, vars, hostVars, fileVars, ghostVars, boundVars
  <2> QED
    BY <1>11, <2>1
<1>13. ASSUME NEW t \in Terminals,
              \/ RecvRequest(t) \/ RecvConfirm(t) \/ RecvRegistration(t)
              \/ \E a \in Addrs \cup {NoAddr} : TakeOffer(t, a)
       PROVE  SlotsInOrder'
  <2>1. UNCHANGED <<table, index, renewed, fileRecs, overrun, gapLoaded, restarts, reallots>>
    BY <1>13 DEF RecvRequest, RecvConfirm, RecvRegistration, TakeOffer, fileVars, ghostVars,
                boundVars, hostVars
  <2> QED
    BY <1>11, <2>1
<1> QED
  BY <1>3, <1>4, <1>6, <1>7, <1>8, <1>9, <1>10, <1>12, <1>13 DEF Next, Allotting

-----------------------------------------------------------------------------
(* The theorems *)

Accounts == /\ TypeOK /\ QueuedOnce /\ ServingKept /\ NodesKept /\ PendingAccounted
            /\ SlotsInOrder

LEMMA AllotmentStarts ==
  ASSUME Init
  PROVE  Accounts
<1>1. TypeOK
  <2>1. SlotTypes
    BY AddrFacts DEF Init, SlotTypes, EmptyTable
  <2>2. ServedTypes /\ LockTypes /\ FileTypes
    BY AllotmentAssumption, EmptySeq
       DEF Init, ServedTypes, LockTypes, FileTypes, AllotmentAssumption
  <2>3. NodeTypes
    BY DEF Init, NodeTypes, NoNode, Node
  <2>4. TermTypes
    BY DEF Init, TermTypes
  <2>a. reallotPc = "idle" /\ overrun = FALSE /\ gapLoaded = FALSE
    BY DEF Init
  <2>b. /\ requests \in 0 .. MaxRequests /\ restarts \in 0 .. MaxRestarts
        /\ reallots \in 0 .. MaxReallots
    BY AllotmentAssumption DEF Init, AllotmentAssumption
  <2>5. BoundTypes
    BY <2>a, <2>b DEF BoundTypes
  <2> QED
    BY <2>1, <2>2, <2>3, <2>4, <2>5, TypesAreTypes
<1>2. QueuedOnce
  <2>1. Apart(<<>>, cur.term) /\ allotQueue = <<>> /\ <<>> \in Seq(Requests)
    BY EmptySeq DEF Init, Apart
  <2>2. IsInjective(Asking(<<>>, cur.term))
    BY <2>1, ApartIs
  <2> QED
    BY <2>1, <2>2 DEF QueuedOnce, Asking
<1>3. ServingKept
  BY DEF Init, ServingKept
<1>4. NodesKept
  BY DEF Init, NodesKept, NoNode, Node
<1>5. PendingAccounted
  BY DEF Init, PendingAccounted, EmptyTable
<1>6. SlotsInOrder
  BY DEF Init, SlotsInOrder, EmptyTable
<1> QED
  BY <1>1, <1>2, <1>3, <1>4, <1>5, <1>6 DEF Accounts

LEMMA AccountsStep ==
  Accounts /\ [Next]_vars => Accounts'
<1> SUFFICES ASSUME Accounts, [Next]_vars PROVE Accounts'
  OBVIOUS
<1>1. TypeOK'
  BY TypesStep DEF Accounts
<1>2. NodesKept'
  <2>1. Undisturbed' => NodesKept'
    BY NodesStep DEF Accounts
  <2>2. ~Undisturbed' => NodesKept'
    BY DEF NodesKept
  <2> QED
    BY <2>1, <2>2
<1> QED
  BY <1>1, <1>2, QueuedStep, ServingStep, PendingStep, SlotsStep DEF Accounts

LEMMA AccountsCorrect == Spec => []Accounts
<1>1. Init => Accounts
  BY AllotmentStarts
<1> QED
  BY <1>1, AccountsStep, PTL DEF Spec

(* Types, the queue without repeats, and no address without an owner        *)
(* (RequestsAgree): whatever comes late or never, a terminal is queued or   *)
(* served once, and every slot taken is saved, pending or registered.       *)
THEOREM RequestsCorrect == Spec => []RequestsAgree
<1>1. Accounts => RequestsAgree
  BY DEF Accounts, RequestsAgree
<1> QED
  BY <1>1, AccountsCorrect, PTL

(* An address that is offered is not in the file.                           *)
LEMMA OfferedUnsaved ==
  ASSUME Accounts, [Next]_vars, Undisturbed', ~overrun', NEW o \in offers' \ offers
  PROVE  ~Contains(fileRecs, o[2])
<1>1. /\ Undisturbed /\ ~ReallotBegin /\ ~Reallotting /\ ~Restart
      /\ TypeOK /\ ServingKept /\ SlotsInOrder
  BY ReceiveThreadOnly DEF Accounts
<1>2. AllotBegin
  <2>1. UNCHANGED vars => offers' = offers
    BY DEF vars, termVars
  <2>2. AllotStale \/ AllotFinish \/ WriteRecord \/ AllotExpire => offers' = offers
    BY DEF AllotStale, AllotFinish, WriteRecord, AllotExpire, termVars
  <2>3. ~SearchEnds
    BY <1>1 DEF SearchEnds, ServingKept
  <2>4. \A t \in Terminals : RecvRequest(t) \/ RecvConfirm(t) \/ RecvRegistration(t)
                               => offers' = offers
    BY DEF RecvRequest, RecvConfirm, RecvRegistration, termVars
  <2>5. \A t \in Terminals, a \in Addrs \cup {NoAddr} : TakeOffer(t, a) => offers' \subseteq offers
    BY DEF TakeOffer
  <2> QED
    BY <1>1, <2>1, <2>2, <2>3, <2>4, <2>5 DEF Next, Allotting
<1>3. PICK t \in Terminals :
        \/ /\ offers' = offers \cup {<<t, table[index]>>}
           /\ ~renewed /\ table[index] # NoAddr /\ UNCHANGED overrun
        \/ /\ overrun' = (overrun \/ FreeSlots = {})
           /\ \E new \in NewAddrs : offers' = offers \cup {<<t, new[1]>>}
  BY <1>1, <1>2, BeginOffers DEF Take
<1>4. /\ ~overrun /\ ~gapLoaded
      /\ \A s \in Addrs : table[s] \in {s, NoAddr}
      /\ \A i \in DOMAIN fileRecs : /\ table[fileRecs[i]] = fileRecs[i]
                                    /\ fileRecs[i] = index => renewed
  <2>1. overrun \in BOOLEAN
    BY <1>1 DEF TypeOK
  <2>2. ~overrun
    BY <1>3, <2>1
  <2>3. restarts = 0
    BY <1>1 DEF Undisturbed
  <2> QED
    BY <1>1, <2>2, <2>3 DEF SlotsInOrder
<1>5. /\ fileRecs \in Seq(Addrs) /\ index \in Addrs
      /\ DOMAIN fileRecs = 1 .. Len(fileRecs) /\ \A i \in 1 .. Len(fileRecs) : fileRecs[i] \in Addrs
  <2>1. fileRecs \in Seq(Addrs) /\ index \in Addrs
    BY <1>1 DEF TypeOK
  <2> QED
    BY <2>1, ElementOfSeq, LenProperties
<1>6. CASE /\ offers' = offers \cup {<<t, table[index]>>}
           /\ ~renewed /\ table[index] # NoAddr
  <2>1. o = <<t, table[index]>> /\ table[index] = index
    BY <1>4, <1>5, <1>6
  <2> QED
    BY <1>4, <1>5, <1>6, <2>1 DEF Contains
<1>7. ASSUME FreeSlots # {}, NEW new \in NewAddrs, offers' = offers \cup {<<t, new[1]>>}
      PROVE  ~Contains(fileRecs, o[2])
  <2>1. new[1] \in FreeSlots
    BY <1>1, <1>7, NewAddrsFit DEF TypeOK, SlotTypes
  <2>2. o[2] \in Addrs /\ table[o[2]] = NoAddr
    BY <1>7, <2>1 DEF FreeSlots
  <2> QED
    BY <1>4, <1>5, <2>2, AddrFacts DEF Contains
<1> QED
  BY <1>3, <1>6, <1>7

(* No address has two owners (AddressesAgree): each slot holds its own      *)
(* number, so no address is in two of them, and what is in the file is      *)
(* offered to nobody else.                                                  *)
THEOREM AddressesCorrect == Spec => AddressesAgree
<1>1. Accounts => AddressesDistinct /\ SlotsInOrder
  BY DEF Accounts, SlotsInOrder, AddressesDistinct
<1>2. Accounts /\ [Next]_vars =>
        [Undisturbed' /\ ~overrun' =>
           \A o \in offers' \ offers : ~Contains(fileRecs, o[2])]_vars
  BY OfferedUnsaved
<1> QED
  BY <1>1, <1>2, AccountsCorrect, PTL DEF Spec, AddressesAgree, SavedNotOffered
=============================================================================
