-------------------------- MODULE Enumeration_proofs --------------------------
(* The receive units, for every set of units and talkers, number of slots  *)
(* and channels, faults and calls.                                         *)
EXTENDS Enumeration, FiniteSetTheorems, SequenceTheorems, TLAPS

-----------------------------------------------------------------------------
(* The inductive invariant *)

(* The nodes of an input are numbered from 1.                              *)
Numbered ==
    \A u \in Units, i \in Inputs :
        \E c \in Nat : NodesOf(u, i) = {<<u, i, k>> : k \in 1 .. c}

(* The slot released is one of a unit that restarts.                       *)
Releasing == epc # "poll" => at \in Slots /\ unit[at] \in restarted

(* A read of an input is owed to a unit at most once, and not when the     *)
(* input is listed; what comes after a restart is not listed.              *)
ReadsOnce ==
    \A u \in Units :
        /\ desc[u].named \/ desc[u].conf => desc[u].node
        /\ u \notin twice => \A i \in Inputs :
              LET r == <<u, "input", i>> IN
              /\ NodesOf(u, i) \subseteq {<<u, i, 1>>}
              /\ (desc[u].node => desc[u].named /\ ~desc[u].conf) =>
                     owed[r] = 0 /\ NodesOf(u, i) = {}
              /\ desc[u].named => \/ owed[r] = 0
                                  \/ owed[r] = 1 /\ NodesOf(u, i) = {}

(* A unit has one slot.                                                    *)
OneSlot ==
    \A u \in Units : u \notin twice =>
        \A s, w \in Slots : unit[s] = u /\ unit[w] = u => s = w

(* CountsAgree without the limit.                                          *)
Counted ==
    /\ \A s \in Slots : /\ channels[s] = Len(free[s]) + Len(busy[s])
                        /\ num[s] = Len(busy[s])
    /\ elemNum = Cardinality(Nodes)
    /\ canUse = Cardinality({p \in Slots \X (1 .. PerUnitMax) : p[2] <= channels[p[1]]})
    /\ cnntNum = Cardinality({n \in Nodes : talker[n] # NoTalker})
LimitKept ==
    \A s \in Slots :
        (\A n \in ToSet(busy[s]) : n[1] \notin twice) => num[s] <= PerUnitMax

(* Connections are recorded for the first slot only.                       *)
FirstOnly == \A s \in Slots : s # 1 => busy[s] = <<>>

(* The commands under way for a node, and whether it was found for one.    *)
On(n) == {k \in commands : IsOf(n, k.unit, k.input)}
Found(n) == current # <<>> /\ current[1] = n

(* A node is handled by one command at a time, which connects it if it is  *)
(* free; it is then the first of its list, and the unit has room.          *)
Handled ==
    /\ \A k \in commands : NodesOf(k.unit, k.input) # {}
    /\ \A n \in Nodes : n[1] \notin twice =>
          /\ \A k, l \in On(n) : k = l
          /\ On(n) # {} => n \in handling
          /\ \A k \in On(n) : k.cmd = "connect" <=> talker[n] = NoTalker
          /\ Found(n) => talker[n] = NoTalker /\ n \notin handling
    /\ \A s \in Slots : \A n \in ToSet(free[s]) :
          n[1] \notin twice /\ (On(n) # {} \/ Found(n)) =>
              n = Head(free[s]) /\ num[s] < PerUnitMax

ListsOK == ListsApart /\ Counted /\ FirstOnly

IInv ==
    /\ TypeOK /\ IsFiniteSet(Nodes) /\ Numbered
    /\ Releasing /\ ReadsOnce /\ OneSlot
    /\ ~Astray => SlotsHold /\ ListsOK /\ LimitKept /\ Handled

-----------------------------------------------------------------------------
(* Numbers and lists *)

(* A set of numbers has a least one.                                       *)
LEMMA LeastNumber ==
  ASSUME NEW T, T \subseteq Nat, T # {}
  PROVE  \E x \in T : \A y \in T : x <= y
<1>1. PICK x \in T : \A y \in T : ~(<<y, x>> \in OpToRel(<, Nat))
  BY NatLessThanWellFounded, WFMin
<1>2. ASSUME NEW y \in T PROVE x <= y
  <2>1. x \in Nat /\ y \in Nat
    OBVIOUS
  <2>2. ~(y < x)
    BY <1>1, <2>1 DEF OpToRel
  <2> QED
    BY <2>1, <2>2
<1> QED
  BY <1>1, <1>2

(* The first free number is one of those free. *)
LEMMA FirstIs ==
  ASSUME NEW T, T \subseteq Nat, T # {}
  PROVE  First(T) \in T
<1>1. \E x \in T : \A y \in T : x <= y
  BY LeastNumber
<1> QED
  BY <1>1 DEF First

(* The counters are bytes and do not fall below 0.                         *)
LEMMA DownIs ==
  ASSUME NEW n \in 0 .. ByteValues - 1
  PROVE  /\ Down(n) \in 0 .. ByteValues - 1
         /\ n > 0 => Down(n) = n - 1
<1>1. ByteValues \in Nat /\ ByteValues > 0
  BY EnumerationAssumption DEF EnumerationAssumption
<1> DEFINE m == n + ByteValues - 1
<1>2. m \in Nat /\ m % ByteValues \in 0 .. ByteValues - 1
  BY <1>1
<1>3. n > 0 => m % ByteValues = n - 1
  BY <1>1, <1>2
<1> QED
  BY <1>2, <1>3 DEF Down

(* The members of a list, and a list without repeats. *)
LEMMA ToSetIs ==
  ASSUME NEW S, NEW s \in Seq(S)
  PROVE  /\ Len(s) \in Nat /\ DOMAIN s = 1 .. Len(s)
         /\ ToSet(s) = {s[i] : i \in 1 .. Len(s)} /\ ToSet(s) \subseteq S
         /\ \A c : Contains(s, c) <=> c \in ToSet(s)
         /\ IsInjective(s) <=> \A i, j \in 1 .. Len(s) : s[i] = s[j] => i = j
<1>1. Len(s) \in Nat /\ DOMAIN s = 1 .. Len(s) /\ \A i \in 1 .. Len(s) : s[i] \in S
  BY ElementOfSeq, LenProperties
<1> QED
  BY <1>1 DEF ToSet, Contains, IsInjective

(* A list without members is empty. *)
LEMMA NoneIs ==
  ASSUME NEW S, NEW s \in Seq(S)
  PROVE  ToSet(s) = {} <=> Len(s) = 0
<1>1. Len(s) \in Nat /\ ToSet(s) = {s[i] : i \in 1 .. Len(s)}
  BY ToSetIs
<1>2. Len(s) # 0 => 1 \in 1 .. Len(s)
  BY <1>1
<1> QED
  BY <1>1, <1>2

(* The list that is left when its i-th place is taken out. *)
LEMMA RemoveAtIs ==
  ASSUME NEW S, NEW s \in Seq(S), NEW i \in 1 .. Len(s)
  PROVE  /\ RemoveAt(s, i) \in Seq(S) /\ Len(RemoveAt(s, i)) = Len(s) - 1
         /\ \A j \in 1 .. (Len(s) - 1) :
               RemoveAt(s, i)[j] = IF j < i THEN s[j] ELSE s[j + 1]
<1> DEFINE a == SubSeq(s, 1, i - 1)
           b == SubSeq(s, i + 1, Len(s))
<1>1. Len(s) \in Nat /\ \A j \in 1 .. Len(s) : s[j] \in S
  BY ElementOfSeq, LenProperties
<1>2. /\ a \in Seq(S) /\ Len(a) = i - 1
      /\ \A j \in 1 .. (i - 1) : a[j] = s[j]
  BY <1>1, SubSeqProperties
<1>3. /\ b \in Seq(S) /\ Len(b) = Len(s) - i
      /\ \A j \in 1 .. (Len(s) - i) : b[j] = s[j + i]
  BY <1>1, SubSeqProperties
<1> HIDE DEF a, b
<1>4. /\ a \o b \in Seq(S) /\ Len(a \o b) = Len(a) + Len(b)
      /\ \A j \in 1 .. (Len(a) + Len(b)) :
            (a \o b)[j] = IF j <= Len(a) THEN a[j] ELSE b[j - Len(a)]
  BY <1>2, <1>3, ConcatProperties
<1>5. RemoveAt(s, i) = a \o b
  BY DEF RemoveAt, a, b
<1>6. ASSUME NEW j \in 1 .. (Len(s) - 1)
      PROVE  (a \o b)[j] = IF j < i THEN s[j] ELSE s[j + 1]
  <2>1. CASE j < i
    BY <1>1, <1>2, <1>3, <1>4, <2>1
  <2>2. CASE ~(j < i)
    <3>1. /\ j \in Nat /\ i \in Nat /\ j <= Len(s) - 1 /\ i <= j
          /\ j - (i - 1) \in 1 .. (Len(s) - i) /\ (j - (i - 1)) + i = j + 1
          /\ j \in 1 .. (Len(a) + Len(b)) /\ ~(j <= Len(a)) /\ j - Len(a) = j - (i - 1)
      BY <1>1, <1>2, <1>3, <2>2
    <3>2. (a \o b)[j] = b[j - (i - 1)]
      BY <1>4, <3>1
    <3>3. b[j - (i - 1)] = s[(j - (i - 1)) + i]
      BY <1>3, <3>1
    <3> QED
      BY <2>2, <3>1, <3>2, <3>3
  <2> QED
    BY <2>1, <2>2
<1>7. Len(a) + Len(b) = Len(s) - 1
  BY <1>1, <1>2, <1>3
<1> QED
  BY <1>4, <1>5, <1>6, <1>7

(* A node unlinked from a list.                                            *)
LEMMA RemovedIs ==
  ASSUME NEW S, NEW s \in Seq(S), IsInjective(s), NEW i \in 1 .. Len(s)
  PROVE  /\ RemoveAt(s, i) \in Seq(S) /\ Len(RemoveAt(s, i)) = Len(s) - 1
         /\ IsInjective(RemoveAt(s, i)) /\ ToSet(RemoveAt(s, i)) = ToSet(s) \ {s[i]}
<1> DEFINE c == s[i]
<1>1. c = s[i]
  OBVIOUS
<1> HIDE DEF c
<1> DEFINE w == RemoveAt(s, i)
<1>2. w = RemoveAt(s, i)
  OBVIOUS
<1>3. /\ w \in Seq(S) /\ Len(w) = Len(s) - 1 /\ Len(s) \in Nat
      /\ \A j \in 1 .. (Len(s) - 1) : w[j] = IF j < i THEN s[j] ELSE s[j + 1]
  BY RemoveAtIs, ToSetIs
<1>4. \A j, l \in 1 .. Len(s) : s[j] = s[l] => j = l
  BY ToSetIs
<1> HIDE DEF w
<1>5. IsInjective(w)
  <2> SUFFICES ASSUME NEW j \in 1 .. Len(w), NEW l \in 1 .. Len(w), w[j] = w[l] PROVE j = l
    BY <1>3, ToSetIs
  <2>1. PICK p \in 1 .. Len(s) : w[j] = s[p] /\ p = IF j < i THEN j ELSE j + 1
    BY <1>3
  <2>2. PICK q \in 1 .. Len(s) : w[l] = s[q] /\ q = IF l < i THEN l ELSE l + 1
    BY <1>3
  <2>3. p = q
    BY <1>4, <2>1, <2>2
  <2> QED
    BY <1>3, <2>1, <2>2, <2>3
<1>6. ASSUME NEW x \in ToSet(w) PROVE x \in ToSet(s) \ {c}
  <2>1. PICK j \in 1 .. Len(w) : x = w[j]
    BY <1>3, ToSetIs
  <2>2. PICK p \in 1 .. Len(s) : w[j] = s[p] /\ p = IF j < i THEN j ELSE j + 1
    BY <1>3
  <2>3. p # i
    BY <1>3, <2>2
  <2>4. s[p] # c
    BY <1>1, <1>4, <2>3
  <2> QED
    BY <2>1, <2>2, <2>4, ToSetIs
<1>7. ASSUME NEW x \in ToSet(s) \ {c} PROVE x \in ToSet(w)
  <2>1. PICK p \in 1 .. Len(s) : x = s[p]
    BY ToSetIs
  <2>2. p # i
    BY <1>1, <2>1
  <2>3. PICK j \in 1 .. Len(w) : w[j] = s[p]
    <3>1. CASE p < i
      BY <1>3, <3>1
    <3>2. CASE p > i
      <4>1. p - 1 \in 1 .. (Len(s) - 1) /\ w[p - 1] = s[p]
        BY <1>3, <3>2
      <4> QED
        BY <1>3, <4>1
    <3> QED
      BY <2>2, <3>1, <3>2
  <2> QED
    BY <1>3, <2>1, <2>3, ToSetIs
<1> QED
  BY <1>2, <1>3, <1>5, <1>6, <1>7 DEF c

(* A node put at the end of a list it is not in. *)
LEMMA AppendIs ==
  ASSUME NEW S, NEW s \in Seq(S), IsInjective(s), NEW c \in S, c \notin ToSet(s)
  PROVE  /\ Append(s, c) \in Seq(S) /\ Len(Append(s, c)) = Len(s) + 1
         /\ IsInjective(Append(s, c)) /\ ToSet(Append(s, c)) = ToSet(s) \cup {c}
<1> DEFINE w == Append(s, c)
<1>1. /\ w \in Seq(S) /\ Len(w) = Len(s) + 1 /\ Len(s) \in Nat
      /\ \A i \in 1 .. Len(s) : w[i] = s[i]
      /\ w[Len(s) + 1] = c
  BY AppendProperties, LenProperties
<1> HIDE DEF w
<1>2. /\ \A j, l \in 1 .. Len(s) : s[j] = s[l] => j = l
      /\ ToSet(s) = {s[i] : i \in 1 .. Len(s)}
  BY ToSetIs
<1>3. IsInjective(w)
  <2> SUFFICES \A j, l \in 1 .. Len(w) : w[j] = w[l] => j = l
    BY <1>1, ToSetIs
  <2> QED
    BY <1>1, <1>2
<1>4. ToSet(w) = ToSet(s) \cup {c}
  <2>1. ToSet(w) = {w[i] : i \in 1 .. Len(w)}
    BY <1>1, ToSetIs
  <2> QED
    BY <1>1, <1>2, <2>1
<1> QED
  BY <1>1, <1>3, <1>4 DEF w

(* A list without repeats has as many members as places.                   *)
LEMMA SizeIs ==
  ASSUME NEW S, NEW s \in Seq(S), IsInjective(s)
  PROVE  IsFiniteSet(ToSet(s)) /\ Cardinality(ToSet(s)) = Len(s)
<1>1. /\ Len(s) \in Nat /\ s \in [1 .. Len(s) -> S] /\ ToSet(s) = {s[i] : i \in 1 .. Len(s)}
      /\ \A i, j \in 1 .. Len(s) : s[i] = s[j] => i = j
  BY LenProperties, ToSetIs
<1>2. s \in [1 .. Len(s) -> ToSet(s)]
  BY <1>1
<1>3. s \in Bijection(1 .. Len(s), ToSet(s))
  <2>1. s \in Injection(1 .. Len(s), ToSet(s))
    BY <1>1, <1>2 DEF Injection, IsInjective
  <2>2. s \in Surjection(1 .. Len(s), ToSet(s))
    BY <1>1, <1>2 DEF Surjection
  <2> QED
    BY <2>1, <2>2 DEF Bijection
<1>4. ExistsBijection(1 .. Len(s), ToSet(s))
  BY <1>3 DEF ExistsBijection
<1> QED
  BY <1>1, <1>4, FS_NatBijection, FS_CountingElements

(* The nodes of an input are as many as their numbers.                     *)
LEMMA NumbersAre ==
  ASSUME NEW u, NEW i, NEW c \in Nat, NEW T, T = {<<u, i, k>> : k \in 1 .. c}
  PROVE  Cardinality(T) = c
<1> DEFINE f == [k \in 1 .. c |-> <<u, i, k>>]
<1>1. f \in Injection(1 .. c, T)
  BY DEF Injection, IsInjective
<1>2. f \in Surjection(1 .. c, T)
  BY DEF Surjection
<1>3. ExistsBijection(1 .. c, T)
  BY <1>1, <1>2 DEF ExistsBijection, Bijection
<1> QED
  BY <1>3, FS_CountingElements

-----------------------------------------------------------------------------
(* The types, in groups *)

EntityTypes ==
    /\ entity \in [Units -> {"unknown", "connect", "disconnect"}]
    /\ desc \in [Units -> [node : BOOLEAN, named : BOOLEAN, conf : BOOLEAN]]
    /\ owed \in [Reads -> Nat]
    /\ lost \subseteq Units /\ twice \subseteq Units /\ restarted \subseteq Units
SlotTypes ==
    /\ unit \in [Slots -> Units \cup {NoUnit}] /\ solid \in [Slots -> BOOLEAN]
    /\ state \in [Slots -> {"uninit", "ok", "all"}]
    /\ epc \in {"poll", "release", "astray"} /\ at \in Slots \cup {0}
ListTypes ==
    /\ Nodes \subseteq Units \X Inputs \X Nat
    /\ talker \in [Nodes -> Talkers \cup {NoTalker}] /\ handling \subseteq Nodes
    /\ free \in [Slots -> Seq(Nodes)] /\ busy \in [Slots -> Seq(Nodes)]
    /\ channels \in [Slots -> 0 .. NumChannels]
    /\ num \in [Slots -> 0 .. ByteValues - 1] /\ cnntNum \in 0 .. ByteValues - 1
    /\ elemNum \in Nat /\ canUse \in Nat
TalkTypes ==
    /\ current \in (Nodes \X Talkers) \cup {<<>>}
    /\ commands \subseteq CommandSet

(* The groups make up the types. *)
LEMMA TypesAre ==
  /\ TypeOK <=> EntityTypes /\ SlotTypes /\ ListTypes /\ TalkTypes
  /\ TypeOK' <=> EntityTypes' /\ SlotTypes' /\ ListTypes' /\ TalkTypes'
BY DEF TypeOK, EntityTypes, SlotTypes, ListTypes, TalkTypes

(* What the actions leave alone stays so.                                  *)
LEMMA ListsStay ==
  ASSUME ListTypes, IsFiniteSet(Nodes), Numbered, handling' \subseteq Nodes,
         UNCHANGED <<free, busy, channels, num, talker, countVars>>
  PROVE  /\ ListTypes' /\ IsFiniteSet(Nodes') /\ Numbered' /\ Nodes' = Nodes
         /\ ListsOK => ListsOK'
<1>1. Nodes' = Nodes
  BY DEF Nodes
<1>2. \A u, i : NodesOf(u, i)' = NodesOf(u, i)
  BY <1>1 DEF NodesOf
<1>3. \A s : Listed(s)' = Listed(s)
  BY DEF Listed
<1>4. ListTypes' /\ IsFiniteSet(Nodes') /\ Numbered'
  BY <1>1, <1>2 DEF ListTypes, Numbered, countVars
<1>5. ASSUME ListsOK PROVE ListsOK'
  <2>1. ListsApart'
    BY <1>1, <1>3, <1>5 DEF ListsOK, ListsApart
  <2>2. Counted'
    BY <1>1, <1>5 DEF ListsOK, Counted, countVars
  <2>3. FirstOnly'
    BY <1>5 DEF ListsOK, FirstOnly
  <2> QED
    BY <2>1, <2>2, <2>3 DEF ListsOK
<1> QED
  BY <1>1, <1>4, <1>5

(* So do the slots while the descriptors of the units do. *)
LEMMA SlotsStay ==
  ASSUME SlotsHold, SlotTypes, UNCHANGED <<slotVars, free, busy, channels>>,
         \A u \in Units : desc[u].node => desc'[u].node
  PROVE  SlotsHold'
<1>1. \A s : Listed(s)' = Listed(s)
  BY DEF Listed
<1>2. \A s \in Slots : solid[s] => unit[s] \in Units
  BY DEF SlotsHold, SlotTypes
<1> QED
  BY <1>1, <1>2 DEF SlotsHold, slotVars

(* So does the limit. *)
LEMMA LimitStays ==
  ASSUME LimitKept, twice \subseteq twice', UNCHANGED <<busy, num>>
  PROVE  LimitKept'
BY DEF LimitKept

(* So do the commands under way. *)
LEMMA HandledStays ==
  ASSUME Handled, twice \subseteq twice', UNCHANGED <<listVars, current, commands>>
  PROVE  Handled'
<1>1. Nodes' = Nodes /\ \A u, i : NodesOf(u, i)' = NodesOf(u, i)
  BY DEF Nodes, NodesOf, listVars
<1>2. \A n : On(n)' = On(n) /\ (Found(n)' <=> Found(n))
  BY DEF On, Found
<1>3. \A n : n[1] \notin twice' => n[1] \notin twice
  OBVIOUS
<1> QED
  BY <1>1, <1>2, <1>3 DEF Handled, listVars

(* A read that goes out is owed one answer, two or none. *)
LEMMA ReadIs ==
  ASSUME NEW u \in Units, NEW rs \in SUBSET Reads, NEW a \in [Reads -> Nat], NEW b,
         Read(u, rs, a, b), EntityTypes
  PROVE  /\ owed' \in [Reads -> Nat] /\ lost' \subseteq Units
         /\ twice \subseteq twice' /\ twice' \subseteq Units
         /\ \A r \in Reads : r \notin rs => owed'[r] = a[r]
         /\ u \notin twice' => \A r \in rs : owed'[r] = a[r] \/ owed'[r] = a[r] + 1
<1>1. PICK n \in [rs -> 0 .. 2] :
        /\ owed' = [r \in Reads |-> a[r] + (IF r \in rs THEN n[r] ELSE 0)]
        /\ lost' = IF {r \in rs : n[r] = 0} = {} THEN lost ELSE lost \cup {u}
        /\ twice' = IF {r \in rs : n[r] = 2} = {} THEN twice ELSE twice \cup {u}
  BY DEF Read
<1>2. lost' \subseteq Units /\ twice \subseteq twice' /\ twice' \subseteq Units
  BY <1>1 DEF EntityTypes
<1>3. \A r \in Reads : a[r] \in Nat /\ (r \in rs => n[r] \in 0 .. 2)
  OBVIOUS
<1>4. owed' \in [Reads -> Nat]
  BY <1>1, <1>3
<1>5. \A r \in Reads : r \notin rs => owed'[r] = a[r]
  BY <1>1, <1>3
<1>6. ASSUME u \notin twice', NEW r \in rs PROVE owed'[r] = a[r] \/ owed'[r] = a[r] + 1
  <2>1. n[r] # 2
    BY <1>1, <1>6
  <2> QED
    BY <1>1, <1>3, <2>1
<1> QED
  BY <1>2, <1>4, <1>5, <1>6

(* An answer that comes is owed once less. *)
LEMMA AnsweredIs ==
  ASSUME EntityTypes, NEW r \in Reads, owed[r] > 0
  PROVE  /\ Answered(r) \in [Reads -> Nat] /\ Answered(r)[r] = owed[r] - 1
         /\ \A p \in Reads : p # r => Answered(r)[p] = owed[p]
BY DEF EntityTypes, Answered

(* Which reads there are. *)
LEMMA ReadsAre ==
  \A u \in Units :
    /\ <<u, "entity", 0>> \in Reads /\ <<u, "config", 0>> \in Reads
    /\ \A i \in Inputs : <<u, "input", i>> \in Reads
BY DEF Reads

(* What is read changes nothing about the inputs, or clears what is stored,*)
(* or stores a unit nothing was stored of.                                 *)
LEMMA ReadsStay ==
  ASSUME ReadsOnce, EntityTypes, UNCHANGED talker, twice \subseteq twice',
         \A u \in Units, i \in Inputs : owed'[<<u, "input", i>>] = owed[<<u, "input", i>>],
         \A u \in Units :
            \/ desc'[u] = desc[u]
            \/ desc'[u] = [node |-> desc[u].node, named |-> FALSE, conf |-> FALSE]
            \/ /\ ~desc[u].node
               /\ desc'[u] = [node |-> TRUE, named |-> TRUE, conf |-> FALSE]
  PROVE  ReadsOnce'
<1>1. \A u, i : NodesOf(u, i)' = NodesOf(u, i)
  BY DEF NodesOf, Nodes
<1> SUFFICES ASSUME NEW u \in Units
             PROVE  /\ desc'[u].named \/ desc'[u].conf => desc'[u].node
                    /\ u \notin twice' => \A i \in Inputs :
                          LET r == <<u, "input", i>> IN
                          /\ NodesOf(u, i) \subseteq {<<u, i, 1>>}
                          /\ (desc'[u].node => desc'[u].named /\ ~desc'[u].conf) =>
                                 owed[r] = 0 /\ NodesOf(u, i) = {}
                          /\ desc'[u].named => \/ owed[r] = 0
                                               \/ owed[r] = 1 /\ NodesOf(u, i) = {}
  BY <1>1 DEF ReadsOnce
<1>2. desc[u] \in [node : BOOLEAN, named : BOOLEAN, conf : BOOLEAN]
  BY DEF EntityTypes
<1>3. CASE desc'[u] = desc[u]
  BY <1>3 DEF ReadsOnce
<1>4. CASE desc'[u] = [node |-> desc[u].node, named |-> FALSE, conf |-> FALSE]
  BY <1>2, <1>4 DEF ReadsOnce
<1>5. CASE ~desc[u].node /\ desc'[u] = [node |-> TRUE, named |-> TRUE, conf |-> FALSE]
  BY <1>2, <1>5 DEF ReadsOnce
<1> QED
  BY <1>3, <1>4, <1>5

-----------------------------------------------------------------------------
(* The reads of the epoll thread *)

(* What reads units, or hears of them, has to show little.                 *)
LEMMA EntityStep ==
  ASSUME IInv, UNCHANGED <<slotVars, listVars, countVars, current, commands>>,
         EntityTypes', twice \subseteq twice', ReadsOnce', Releasing', ~Astray,
         epc' \in {"poll", "release", "astray"}, at' \in Slots \cup {0},
         \A u \in Units : desc[u].node => desc'[u].node
  PROVE  IInv'
<1>1. EntityTypes /\ SlotTypes /\ ListTypes /\ TalkTypes
  BY TypesAre DEF IInv
<1>2. /\ ListTypes' /\ IsFiniteSet(Nodes') /\ Numbered' /\ Nodes' = Nodes
      /\ ListsOK'
  BY <1>1, ListsStay DEF IInv, listVars, ListTypes
<1>3. SlotTypes' /\ TalkTypes'
  BY <1>1, <1>2 DEF SlotTypes, TalkTypes, slotVars
<1>4. SlotsHold' /\ LimitKept' /\ Handled'
  BY <1>1, SlotsStay, LimitStays, HandledStays DEF IInv, listVars
<1>5. OneSlot'
  BY DEF IInv, OneSlot, slotVars
<1>6. TypeOK'
  BY <1>2, <1>3, TypesAre
<1> QED
  BY <1>2, <1>4, <1>5, <1>6 DEF IInv

(* A unit is heard of for the first time, or again. *)
LEMMA DiscoverStep ==
  ASSUME IInv, NEW u \in Units, Discover(u)
  PROVE  IInv'
<1>1. EntityTypes /\ SlotTypes
  BY TypesAre DEF IInv
<1>2. Read(u, {<<u, "entity", 0>>}, owed, faults[u]) /\ {<<u, "entity", 0>>} \in SUBSET Reads
  BY ReadsAre DEF Discover
<1>3. /\ owed' \in [Reads -> Nat] /\ lost' \subseteq Units
      /\ twice \subseteq twice' /\ twice' \subseteq Units
      /\ \A r \in Reads : r \notin {<<u, "entity", 0>>} => owed'[r] = owed[r]
  BY <1>1, <1>2, ReadIs DEF EntityTypes
<1>4. EntityTypes'
  BY <1>1, <1>3 DEF EntityTypes, Discover
<1>5. ReadsOnce'
  BY <1>1, <1>3, ReadsStay, ReadsAre DEF IInv, Discover, listVars
<1>6. Releasing'
  BY DEF IInv, Discover, Releasing, Polling, epollVars
<1> QED
  BY <1>1, <1>3, <1>4, <1>5, <1>6, EntityStep DEF Discover, SlotTypes, Polling, Astray, epollVars

(* A unit leaves, or is heard in time. *)
LEMMA HeardStep ==
  ASSUME IInv, NEW u \in Units, Depart(u) \/ Refresh(u)
  PROVE  IInv'
<1>1. EntityTypes /\ SlotTypes
  BY TypesAre DEF IInv
<1>2. EntityTypes'
  BY <1>1 DEF EntityTypes, Depart, Refresh, ghostVars
<1>3. ReadsOnce'
  BY <1>1, ReadsStay DEF IInv, Depart, Refresh, listVars, ghostVars
<1>4. Releasing'
  BY DEF IInv, Depart, Refresh, Releasing, Polling, epollVars, ghostVars
<1> QED
  BY <1>1, <1>2, <1>3, <1>4, EntityStep
     DEF Depart, Refresh, SlotTypes, Polling, Astray, epollVars, ghostVars

(* The entity descriptor is stored and the configuration read. *)
LEMMA AnswerEntityStep ==
  ASSUME IInv, NEW u \in Units, AnswerEntity(u)
  PROVE  IInv'
<1> DEFINE r == <<u, "entity", 0>>
           c == <<u, "config", 0>>
<1>1. EntityTypes /\ SlotTypes /\ r \in Reads /\ {c} \in SUBSET Reads
  BY TypesAre, ReadsAre DEF IInv
<1>2. owed[r] > 0 /\ Read(u, {c}, Answered(r), faults[u])
  BY DEF AnswerEntity
<1>3. /\ Answered(r) \in [Reads -> Nat]
      /\ \A p \in Reads : p # r => Answered(r)[p] = owed[p]
  BY <1>1, <1>2, AnsweredIs
<1>4. /\ owed' \in [Reads -> Nat] /\ lost' \subseteq Units
      /\ twice \subseteq twice' /\ twice' \subseteq Units
      /\ \A p \in Reads : p \notin {c} => owed'[p] = Answered(r)[p]
  BY <1>1, <1>2, <1>3, ReadIs
<1>5. \A w \in Units, i \in Inputs : owed'[<<w, "input", i>>] = owed[<<w, "input", i>>]
  BY <1>3, <1>4, ReadsAre
<1>6. desc' = IF desc[u].node THEN desc
              ELSE [desc EXCEPT ![u] = [node |-> TRUE, named |-> TRUE, conf |-> FALSE]]
  BY DEF AnswerEntity
<1>7. EntityTypes'
  BY <1>1, <1>4, <1>6 DEF EntityTypes, AnswerEntity
<1>8. ReadsOnce'
  BY <1>1, <1>4, <1>5, <1>6, ReadsStay DEF IInv, AnswerEntity, listVars, EntityTypes
<1>9. Releasing'
  BY DEF IInv, AnswerEntity, Releasing, Polling, epollVars
<1>10. \A w \in Units : desc[w].node => desc'[w].node
  BY <1>1, <1>6 DEF EntityTypes
<1> QED
  BY <1>1, <1>4, <1>7, <1>8, <1>9, <1>10, EntityStep
     DEF AnswerEntity, SlotTypes, Polling, Astray, epollVars

(* The configuration is stored and the inputs read. *)
LEMMA AnswerConfigStep ==
  ASSUME IInv, NEW u \in Units, AnswerConfig(u)
  PROVE  IInv'
<1> DEFINE r == <<u, "config", 0>>
<1>1. EntityTypes /\ SlotTypes /\ r \in Reads /\ InputReads(u) \in SUBSET Reads
  BY TypesAre, ReadsAre DEF IInv, InputReads
<1>2. owed[r] > 0
  BY DEF AnswerConfig
<1>3. /\ Answered(r) \in [Reads -> Nat]
      /\ \A p \in Reads : p # r => Answered(r)[p] = owed[p]
  BY <1>1, <1>2, AnsweredIs
<1>4. Releasing'
  BY DEF IInv, AnswerConfig, Releasing, Polling, epollVars
<1>5. CASE StoresConfig(u)
  <2>1. /\ Read(u, InputReads(u), Answered(r), faults[u])
        /\ desc' = [desc EXCEPT ![u].conf = TRUE]
    BY <1>5 DEF AnswerConfig
  <2>2. /\ owed' \in [Reads -> Nat] /\ lost' \subseteq Units
        /\ twice \subseteq twice' /\ twice' \subseteq Units
        /\ \A p \in Reads : p \notin InputReads(u) => owed'[p] = Answered(r)[p]
        /\ u \notin twice' => \A p \in InputReads(u) :
                \/ owed'[p] = Answered(r)[p]
                \/ owed'[p] = Answered(r)[p] + 1
    BY <1>1, <1>3, <2>1, ReadIs
  <2>3. EntityTypes'
    BY <1>1, <2>1, <2>2 DEF EntityTypes, AnswerConfig
  <2>4. \A w, i : NodesOf(w, i)' = NodesOf(w, i)
    BY DEF NodesOf, Nodes, AnswerConfig, listVars
  <2>5. ReadsOnce'
    <3> SUFFICES ASSUME NEW w \in Units
                 PROVE  /\ desc'[w].named \/ desc'[w].conf => desc'[w].node
                        /\ w \notin twice' => \A i \in Inputs :
                              LET p == <<w, "input", i>> IN
                              /\ NodesOf(w, i) \subseteq {<<w, i, 1>>}
                              /\ (desc'[w].node => desc'[w].named /\ ~desc'[w].conf) =>
                                     owed'[p] = 0 /\ NodesOf(w, i) = {}
                              /\ desc'[w].named => \/ owed'[p] = 0
                                                   \/ owed'[p] = 1 /\ NodesOf(w, i) = {}
      BY <2>4 DEF ReadsOnce
    <3>1. CASE w # u
      <4>1. \A i \in Inputs : owed'[<<w, "input", i>>] = owed[<<w, "input", i>>]
        BY <1>3, <2>2, <3>1, ReadsAre DEF InputReads
      <4>2. desc'[w] = desc[w]
        BY <1>1, <2>1, <3>1 DEF EntityTypes
      <4> QED
        BY <2>2, <4>1, <4>2 DEF IInv, ReadsOnce
    <3>2. CASE w = u
      <4>1. /\ desc[u] \in [node : BOOLEAN, named : BOOLEAN, conf : BOOLEAN]
            /\ desc[u].node /\ ~desc[u].conf
            /\ desc'[u] = [desc[u] EXCEPT !.conf = TRUE]
        BY <1>1, <1>5, <2>1 DEF EntityTypes, StoresConfig
      <4>2. desc'[u].node /\ desc'[u].conf /\ (desc'[u].named <=> desc[u].named)
        BY <4>1
      <4>3. ASSUME u \notin twice', NEW i \in Inputs
            PROVE  /\ NodesOf(u, i) \subseteq {<<u, i, 1>>}
                   /\ desc[u].named => \/ owed'[<<u, "input", i>>] = 0
                                       \/ owed'[<<u, "input", i>>] = 1 /\ NodesOf(u, i) = {}
        <5> DEFINE p == <<u, "input", i>>
        <5>1. p \in Reads /\ p \in InputReads(u) /\ p # r
          BY ReadsAre DEF InputReads
        <5>2. owed'[p] = owed[p] \/ owed'[p] = owed[p] + 1
          BY <1>3, <2>2, <4>3, <5>1
        <5>3. /\ NodesOf(u, i) \subseteq {<<u, i, 1>>}
              /\ desc[u].named => owed[p] = 0 /\ NodesOf(u, i) = {}
          BY <2>2, <4>1, <4>3 DEF IInv, ReadsOnce
        <5> QED
          BY <5>2, <5>3
      <4> QED
        BY <3>2, <4>2, <4>3
    <3> QED
      BY <3>1, <3>2
  <2>6. \A w \in Units : desc[w].node => desc'[w].node
    BY <1>1, <2>1 DEF EntityTypes
  <2> QED
    BY <1>1, <1>4, <2>2, <2>3, <2>5, <2>6, EntityStep
       DEF AnswerConfig, SlotTypes, Polling, Astray, epollVars
<1>6. CASE ~StoresConfig(u)
  <2>1. owed' = Answered(r) /\ UNCHANGED <<desc, lost, twice>>
    BY <1>6 DEF AnswerConfig
  <2>2. EntityTypes'
    BY <1>1, <1>3, <2>1 DEF EntityTypes, AnswerConfig
  <2>3. ReadsOnce'
    BY <1>1, <1>3, <2>1, ReadsStay, ReadsAre DEF IInv, AnswerConfig, listVars
  <2> QED
    BY <1>1, <1>4, <2>1, <2>2, <2>3, EntityStep
       DEF AnswerConfig, SlotTypes, Polling, Astray, epollVars
<1> QED
  BY <1>5, <1>6

(* A unit restarts: it is read anew and its slot released. *)
LEMMA RestartStep ==
  ASSUME IInv, NEW u \in Units, Restart(u)
  PROVE  IInv'
<1> DEFINE r == <<u, "entity", 0>>
<1>1. EntityTypes /\ SlotTypes /\ {r} \in SUBSET Reads
  BY TypesAre, ReadsAre DEF IInv
<1>2. /\ desc' = [desc EXCEPT ![u].named = FALSE, ![u].conf = FALSE]
      /\ restarted' = restarted \cup {u} /\ ~Astray /\ epc = "poll"
  BY DEF Restart, Polling, Astray
<1>3. /\ desc' \in [Units -> [node : BOOLEAN, named : BOOLEAN, conf : BOOLEAN]]
      /\ \A w \in Units : w # u => desc'[w] = desc[w]
      /\ desc'[u] = [node |-> desc[u].node, named |-> FALSE, conf |-> FALSE]
  <2>1. desc[u] \in [node : BOOLEAN, named : BOOLEAN, conf : BOOLEAN]
    BY <1>1 DEF EntityTypes
  <2> QED
    BY <1>1, <1>2, <2>1 DEF EntityTypes
<1>4. \A w \in Units : desc[w].node => desc'[w].node
  BY <1>3
<1>5. CASE desc[u].node /\ SlotsOf(u) # {}
  <2>1. at' = First(SlotsOf(u)) /\ epc' = "release" /\ UNCHANGED <<entity, owed, lost, twice>>
    BY <1>5 DEF Restart
  <2>2. SlotsOf(u) \subseteq Nat /\ \A s \in SlotsOf(u) : s \in Slots /\ unit[s] = u
    BY DEF SlotsOf, Slots
  <2>3. at' \in Slots /\ unit[at'] = u
    BY <1>5, <2>1, <2>2, FirstIs
  <2>4. Releasing'
    BY <1>2, <2>3 DEF Releasing, Restart, slotVars
  <2>5. EntityTypes'
    BY <1>1, <1>2, <1>3, <2>1 DEF EntityTypes
  <2>6. ReadsOnce'
    BY <1>1, <1>3, <2>1, ReadsStay DEF IInv, Restart, listVars
  <2> QED
    BY <1>2, <1>4, <2>1, <2>3, <2>4, <2>5, <2>6, EntityStep DEF Restart
<1>6. CASE ~(desc[u].node /\ SlotsOf(u) # {})
  <2>1. /\ entity' = [entity EXCEPT ![u] = "connect"] /\ UNCHANGED epollVars
        /\ Read(u, {r}, owed, faults[u] + 1)
    BY <1>6 DEF Restart
  <2>2. /\ owed' \in [Reads -> Nat] /\ lost' \subseteq Units
        /\ twice \subseteq twice' /\ twice' \subseteq Units
        /\ \A p \in Reads : p \notin {r} => owed'[p] = owed[p]
    BY <1>1, <2>1, ReadIs DEF EntityTypes
  <2>3. EntityTypes'
    BY <1>1, <1>2, <1>3, <2>1, <2>2 DEF EntityTypes
  <2>4. ReadsOnce'
    BY <1>1, <1>3, <2>2, ReadsStay, ReadsAre DEF IInv, Restart, listVars
  <2>5. Releasing'
    BY <1>2, <2>1 DEF Releasing, epollVars
  <2> QED
    BY <1>1, <1>2, <1>4, <2>1, <2>2, <2>3, <2>4, <2>5, EntityStep
       DEF Restart, SlotTypes, epollVars
<1> QED
  BY <1>5, <1>6

-----------------------------------------------------------------------------
(* The release *)

(* No node comes or goes when none is listed. *)
LEMMA NodesStay ==
  ASSUME IsFiniteSet(Nodes), Numbered, ReadsOnce, DOMAIN talker' = DOMAIN talker
  PROVE  /\ Nodes' = Nodes /\ IsFiniteSet(Nodes') /\ Numbered'
         /\ \A u, i : NodesOf(u, i)' = NodesOf(u, i)
         /\ UNCHANGED <<desc, owed, twice>> => ReadsOnce'
<1>1. Nodes' = Nodes
  BY DEF Nodes
<1>2. \A u, i : NodesOf(u, i)' = NodesOf(u, i)
  BY <1>1 DEF NodesOf
<1>3. Numbered'
  BY <1>2 DEF Numbered
<1>4. UNCHANGED <<desc, owed, twice>> => ReadsOnce'
  BY <1>2 DEF ReadsOnce
<1> QED
  BY <1>1, <1>2, <1>3, <1>4

(* A release that has gone astray leaves nothing of the lists to show.     *)
LEMMA AstrayStep ==
  ASSUME IInv, DOMAIN talker' = DOMAIN talker, ListTypes', epc' = "astray", epc # "poll",
         UNCHANGED <<entityVars, slotVars, at, current, commands, ghostVars>>
  PROVE  IInv'
<1>1. EntityTypes /\ SlotTypes /\ TalkTypes
  BY TypesAre DEF IInv
<1>2. /\ Nodes' = Nodes /\ IsFiniteSet(Nodes') /\ Numbered' /\ ReadsOnce'
  BY NodesStay DEF IInv, entityVars, ghostVars
<1>3. EntityTypes' /\ SlotTypes' /\ TalkTypes'
  BY <1>1, <1>2 DEF EntityTypes, SlotTypes, TalkTypes, entityVars, slotVars, ghostVars
<1>4. Releasing' /\ OneSlot'
  BY DEF IInv, Releasing, OneSlot, slotVars, ghostVars
<1>5. TypeOK'
  BY <1>3, TypesAre
<1> QED
  BY <1>2, <1>4, <1>5 DEF IInv, Astray

(* A connected channel is released. *)
LEMMA ReleaseNodeStep ==
  ASSUME IInv, ReleaseNode
  PROVE  IInv'
<1> DEFINE n == Head(busy[at])
<1>1. ListTypes /\ at \in Slots
  BY TypesAre DEF IInv, Releasing, ReleaseNode
<1>2. /\ busy[at] \in Seq(Nodes) /\ busy[at] # <<>> /\ free[at] \in Seq(Nodes)
      /\ num[at] \in 0 .. ByteValues - 1 /\ cnntNum \in 0 .. ByteValues - 1
  BY <1>1 DEF ListTypes, ReleaseNode
<1>3. n \in Nodes /\ Tail(busy[at]) \in Seq(Nodes) /\ Append(free[at], n) \in Seq(Nodes)
  BY <1>2, HeadTailProperties, AppendProperties
<1>4. Down(num[at]) \in 0 .. ByteValues - 1 /\ Down(cnntNum) \in 0 .. ByteValues - 1
  BY <1>2, DownIs
<1>5. /\ busy' = [busy EXCEPT ![at] = Tail(busy[at])]
      /\ free' = [free EXCEPT ![at] = Append(free[at], n)]
      /\ talker' = [talker EXCEPT ![n] = NoTalker] /\ handling' = handling \ {n}
      /\ num' = [num EXCEPT ![at] = Down(num[at])] /\ cnntNum' = Down(cnntNum)
      /\ UNCHANGED <<channels, elemNum, canUse>>
  BY DEF ReleaseNode
<1> HIDE DEF n
<1>6. Nodes' = Nodes /\ DOMAIN talker' = DOMAIN talker
  BY <1>5 DEF Nodes
<1>7. ListTypes'
  BY <1>1, <1>3, <1>4, <1>5, <1>6 DEF ListTypes
<1> QED
  BY <1>6, <1>7, AstrayStep DEF ReleaseNode

(* A release that has gone astray takes the head of the other list.        *)
LEMMA ReleaseHeadStep ==
  ASSUME IInv, ReleaseHead
  PROVE  IInv'
<1>1. ListTypes /\ at \in Slots
  BY TypesAre DEF IInv, Releasing, ReleaseHead
<1>2. num[at] \in 0 .. ByteValues - 1 /\ cnntNum \in 0 .. ByteValues - 1
  BY <1>1 DEF ListTypes
<1>3. Down(num[at]) \in 0 .. ByteValues - 1 /\ Down(cnntNum) \in 0 .. ByteValues - 1
  BY <1>2, DownIs
<1>4. Nodes' = Nodes /\ DOMAIN talker' = DOMAIN talker
  BY DEF Nodes, ReleaseHead
<1>5. <<>> \in Seq(Nodes)
  BY EmptySeq
<1>6. ListTypes'
  BY <1>1, <1>3, <1>4, <1>5 DEF ListTypes, ReleaseHead
<1> QED
  BY <1>4, <1>6, AstrayStep DEF ReleaseHead, epollVars

(* A slot with no connected channel is released. *)
LEMMA ReleaseDoneStep ==
  ASSUME IInv, ReleaseDone
  PROVE  IInv'
<1> DEFINE u == unit[at]
           r == <<u, "entity", 0>>
<1>1. EntityTypes /\ SlotTypes /\ ListTypes /\ TalkTypes
  BY TypesAre DEF IInv
<1>2. at \in Slots /\ u \in Units /\ {r} \in SUBSET Reads /\ NoUnit \notin Units
  <2>1. at \in Slots /\ u \in restarted
    BY DEF IInv, Releasing, ReleaseDone
  <2>2. u \in Units
    BY <1>1, <2>1 DEF EntityTypes
  <2>3. {r} \in SUBSET Reads
    BY <2>2, ReadsAre
  <2> QED
    BY <2>1, <2>2, <2>3, EnumerationAssumption DEF EnumerationAssumption
<1>3. /\ unit' = [unit EXCEPT ![at] = NoUnit] /\ solid' = [solid EXCEPT ![at] = FALSE]
      /\ epc' = "poll" /\ at' = 0 /\ entity' = [entity EXCEPT ![u] = "connect"]
      /\ Read(u, {r}, owed, faults[u]) /\ ~Astray
      /\ UNCHANGED <<desc, state, listVars, countVars, current, commands, restarted>>
  BY DEF ReleaseDone, Astray
<1> HIDE DEF u
<1>4. /\ owed' \in [Reads -> Nat] /\ lost' \subseteq Units
      /\ twice \subseteq twice' /\ twice' \subseteq Units
      /\ \A p \in Reads : p \notin {r} => owed'[p] = owed[p]
  <2>1. Read(u, {r}, owed, faults[u]) /\ owed \in [Reads -> Nat]
    BY <1>1, <1>3 DEF EntityTypes
  <2> QED
    BY <1>1, <1>2, <2>1, ReadIs
<1>5. /\ ListTypes' /\ IsFiniteSet(Nodes') /\ Numbered' /\ Nodes' = Nodes
      /\ ListsOK'
  BY <1>1, <1>3, ListsStay DEF IInv, listVars, ListTypes
<1>6. EntityTypes' /\ SlotTypes' /\ TalkTypes'
  BY <1>1, <1>2, <1>3, <1>4, <1>5 DEF EntityTypes, SlotTypes, TalkTypes
<1>7. ReadsOnce'
  BY <1>1, <1>3, <1>4, ReadsStay, ReadsAre DEF IInv, listVars
<1>8. LimitKept' /\ Handled'
  BY <1>3, <1>4, LimitStays, HandledStays DEF IInv, listVars
<1>9. SlotsHold'
  <2>1. \A s : Listed(s)' = Listed(s)
    BY <1>3 DEF Listed, listVars
  <2>2. \A s \in Slots : s # at => unit'[s] = unit[s] /\ solid'[s] = solid[s]
    BY <1>1, <1>3 DEF SlotTypes
  <2>3. unit'[at] = NoUnit /\ solid'[at] = FALSE
    BY <1>1, <1>2, <1>3 DEF SlotTypes
  <2> QED
    BY <1>3, <2>1, <2>2, <2>3 DEF IInv, SlotsHold, listVars
<1>10. OneSlot'
  BY <1>1, <1>2, <1>3, <1>4 DEF IInv, OneSlot, SlotTypes
<1>11. Releasing'
  BY <1>3 DEF Releasing
<1>12. TypeOK'
  BY <1>5, <1>6, TypesAre
<1> QED
  BY <1>5, <1>7, <1>8, <1>9, <1>10, <1>11, <1>12 DEF IInv

-----------------------------------------------------------------------------
(* The receive thread *)

(* The receive thread changes the commands only. *)
LEMMA TalkerStep ==
  ASSUME IInv, handling' \subseteq Nodes, TalkTypes', ~Astray => Handled',
         UNCHANGED <<entityVars, slotVars, free, busy, channels, num, talker, countVars,
                     epollVars, ghostVars>>
  PROVE  IInv'
<1>1. EntityTypes /\ SlotTypes /\ ListTypes
  BY TypesAre DEF IInv
<1>2. /\ ListTypes' /\ IsFiniteSet(Nodes') /\ Numbered' /\ Nodes' = Nodes
      /\ ListsOK => ListsOK'
  BY <1>1, ListsStay DEF IInv
<1>3. ReadsOnce'
  BY NodesStay DEF IInv, entityVars, ghostVars
<1>4. EntityTypes' /\ SlotTypes'
  BY <1>1 DEF EntityTypes, SlotTypes, entityVars, slotVars, epollVars, ghostVars
<1>5. Releasing' /\ OneSlot'
  BY DEF IInv, Releasing, OneSlot, slotVars, epollVars, ghostVars
<1>6. ~Astray => SlotsHold' /\ LimitKept'
  BY <1>1, SlotsStay, LimitStays DEF IInv, entityVars, ghostVars
<1>7. TypeOK' /\ (Astray' <=> Astray)
  BY <1>2, <1>4, TypesAre DEF Astray, epollVars
<1> QED
  BY <1>2, <1>3, <1>5, <1>6, <1>7 DEF IInv

(* A node is free or connected, as its talker says, in one slot.           *)
LEMMA FreeIs ==
  ASSUME ListTypes, ListsApart, NEW s \in Slots
  PROVE  /\ \A n \in ToSet(free[s]) : n \in Nodes /\ talker[n] = NoTalker
         /\ \A n \in ToSet(busy[s]) : n \in Nodes /\ talker[n] # NoTalker
         /\ \A n \in Listed(s), w \in Slots : n \in Listed(w) => s = w
<1>1. /\ ToSet(free[s]) \subseteq Listed(s) /\ ToSet(busy[s]) \subseteq Listed(s)
      /\ Listed(s) \subseteq Nodes
  BY DEF Listed, ListsApart
<1>2. \A n \in Listed(s), w \in Slots : n \in Listed(w) => s = w
  BY DEF ListsApart
<1>3. \A n \in ToSet(busy[s]) : talker[n] # NoTalker
  BY <1>1 DEF ListsApart
<1>4. ASSUME NEW n \in ToSet(free[s]) PROVE talker[n] = NoTalker
  <2>1. ASSUME NEW w \in Slots, n \in ToSet(busy[w]) PROVE FALSE
    <3>1. n \in Listed(w) /\ n \in Listed(s)
      BY <1>1, <2>1 DEF Listed
    <3>2. s = w
      BY <1>2, <3>1
    <3> QED
      BY <2>1, <3>2 DEF ListsApart
  <2> QED
    BY <1>1, <2>1 DEF ListsApart
<1> QED
  BY <1>1, <1>2, <1>3, <1>4

(* A channel is found for a talker. *)
LEMMA FindStep ==
  ASSUME IInv, NEW t \in Talkers, Find(t)
  PROVE  IInv'
<1>1. ListTypes /\ TalkTypes
  BY TypesAre DEF IInv
<1>2. PICK n \in Available : current' = <<n, t>>
  BY DEF Find
<1>3. PICK s \in Slots : /\ num[s] < PerUnitMax /\ free[s] # <<>>
                         /\ n = Head(free[s]) /\ n \notin handling
  BY DEF Available
<1>4. n \in ToSet(free[s]) /\ n \in Nodes
  <2>1. free[s] \in Seq(Nodes)
    BY <1>1 DEF ListTypes
  <2>2. 1 \in 1 .. Len(free[s]) /\ Head(free[s]) = free[s][1]
    BY <1>3, <2>1, EmptySeq, LenProperties, HeadTailProperties
  <2> QED
    BY <1>3, <2>1, <2>2, ToSetIs
<1>5. TalkTypes' /\ handling' \subseteq Nodes
  BY <1>1, <1>2, <1>4 DEF TalkTypes, Find, ListTypes, Nodes, listVars
<1>6. ASSUME ~Astray PROVE Handled'
  <2>1. Handled /\ ListsApart
    BY <1>6 DEF IInv, ListsOK
  <2>2. talker[n] = NoTalker /\ \A w \in Slots : n \in ToSet(free[w]) => w = s
    BY <1>1, <1>4, <2>1, FreeIs DEF Listed
  <2>3. /\ Nodes' = Nodes /\ \A u, i : NodesOf(u, i)' = NodesOf(u, i)
        /\ \A m : On(m)' = On(m)
    BY DEF Nodes, NodesOf, On, Find, listVars
  <2>4. \A m : Found(m)' => m = n
    BY <1>2 DEF Found
  <2>5. UNCHANGED <<free, num, talker, handling, twice, commands>>
    BY DEF Find, listVars, ghostVars
  <2> QED
    BY <1>3, <2>1, <2>2, <2>3, <2>4, <2>5 DEF Handled
<1> QED
  BY <1>5, <1>6, TalkerStep DEF Find, listVars

(* The channel found is asked to connect. *)
LEMMA TalkStep ==
  ASSUME IInv, Talk
  PROVE  IInv'
<1> DEFINE n == current[1]
           t == current[2]
           c == Command("connect", n, t)
<1>1. ListTypes /\ TalkTypes
  BY TypesAre DEF IInv
<1>2. n \in Nodes /\ t \in Talkers /\ Found(n) /\ current' = <<>> /\ current = <<n, t>>
  BY <1>1 DEF TalkTypes, Talk, Found
<1>3. c \in CommandSet /\ IsOf(n, c.unit, c.input) /\ c.cmd = "connect"
  BY <1>1, <1>2 DEF ListTypes, CommandSet, Command, IsOf
<1> HIDE DEF c
<1>4. UNCHANGED <<free, num, talker, twice, ghostVars>>
  BY DEF Talk, ghostVars
<1>5. Nodes' = Nodes /\ \A u, i : NodesOf(u, i)' = NodesOf(u, i)
  BY <1>4 DEF Nodes, NodesOf
<1>6. \A m : ~Found(m)'
  BY <1>2 DEF Found
<1>7. CASE talker[n] # NoTalker
  <2>1. UNCHANGED <<commands, handling>>
    BY <1>7 DEF Talk
  <2>2. TalkTypes' /\ handling' \subseteq Nodes
    BY <1>1, <1>2, <1>5, <2>1 DEF TalkTypes, ListTypes
  <2>3. \A m : On(m)' = On(m)
    BY <2>1 DEF On
  <2>4. ASSUME ~Astray PROVE Handled'
    BY <1>4, <1>5, <1>6, <2>1, <2>3, <2>4 DEF IInv, Handled
  <2> QED
    BY <2>2, <2>4, TalkerStep DEF Talk
<1>8. CASE talker[n] = NoTalker
  <2>1. commands' = commands \cup {c} /\ handling' = handling \cup {n}
    BY <1>8 DEF Talk, c
  <2>2. TalkTypes' /\ handling' \subseteq Nodes
    BY <1>1, <1>2, <1>3, <1>5, <2>1 DEF TalkTypes, ListTypes
  <2>3. ASSUME ~Astray PROVE Handled'
    <3>1. Handled /\ n \in NodesOf(c.unit, c.input)
      BY <1>2, <1>3, <2>3 DEF IInv, NodesOf, IsOf
    <3>2. \A m : On(m)' = On(m) \cup (IF IsOf(m, c.unit, c.input) THEN {c} ELSE {})
      BY <2>1 DEF On
    <3>3. \A m \in Nodes : m[1] \notin twice /\ IsOf(m, c.unit, c.input) => m = n
      <4> SUFFICES ASSUME NEW m \in Nodes, m[1] \notin twice, IsOf(m, c.unit, c.input)
                   PROVE  m = n
        OBVIOUS
      <4>1. c.unit \in Units /\ c.input \in Inputs /\ c.unit \notin twice
        BY <1>3 DEF CommandSet, IsOf
      <4>2. m \in NodesOf(c.unit, c.input)
        BY DEF NodesOf, IsOf
      <4>3. NodesOf(c.unit, c.input) \subseteq {<<c.unit, c.input, 1>>}
        BY <4>1 DEF IInv, ReadsOnce
      <4> QED
        BY <3>1, <4>2, <4>3
    <3>4. n[1] \notin twice => On(n) = {} /\ n \notin handling
      BY <1>2, <3>1 DEF Handled
    <3>5. \A k \in commands' : NodesOf(k.unit, k.input) # {}
      BY <2>1, <3>1 DEF Handled
    <3>6. ASSUME NEW m \in Nodes, m[1] \notin twice
          PROVE  /\ \A k, l \in On(m)' : k = l
                 /\ On(m)' # {} => m \in handling'
                 /\ \A k \in On(m)' : k.cmd = "connect" <=> talker[m] = NoTalker
      <4>1. CASE m = n
        BY <1>3, <1>8, <2>1, <3>2, <3>4, <3>6, <4>1
      <4>2. CASE m # n
        <5>1. On(m)' = On(m)
          BY <3>2, <3>3, <3>6, <4>2
        <5> QED
          BY <2>1, <3>1, <3>6, <5>1 DEF Handled
      <4> QED
        BY <4>1, <4>2
    <3>7. ASSUME NEW s \in Slots, NEW m \in ToSet(free[s]), m[1] \notin twice, On(m)' # {}
          PROVE  m = Head(free[s]) /\ num[s] < PerUnitMax
      <4>1. m \in Nodes
        BY <1>1, <2>3, FreeIs DEF IInv, ListsOK
      <4>2. m = n \/ On(m) # {}
        BY <3>2, <3>3, <3>7, <4>1
      <4> QED
        BY <1>2, <3>1, <3>7, <4>2 DEF Handled
    <3> QED
      BY <1>4, <1>5, <1>6, <3>5, <3>6, <3>7 DEF Handled
  <2> QED
    BY <2>2, <2>3, TalkerStep DEF Talk
<1> QED
  BY <1>7, <1>8

(* A connected channel is asked to disconnect. *)
LEMMA UntalkStep ==
  ASSUME IInv, NEW t \in Talkers, Untalk(t)
  PROVE  IInv'
<1> DEFINE s == First(Hearing(t))
           j == First(Heard(s, t))
           n == busy[s][j]
           c == Command("disconnect", n, t)
<1>1. ListTypes /\ TalkTypes
  BY TypesAre DEF IInv
<1>2. s \in Slots /\ Heard(s, t) # {}
  <2>1. Hearing(t) \subseteq Nat /\ Hearing(t) # {}
    BY DEF Hearing, Slots, Untalk
  <2>2. s \in Hearing(t)
    BY <2>1, FirstIs
  <2> QED
    BY <2>2 DEF Hearing
<1>3. n \notin handling /\ handling' = handling \cup {n} /\ commands' = commands \cup {c}
  BY DEF Untalk
<1> HIDE DEF s
<1>4. busy[s] \in Seq(Nodes)
  BY <1>1, <1>2 DEF ListTypes
<1>5. j \in 1 .. Len(busy[s])
  <2>1. Heard(s, t) \subseteq 1 .. Len(busy[s]) /\ Len(busy[s]) \in Nat
    BY <1>4, ToSetIs DEF Heard
  <2>2. Heard(s, t) \subseteq Nat
    BY <2>1
  <2>3. j \in Heard(s, t)
    BY <1>2, <2>2, FirstIs
  <2> QED
    BY <2>1, <2>3
<1> HIDE DEF j
<1>6. n \in ToSet(busy[s]) /\ n \in Nodes
  BY <1>4, <1>5, ToSetIs
<1> HIDE DEF n
<1>7. c \in CommandSet /\ IsOf(n, c.unit, c.input) /\ c.cmd = "disconnect"
  BY <1>1, <1>6 DEF ListTypes, CommandSet, Command, IsOf
<1> HIDE DEF c
<1>8. UNCHANGED <<free, num, talker, twice, current>>
  BY DEF Untalk, ghostVars
<1>9. Nodes' = Nodes /\ \A u, i : NodesOf(u, i)' = NodesOf(u, i)
  BY <1>8 DEF Nodes, NodesOf
<1>10. TalkTypes' /\ handling' \subseteq Nodes
  BY <1>1, <1>3, <1>6, <1>7, <1>8, <1>9 DEF TalkTypes, ListTypes
<1>11. ASSUME ~Astray PROVE Handled'
  <2>1. Handled /\ n \in NodesOf(c.unit, c.input) /\ talker[n] # NoTalker
    BY <1>1, <1>2, <1>6, <1>7, <1>11, FreeIs DEF IInv, ListsOK, NodesOf, IsOf
  <2>2. /\ \A m : On(m)' = On(m) \cup (IF IsOf(m, c.unit, c.input) THEN {c} ELSE {})
        /\ \A m : Found(m)' <=> Found(m)
    BY <1>3, <1>8 DEF On, Found
  <2>3. \A m \in Nodes : m[1] \notin twice /\ IsOf(m, c.unit, c.input) => m = n
    <3> SUFFICES ASSUME NEW m \in Nodes, m[1] \notin twice, IsOf(m, c.unit, c.input)
                 PROVE  m = n
      OBVIOUS
    <3>1. c.unit \in Units /\ c.input \in Inputs /\ c.unit \notin twice
      BY <1>7 DEF CommandSet, IsOf
    <3>2. m \in NodesOf(c.unit, c.input)
      BY DEF NodesOf, IsOf
    <3>3. NodesOf(c.unit, c.input) \subseteq {<<c.unit, c.input, 1>>}
      BY <3>1 DEF IInv, ReadsOnce
    <3> QED
      BY <2>1, <3>2, <3>3
  <2>4. n[1] \notin twice => On(n) = {} /\ ~Found(n)
    BY <1>3, <1>6, <2>1 DEF Handled
  <2>5. \A k \in commands' : NodesOf(k.unit, k.input) # {}
    BY <1>3, <2>1 DEF Handled
  <2>6. ASSUME NEW m \in Nodes, m[1] \notin twice
        PROVE  /\ \A k, l \in On(m)' : k = l
               /\ On(m)' # {} => m \in handling'
               /\ \A k \in On(m)' : k.cmd = "connect" <=> talker[m] = NoTalker
               /\ Found(m) => talker[m] = NoTalker /\ m \notin handling'
    <3>1. CASE m = n
      BY <1>3, <1>7, <2>1, <2>2, <2>4, <2>6, <3>1
    <3>2. CASE m # n
      <4>1. On(m)' = On(m)
        BY <2>2, <2>3, <2>6, <3>2
      <4> QED
        BY <1>3, <2>1, <2>6, <3>2, <4>1 DEF Handled
    <3> QED
      BY <3>1, <3>2
  <2>7. ASSUME NEW w \in Slots, NEW m \in ToSet(free[w]), m[1] \notin twice,
               On(m)' # {} \/ Found(m)
        PROVE  m = Head(free[w]) /\ num[w] < PerUnitMax
    <3>1. m \in Nodes /\ m # n
      BY <1>1, <1>11, <2>1, FreeIs DEF IInv, ListsOK
    <3>2. On(m) # {} \/ Found(m)
      BY <2>2, <2>3, <2>7, <3>1
    <3> QED
      BY <2>1, <2>7, <3>2 DEF Handled
  <2> QED
    BY <1>8, <1>9, <2>2, <2>5, <2>6, <2>7 DEF Handled
<1> QED
  BY <1>10, <1>11, TalkerStep DEF Untalk, boundVars

-----------------------------------------------------------------------------
(* The ends of commands *)

(* The slots are numbers, and a counter can count their channels.          *)
LEMMA SlotFacts ==
  /\ 1 \in Slots /\ Slots \subseteq Nat /\ 0 \notin Slots
  /\ NumChannels \in Nat /\ NumChannels < ByteValues
  /\ ByteValues \in Nat /\ PerUnitMax \in Nat
<1>1. /\ NumChannels \in Nat \ {0} /\ MaxSlots \in Nat \ {0} /\ PerUnitMax \in Nat
      /\ ByteValues \in Nat /\ ByteValues > MaxSlots * NumChannels
  BY EnumerationAssumption DEF EnumerationAssumption
<1>2. MaxSlots * NumChannels = (MaxSlots - 1) * NumChannels + NumChannels
  BY <1>1
<1>3. (MaxSlots - 1) * NumChannels \in Nat
  BY <1>1
<1> QED
  BY <1>1, <1>2, <1>3 DEF Slots

(* A node moved from one list to the end of another.                       *)
LEMMA MoveIs ==
  ASSUME NEW S, NEW a \in Seq(S), NEW b \in Seq(S), IsInjective(a), IsInjective(b),
         ToSet(a) \cap ToSet(b) = {}, NEW j \in 1 .. Len(a)
  PROVE  LET x == RemoveAt(a, j)
             y == Append(b, a[j])
         IN /\ x \in Seq(S) /\ y \in Seq(S) /\ IsInjective(x) /\ IsInjective(y)
            /\ ToSet(x) = ToSet(a) \ {a[j]} /\ ToSet(y) = ToSet(b) \cup {a[j]}
            /\ ToSet(x) \cap ToSet(y) = {} /\ ToSet(x) \cup ToSet(y) = ToSet(a) \cup ToSet(b)
            /\ Len(a) \in Nat /\ Len(b) \in Nat /\ Len(x) + Len(y) = Len(a) + Len(b)
            /\ Len(x) = Len(a) - 1 /\ Len(y) = Len(b) + 1
<1> DEFINE x == RemoveAt(a, j)
           y == Append(b, a[j])
<1>1. /\ x \in Seq(S) /\ Len(x) = Len(a) - 1 /\ IsInjective(x)
      /\ ToSet(x) = ToSet(a) \ {a[j]}
  BY RemovedIs
<1>2. a[j] \in ToSet(a) /\ a[j] \in S /\ Len(a) \in Nat /\ Len(b) \in Nat
  BY ToSetIs
<1>3. a[j] \notin ToSet(b)
  BY <1>2
<1>4. /\ y \in Seq(S) /\ Len(y) = Len(b) + 1 /\ IsInjective(y)
      /\ ToSet(y) = ToSet(b) \cup {a[j]}
  BY <1>2, <1>3, AppendIs
<1> HIDE DEF x, y
<1>5. Len(x) + Len(y) = Len(a) + Len(b)
  BY <1>1, <1>2, <1>4
<1>6. ToSet(x) \cap ToSet(y) = {} /\ ToSet(x) \cup ToSet(y) = ToSet(a) \cup ToSet(b)
  BY <1>1, <1>2, <1>3, <1>4
<1> QED
  BY <1>1, <1>2, <1>4, <1>5, <1>6 DEF x, y

(* The nodes with a talker are the connected list of the first slot.       *)
LEMMA TalkersAre ==
  ASSUME NEW N, NEW l \in Seq(N), IsInjective(l), NEW T,
         \A n \in N : T[n] # NoTalker <=> n \in ToSet(l)
  PROVE  /\ {n \in N : T[n] # NoTalker} = ToSet(l)
         /\ Cardinality({n \in N : T[n] # NoTalker}) = Len(l)
<1>1. {n \in N : T[n] # NoTalker} = ToSet(l)
  BY ToSetIs
<1> QED
  BY <1>1, SizeIs

(* The connected channels are those of the first slot. *)
LEMMA FirstSlotIs ==
  ASSUME ListTypes, ListsOK
  PROVE  /\ free[1] \in Seq(Nodes) /\ busy[1] \in Seq(Nodes)
         /\ IsInjective(free[1]) /\ IsInjective(busy[1])
         /\ ToSet(free[1]) \cap ToSet(busy[1]) = {} /\ Listed(1) \subseteq Nodes
         /\ \A n \in Nodes : talker[n] # NoTalker <=> n \in ToSet(busy[1])
         /\ num[1] = Len(busy[1]) /\ cnntNum = Len(busy[1])
         /\ Len(free[1]) \in Nat /\ Len(busy[1]) \in Nat
         /\ Len(free[1]) + Len(busy[1]) <= NumChannels
<1>1. /\ free[1] \in Seq(Nodes) /\ busy[1] \in Seq(Nodes) /\ channels[1] \in 0 .. NumChannels
  BY SlotFacts DEF ListTypes
<1>2. /\ IsInjective(free[1]) /\ IsInjective(busy[1])
      /\ ToSet(free[1]) \cap ToSet(busy[1]) = {} /\ Listed(1) \subseteq Nodes
  BY SlotFacts DEF ListsOK, ListsApart
<1>3. \A s \in Slots : s # 1 => ToSet(busy[s]) = {}
  BY DEF ListsOK, FirstOnly, ToSet
<1>4. \A n \in Nodes : talker[n] # NoTalker <=> n \in ToSet(busy[1])
  BY <1>3, SlotFacts DEF ListsOK, ListsApart
<1>5. num[1] = Len(busy[1]) /\ channels[1] = Len(free[1]) + Len(busy[1])
  BY SlotFacts DEF ListsOK, Counted
<1>6. cnntNum = Len(busy[1])
  BY <1>1, <1>2, <1>4, TalkersAre DEF ListsOK, Counted
<1>7. Len(free[1]) \in Nat /\ Len(busy[1]) \in Nat
  BY <1>1, LenProperties
<1>8. Len(free[1]) + Len(busy[1]) <= NumChannels
  <2>1. channels[1] <= NumChannels
    BY <1>1, SlotFacts
  <2> QED
    BY <1>5, <2>1
<1> QED
  BY <1>1, <1>2, <1>4, <1>5, <1>6, <1>7, <1>8

(* A channel moved from one list of a slot to the other. *)
LEMMA ListsMoved ==
  ASSUME ListTypes, ListsOK,
         free' \in [Slots -> Seq(Nodes)], busy' \in [Slots -> Seq(Nodes)],
         \A s \in Slots : s # 1 => free'[s] = free[s] /\ busy'[s] = busy[s],
         IsInjective(free'[1]), IsInjective(busy'[1]),
         ToSet(free'[1]) \cap ToSet(busy'[1]) = {},
         ToSet(free'[1]) \cup ToSet(busy'[1]) = ToSet(free[1]) \cup ToSet(busy[1]),
         Len(free'[1]) + Len(busy'[1]) = Len(free[1]) + Len(busy[1]),
         talker' \in [Nodes -> Talkers \cup {NoTalker}],
         \A n \in Nodes : talker'[n] # NoTalker <=> n \in ToSet(busy'[1]),
         handling' \subseteq Nodes,
         num' = [num EXCEPT ![1] = Len(busy'[1])], cnntNum' = Len(busy'[1]),
         UNCHANGED <<channels, elemNum, canUse>>
  PROVE  ListTypes' /\ Nodes' = Nodes /\ ListsOK' /\ \A s \in Slots : Listed(s)' = Listed(s)
<1>1. Nodes' = Nodes
  BY DEF Nodes
<1>2. \A s \in Slots : Listed(s)' = Listed(s)
  BY DEF Listed
<1>3. free'[1] \in Seq(Nodes) /\ busy'[1] \in Seq(Nodes) /\ 1 \in Slots
  BY SlotFacts
<1>4. Len(free'[1]) \in Nat /\ Len(busy'[1]) \in Nat /\ Len(busy'[1]) \in 0 .. ByteValues - 1
  <2>1. Len(free'[1]) \in Nat /\ Len(busy'[1]) \in Nat
    BY <1>3, LenProperties
  <2>2. Len(free'[1]) + Len(busy'[1]) <= NumChannels
    BY FirstSlotIs
  <2> QED
    BY <2>1, <2>2, SlotFacts
<1>5. ListTypes'
  BY <1>1, <1>4 DEF ListTypes
<1>6. ListsApart'
  <2>1. \A s \in Slots : /\ IsInjective(free'[s]) /\ IsInjective(busy'[s])
                         /\ ToSet(free'[s]) \cap ToSet(busy'[s]) = {}
    BY DEF ListsOK, ListsApart
  <2>2. \A s \in Slots : s # 1 => ToSet(busy'[s]) = {}
    <3>1. \A s \in Slots : s # 1 => busy'[s] = <<>>
      BY DEF ListsOK, FirstOnly
    <3>2. ToSet(<<>>) = {}
      BY DEF ToSet
    <3> QED
      BY <3>1, <3>2
  <2>3. \A n \in Nodes : talker'[n] # NoTalker <=> \E s \in Slots : n \in ToSet(busy'[s])
    BY <1>3, <2>2
  <2>4. /\ \A s, w \in Slots : s # w => Listed(s)' \cap Listed(w)' = {}
        /\ UNION {Listed(s)' : s \in Slots} = Nodes
    BY <1>2 DEF ListsOK, ListsApart
  <2> QED
    BY <1>1, <2>1, <2>3, <2>4 DEF ListsApart
<1>7. Counted'
  <2>1. \A s \in Slots : /\ channels'[s] = Len(free'[s]) + Len(busy'[s])
                         /\ num'[s] = Len(busy'[s])
    BY <1>3 DEF ListsOK, Counted, ListTypes
  <2>2. cnntNum' = Cardinality({n \in Nodes : talker'[n] # NoTalker})
    <3> DEFINE l == busy'[1]
               T == talker'
    <3>1. /\ l \in Seq(Nodes) /\ IsInjective(l) /\ cnntNum' = Len(l)
          /\ \A n \in Nodes : T[n] # NoTalker <=> n \in ToSet(l)
      BY <1>3
    <3> HIDE DEF l, T
    <3>2. {n \in Nodes : T[n] # NoTalker} = ToSet(l)
      BY <3>1, ToSetIs
    <3>3. Cardinality(ToSet(l)) = Len(l)
      BY <3>1, SizeIs
    <3> QED
      BY <3>1, <3>2, <3>3 DEF T
  <2> QED
    BY <1>1, <2>1, <2>2 DEF ListsOK, Counted
<1>8. FirstOnly'
  BY DEF ListsOK, FirstOnly
<1> QED
  BY <1>1, <1>2, <1>5, <1>6, <1>7, <1>8 DEF ListsOK

(* What a successful connect does.                                         *)
LEMMA ConnectedIs ==
  ASSUME ListTypes, ListsOK, NEW k \in CommandSet, Connected(k),
         Matching(free[1], k) # {}, UNCHANGED <<elemNum, canUse>>
  PROVE  /\ ListTypes' /\ Nodes' = Nodes /\ ListsOK'
         /\ \A s \in Slots : Listed(s)' = Listed(s)
         /\ \A s \in Slots : s # 1 => UNCHANGED <<free[s], busy[s], num[s]>>
         /\ UNCHANGED channels
         /\ \E n \in ToSet(free[1]) :
               /\ IsOf(n, k.unit, k.input) /\ n \in Nodes
               /\ ToSet(free'[1]) = ToSet(free[1]) \ {n}
               /\ ToSet(busy'[1]) = ToSet(busy[1]) \cup {n}
               /\ num'[1] = num[1] + 1 /\ num[1] \in Nat
               /\ handling' = handling \ {n} /\ talker' = [talker EXCEPT ![n] = k.talker]
<1> DEFINE j == First(Matching(free[1], k))
           n == free[1][j]
<1>1. /\ free' = [free EXCEPT ![1] = RemoveAt(free[1], j)]
      /\ busy' = [busy EXCEPT ![1] = Append(busy[1], n)]
      /\ talker' = [talker EXCEPT ![n] = k.talker] /\ handling' = handling \ {n}
      /\ num' = [num EXCEPT ![1] = num[1] + 1] /\ cnntNum' = cnntNum + 1
      /\ UNCHANGED channels
  BY DEF Connected
<1>2. /\ free[1] \in Seq(Nodes) /\ busy[1] \in Seq(Nodes)
      /\ IsInjective(free[1]) /\ IsInjective(busy[1])
      /\ ToSet(free[1]) \cap ToSet(busy[1]) = {}
      /\ \A m \in Nodes : talker[m] # NoTalker <=> m \in ToSet(busy[1])
      /\ num[1] = Len(busy[1]) /\ cnntNum = Len(busy[1])
  BY FirstSlotIs
<1>3. j \in 1 .. Len(free[1]) /\ IsOf(n, k.unit, k.input)
  <2>1. /\ Matching(free[1], k) \subseteq 1 .. Len(free[1])
        /\ \A i \in Matching(free[1], k) : IsOf(free[1][i], k.unit, k.input)
    BY <1>2, ToSetIs DEF Matching
  <2>2. j \in Matching(free[1], k)
    BY <2>1, FirstIs
  <2> QED
    BY <2>1, <2>2
<1> HIDE DEF j
<1>4. 1 \in Slots /\ DOMAIN free = Slots /\ DOMAIN busy = Slots /\ DOMAIN num = Slots
  BY SlotFacts DEF ListTypes
<1>5. free'[1] = RemoveAt(free[1], j) /\ busy'[1] = Append(busy[1], free[1][j])
  BY <1>1, <1>4
<1>6. n \in ToSet(free[1]) /\ n \in Nodes
  BY <1>2, <1>3, ToSetIs
<1>7. /\ free'[1] \in Seq(Nodes) /\ busy'[1] \in Seq(Nodes)
      /\ IsInjective(free'[1]) /\ IsInjective(busy'[1])
      /\ ToSet(free'[1]) = ToSet(free[1]) \ {n} /\ ToSet(busy'[1]) = ToSet(busy[1]) \cup {n}
      /\ ToSet(free'[1]) \cap ToSet(busy'[1]) = {}
      /\ ToSet(free'[1]) \cup ToSet(busy'[1]) = ToSet(free[1]) \cup ToSet(busy[1])
      /\ Len(free[1]) \in Nat /\ Len(busy[1]) \in Nat
      /\ Len(free'[1]) = Len(free[1]) - 1 /\ Len(busy'[1]) = Len(busy[1]) + 1
      /\ Len(free'[1]) + Len(busy'[1]) = Len(free[1]) + Len(busy[1])
  <2> DEFINE a == free[1]
             b == busy[1]
             x == free'[1]
             y == busy'[1]
  <2>1. /\ a \in Seq(Nodes) /\ b \in Seq(Nodes) /\ IsInjective(a) /\ IsInjective(b)
        /\ ToSet(a) \cap ToSet(b) = {} /\ j \in 1 .. Len(a) /\ n = a[j]
        /\ x = RemoveAt(a, j) /\ y = Append(b, a[j])
    BY <1>2, <1>3, <1>5
  <2> HIDE DEF n, a, b, x, y
  <2>2. /\ x \in Seq(Nodes) /\ y \in Seq(Nodes) /\ IsInjective(x) /\ IsInjective(y)
        /\ ToSet(x) = ToSet(a) \ {a[j]} /\ ToSet(y) = ToSet(b) \cup {a[j]}
        /\ ToSet(x) \cap ToSet(y) = {} /\ ToSet(x) \cup ToSet(y) = ToSet(a) \cup ToSet(b)
        /\ Len(a) \in Nat /\ Len(b) \in Nat
        /\ Len(x) = Len(a) - 1 /\ Len(y) = Len(b) + 1
        /\ Len(x) + Len(y) = Len(a) + Len(b)
    <3>1. /\ a \in Seq(Nodes) /\ b \in Seq(Nodes) /\ IsInjective(a) /\ IsInjective(b)
          /\ ToSet(a) \cap ToSet(b) = {} /\ j \in 1 .. Len(a)
      BY <2>1
    <3> DEFINE v == RemoveAt(a, j)
               w == Append(b, a[j])
    <3>2. /\ v \in Seq(Nodes) /\ w \in Seq(Nodes) /\ IsInjective(v) /\ IsInjective(w)
          /\ ToSet(v) = ToSet(a) \ {a[j]} /\ ToSet(w) = ToSet(b) \cup {a[j]}
          /\ ToSet(v) \cap ToSet(w) = {} /\ ToSet(v) \cup ToSet(w) = ToSet(a) \cup ToSet(b)
          /\ Len(a) \in Nat /\ Len(b) \in Nat /\ Len(v) + Len(w) = Len(a) + Len(b)
          /\ Len(v) = Len(a) - 1 /\ Len(w) = Len(b) + 1
      BY <3>1, MoveIs
    <3>3. x = v /\ y = w
      BY <2>1
    <3> HIDE DEF v, w
    <3> QED
      BY <3>2, <3>3
  <2> QED
    BY <2>1, <2>2 DEF a, b, x, y
<1> HIDE DEF n
<1>8. /\ free' \in [Slots -> Seq(Nodes)] /\ busy' \in [Slots -> Seq(Nodes)]
      /\ \A s \in Slots : s # 1 => UNCHANGED <<free[s], busy[s], num[s]>>
  BY <1>1, <1>4, <1>5, <1>7 DEF ListTypes
<1>9. k.talker \in Talkers /\ k.talker # NoTalker
  BY EnumerationAssumption DEF CommandSet, EnumerationAssumption
<1>10. /\ talker' \in [Nodes -> Talkers \cup {NoTalker}]
       /\ \A m \in Nodes : talker'[m] # NoTalker <=> m \in ToSet(busy'[1])
  BY <1>1, <1>2, <1>6, <1>7, <1>9 DEF ListTypes
<1>11. handling' \subseteq Nodes
  BY <1>1 DEF ListTypes
<1>12. /\ num' = [num EXCEPT ![1] = Len(busy'[1])] /\ cnntNum' = Len(busy'[1])
       /\ num'[1] = num[1] + 1 /\ num[1] \in Nat
       /\ Len(free'[1]) + Len(busy'[1]) = Len(free[1]) + Len(busy[1])
  <2>1. num[1] + 1 = Len(busy'[1]) /\ cnntNum + 1 = Len(busy'[1]) /\ num[1] \in Nat
    BY <1>2, <1>7
  <2>2. Len(free'[1]) + Len(busy'[1]) = Len(free[1]) + Len(busy[1])
    BY <1>7
  <2> QED
    BY <1>1, <1>4, <2>1, <2>2
<1>13. ListTypes' /\ Nodes' = Nodes /\ ListsOK' /\ \A s \in Slots : Listed(s)' = Listed(s)
  BY <1>1, <1>7, <1>8, <1>10, <1>11, <1>12, ListsMoved
<1> QED
  BY <1>1, <1>3, <1>6, <1>7, <1>8, <1>12, <1>13 DEF n

(* What any other answer does: the nodes of its input lose their talker,   *)
(* and one on the connected list goes back.                                *)
LEMMA NotConnectedIs ==
  ASSUME ListTypes, ListsOK, NEW k \in CommandSet, NotConnected(k),
         UNCHANGED <<elemNum, canUse>>
  PROVE  /\ ListTypes' /\ Nodes' = Nodes /\ ListsOK'
         /\ \A s \in Slots : Listed(s)' = Listed(s)
         /\ \A s \in Slots : s # 1 => UNCHANGED <<free[s], busy[s], num[s]>>
         /\ UNCHANGED channels
         /\ \E freed \in SUBSET Nodes :
               /\ \A m \in freed : IsOf(m, k.unit, k.input)
               /\ talker' = [m \in Nodes |-> IF m \in freed THEN NoTalker ELSE talker[m]]
               /\ handling' = handling \ freed
               /\ \/ UNCHANGED <<free, busy, num>>
                  \/ \E n \in freed : /\ free'[1] = Append(free[1], n)
                                      /\ n \in ToSet(busy[1])
                                      /\ ToSet(busy'[1]) = ToSet(busy[1]) \ {n}
                                      /\ num[1] \in Nat /\ num'[1] = num[1] - 1
                                      /\ num'[1] = Len(busy'[1]) /\ busy'[1] \in Seq(Nodes)
<1> DEFINE fs == {free[1][j] : j \in Matching(free[1], k)}
           js == Matching(busy[1], k)
           i == First(js)
           n == busy[1][i]
           freed == fs \cup (IF js = {} THEN {} ELSE {n})
<1>1. /\ talker' = [m \in Nodes |-> IF m \in freed THEN NoTalker ELSE talker[m]]
      /\ handling' = handling \ freed /\ UNCHANGED channels
      /\ js = {} => UNCHANGED <<free, busy, num, cnntNum>>
      /\ js # {} => /\ busy' = [busy EXCEPT ![1] = RemoveAt(busy[1], i)]
                    /\ free' = [free EXCEPT ![1] = Append(free[1], n)]
                    /\ num' = [num EXCEPT ![1] = Down(num[1])] /\ cnntNum' = Down(cnntNum)
  BY DEF NotConnected
<1>2. /\ free[1] \in Seq(Nodes) /\ busy[1] \in Seq(Nodes)
      /\ IsInjective(free[1]) /\ IsInjective(busy[1])
      /\ ToSet(free[1]) \cap ToSet(busy[1]) = {}
      /\ \A m \in Nodes : talker[m] # NoTalker <=> m \in ToSet(busy[1])
      /\ num[1] = Len(busy[1]) /\ cnntNum = Len(busy[1])
  BY FirstSlotIs
<1>3. /\ fs \subseteq ToSet(free[1]) /\ fs \subseteq Nodes
      /\ \A m \in fs : IsOf(m, k.unit, k.input)
  BY <1>2, ToSetIs DEF Matching
<1>4. js # {} => i \in 1 .. Len(busy[1]) /\ IsOf(n, k.unit, k.input)
  <2>1. /\ js \subseteq 1 .. Len(busy[1]) /\ js \subseteq Nat
        /\ \A j \in js : IsOf(busy[1][j], k.unit, k.input)
    BY <1>2, ToSetIs DEF Matching
  <2>2. js # {} => i \in js
    BY <2>1, FirstIs
  <2> QED
    BY <2>1, <2>2
<1>5. 1 \in Slots /\ DOMAIN free = Slots /\ DOMAIN busy = Slots /\ DOMAIN num = Slots
  BY SlotFacts DEF ListTypes
<1> HIDE DEF fs, js, i
<1>6. js # {} => n \in ToSet(busy[1]) /\ n \in Nodes
  BY <1>2, <1>4, ToSetIs
<1>7. freed \subseteq Nodes /\ \A m \in freed : IsOf(m, k.unit, k.input)
  BY <1>3, <1>4, <1>6
<1>8. handling' \subseteq Nodes
  BY <1>1 DEF ListTypes
<1>9. CASE js = {}
  <2>1. freed = fs
    BY <1>9
  <2>2. \A m \in freed : talker[m] = NoTalker
    BY <1>2, <1>3, <2>1
  <2>3. /\ talker' \in [Nodes -> Talkers \cup {NoTalker}]
        /\ \A m \in Nodes : talker'[m] # NoTalker <=> m \in ToSet(busy[1])
    BY <1>1, <1>2, <2>2 DEF ListTypes
  <2>4. UNCHANGED <<free, busy, num, cnntNum, channels>>
    BY <1>1, <1>9
  <2>5. num' = [num EXCEPT ![1] = Len(busy[1])]
    BY <1>2, <1>5, <2>4 DEF ListTypes
  <2>6. ListTypes' /\ Nodes' = Nodes /\ ListsOK' /\ \A s \in Slots : Listed(s)' = Listed(s)
    BY <1>2, <1>8, <2>3, <2>4, <2>5, ListsMoved DEF ListTypes
  <2> QED
    BY <1>1, <1>7, <2>4, <2>6
<1>10. CASE js # {}
  <2>1. free'[1] = Append(free[1], n) /\ busy'[1] = RemoveAt(busy[1], i)
    BY <1>1, <1>5, <1>10
  <2>2. /\ free'[1] \in Seq(Nodes) /\ busy'[1] \in Seq(Nodes)
        /\ IsInjective(free'[1]) /\ IsInjective(busy'[1])
        /\ ToSet(busy'[1]) = ToSet(busy[1]) \ {n} /\ ToSet(free'[1]) = ToSet(free[1]) \cup {n}
        /\ ToSet(free'[1]) \cap ToSet(busy'[1]) = {}
        /\ ToSet(free'[1]) \cup ToSet(busy'[1]) = ToSet(free[1]) \cup ToSet(busy[1])
        /\ Len(busy[1]) \in Nat /\ Len(busy'[1]) = Len(busy[1]) - 1
        /\ Len(free'[1]) + Len(busy'[1]) = Len(free[1]) + Len(busy[1])
    <3> DEFINE a == busy[1]
               b == free[1]
               v == RemoveAt(a, i)
               w == Append(b, a[i])
    <3>1. /\ a \in Seq(Nodes) /\ b \in Seq(Nodes) /\ IsInjective(a) /\ IsInjective(b)
          /\ ToSet(a) \cap ToSet(b) = {} /\ i \in 1 .. Len(a)
      BY <1>2, <1>4, <1>10
    <3> HIDE DEF n, a, b
    <3>2. /\ v \in Seq(Nodes) /\ w \in Seq(Nodes) /\ IsInjective(v) /\ IsInjective(w)
          /\ ToSet(v) = ToSet(a) \ {a[i]} /\ ToSet(w) = ToSet(b) \cup {a[i]}
          /\ ToSet(v) \cap ToSet(w) = {} /\ ToSet(v) \cup ToSet(w) = ToSet(a) \cup ToSet(b)
          /\ Len(a) \in Nat /\ Len(b) \in Nat /\ Len(v) + Len(w) = Len(a) + Len(b)
          /\ Len(v) = Len(a) - 1 /\ Len(w) = Len(b) + 1
      <4>1. /\ v \in Seq(Nodes) /\ IsInjective(v) /\ Len(v) = Len(a) - 1
            /\ ToSet(v) = ToSet(a) \ {a[i]}
        BY <3>1, RemovedIs
      <4>2. a[i] \in ToSet(a) /\ a[i] \in Nodes /\ a[i] \notin ToSet(b)
        BY <3>1, ToSetIs
      <4>3. /\ w \in Seq(Nodes) /\ IsInjective(w) /\ Len(w) = Len(b) + 1
            /\ ToSet(w) = ToSet(b) \cup {a[i]}
        BY <3>1, <4>2, AppendIs
      <4>4. Len(a) \in Nat /\ Len(b) \in Nat
        BY <3>1, LenProperties
      <4> HIDE DEF v, w
      <4> QED
        BY <3>1, <4>1, <4>2, <4>3, <4>4
    <3>3. busy'[1] = v /\ free'[1] = w /\ a[i] = n
      BY <2>1 DEF a, b, n
    <3>4. Len(w) + Len(v) = Len(b) + Len(a) /\ ToSet(w) \cap ToSet(v) = {}
          /\ ToSet(w) \cup ToSet(v) = ToSet(b) \cup ToSet(a)
      <4> HIDE DEF v, w
      <4> QED
        BY <3>1, <3>2, LenProperties
    <3> HIDE DEF v, w
    <3> QED
      BY <3>2, <3>3, <3>4 DEF a, b
  <2>3. num[1] \in 0 .. ByteValues - 1 /\ Len(busy[1]) > 0
    <3>1. num[1] \in 0 .. ByteValues - 1
      BY <1>5 DEF ListTypes
    <3> QED
      BY <1>4, <1>10, <2>2, <3>1
  <2>4. Down(num[1]) = num[1] - 1 /\ Down(cnntNum) = num[1] - 1
    BY <1>2, <2>3, DownIs
  <2>5. Len(busy'[1]) = num[1] - 1
    BY <1>2, <2>2
  <2>6. num' = [num EXCEPT ![1] = Len(busy'[1])] /\ cnntNum' = Len(busy'[1])
        /\ num'[1] = num[1] - 1 /\ num[1] \in Nat
    BY <1>1, <1>5, <1>10, <2>3, <2>4, <2>5
  <2> HIDE DEF n
  <2>7. /\ free' \in [Slots -> Seq(Nodes)] /\ busy' \in [Slots -> Seq(Nodes)]
        /\ \A s \in Slots : s # 1 => UNCHANGED <<free[s], busy[s], num[s]>>
    <3> DEFINE v == RemoveAt(busy[1], i)
               w == Append(free[1], n)
    <3>1. /\ busy' = [busy EXCEPT ![1] = v] /\ free' = [free EXCEPT ![1] = w]
          /\ num' = [num EXCEPT ![1] = Down(num[1])]
      BY <1>1, <1>10
    <3>2. v \in Seq(Nodes) /\ w \in Seq(Nodes)
      BY <2>1, <2>2
    <3>3. free \in [Slots -> Seq(Nodes)] /\ busy \in [Slots -> Seq(Nodes)]
      BY DEF ListTypes
    <3> HIDE DEF v, w
    <3> QED
      BY <1>5, <3>1, <3>2, <3>3
  <2>8. freed = fs \cup {n}
    BY <1>10
  <2>9. \A m \in fs : talker[m] = NoTalker
    BY <1>2, <1>3
  <2>10. /\ talker' \in [Nodes -> Talkers \cup {NoTalker}]
         /\ \A m \in Nodes : talker'[m] # NoTalker <=> m \in ToSet(busy'[1])
    BY <1>1, <1>2, <2>2, <2>8, <2>9 DEF ListTypes
  <2>11. ListTypes' /\ Nodes' = Nodes /\ ListsOK' /\ \A s \in Slots : Listed(s)' = Listed(s)
    BY <1>1, <1>8, <2>2, <2>6, <2>7, <2>10, ListsMoved
  <2>12. n \in freed
    BY <2>8
  <2> HIDE DEF freed
  <2>13. \E m \in freed : /\ free'[1] = Append(free[1], m)
                          /\ m \in ToSet(busy[1])
                          /\ ToSet(busy'[1]) = ToSet(busy[1]) \ {m}
                          /\ num[1] \in Nat /\ num'[1] = num[1] - 1
                          /\ num'[1] = Len(busy'[1]) /\ busy'[1] \in Seq(Nodes)
    BY <1>6, <1>10, <2>1, <2>2, <2>5, <2>6, <2>12
  <2> QED
    BY <1>1, <1>7, <2>7, <2>11, <2>13
<1> QED
  BY <1>9, <1>10

(* What has to be shown of the end of a command.                           *)
LEMMA EndStep ==
  ASSUME IInv, NEW k, ~Astray, ListTypes', Nodes' = Nodes, ListsOK',
         \A s \in Slots : Listed(s)' = Listed(s), commands' = commands \ {k},
         UNCHANGED <<entityVars, slotVars, channels, epollVars, current, ghostVars>>,
         LimitKept', Handled'
  PROVE  IInv'
<1>1. EntityTypes /\ SlotTypes /\ TalkTypes
  BY TypesAre DEF IInv
<1>2. EntityTypes' /\ SlotTypes' /\ TalkTypes'
  BY <1>1 DEF EntityTypes, SlotTypes, TalkTypes, entityVars, slotVars, epollVars, ghostVars
<1>3. IsFiniteSet(Nodes') /\ Numbered' /\ ReadsOnce'
  <2>1. DOMAIN talker' = DOMAIN talker
    BY DEF Nodes
  <2> QED
    BY <2>1, NodesStay DEF IInv, entityVars, ghostVars
<1>4. Releasing' /\ OneSlot'
  BY DEF IInv, Releasing, OneSlot, slotVars, epollVars, ghostVars
<1>5. SlotsHold'
  BY DEF IInv, SlotsHold, slotVars, entityVars
<1>6. TypeOK'
  BY <1>2, TypesAre
<1> QED
  BY <1>3, <1>4, <1>5, <1>6 DEF IInv

(* Of the commands for a node the ended one is missing.                    *)
LEMMA OnIs ==
  ASSUME NEW k \in commands, commands' = commands \ {k}, UNCHANGED current
  PROVE  /\ \A m : On(m)' = On(m) \ {k}
         /\ \A m : IsOf(m, k.unit, k.input) <=> k \in On(m)
         /\ \A m : Found(m)' <=> Found(m)
BY DEF On, Found

(* The head of a list is not the one that comes behind.                    *)
LEMMA HeadStays ==
  ASSUME NEW S, NEW s \in Seq(S), NEW n \in S, NEW m \in ToSet(s)
  PROVE  Head(Append(s, n)) = Head(s)
<1>1. /\ Len(s) \in Nat /\ Len(s) > 0
      /\ Append(s, n) \in Seq(S) /\ Len(Append(s, n)) = Len(s) + 1
      /\ Append(s, n)[1] = s[1]
  <2>1. Len(s) \in Nat /\ \E i \in 1 .. Len(s) : m = s[i]
    BY ToSetIs
  <2>2. 1 \in 1 .. Len(s)
    BY <2>1
  <2> QED
    BY <2>1, <2>2, AppendProperties
<1>2. s # <<>> /\ Append(s, n) # <<>>
  BY <1>1, EmptySeq
<1> QED
  BY <1>1, <1>2, HeadTailProperties

(* A connect succeeds. *)
LEMMA ConnectedStep ==
  ASSUME IInv, NEW k \in commands, k.cmd = "connect", Connected(k), ~Astray,
         Matching(free[1], k) # {}, commands' = commands \ {k},
         UNCHANGED <<entityVars, slotVars, elemNum, canUse, epollVars, current, ghostVars>>
  PROVE  IInv'
<1>1. ListTypes /\ ListsOK /\ SlotsHold /\ Handled /\ LimitKept /\ k \in CommandSet
  BY TypesAre DEF IInv, TalkTypes
<1>2. /\ ListTypes' /\ Nodes' = Nodes /\ ListsOK'
      /\ \A s \in Slots : Listed(s)' = Listed(s)
      /\ \A s \in Slots : s # 1 => UNCHANGED <<free[s], busy[s], num[s]>>
      /\ UNCHANGED channels
  BY <1>1, ConnectedIs
<1>3. PICK n \in ToSet(free[1]) :
        /\ IsOf(n, k.unit, k.input) /\ n \in Nodes
        /\ ToSet(free'[1]) = ToSet(free[1]) \ {n}
        /\ ToSet(busy'[1]) = ToSet(busy[1]) \cup {n}
        /\ num'[1] = num[1] + 1 /\ num[1] \in Nat
        /\ handling' = handling \ {n} /\ talker' = [talker EXCEPT ![n] = k.talker]
  BY <1>1, ConnectedIs
<1>4. 1 \in Slots /\ PerUnitMax \in Nat /\ twice' = twice
  BY SlotFacts DEF ghostVars
<1>5. /\ \A m : On(m)' = On(m) \ {k}
      /\ \A m : IsOf(m, k.unit, k.input) <=> k \in On(m)
      /\ \A m : Found(m)' <=> Found(m)
  BY OnIs
<1>6. \A m \in ToSet(free[1]) : m[1] = n[1]
  BY <1>1, <1>3, <1>4 DEF SlotsHold, Listed
<1>7. n[1] \notin twice => /\ n = Head(free[1]) /\ num[1] < PerUnitMax
                           /\ On(n)' = {} /\ ~Found(n)
  BY <1>1, <1>3, <1>4, <1>5 DEF Handled
<1>8. LimitKept'
  <2> SUFFICES ASSUME NEW s \in Slots, \A m \in ToSet(busy'[s]) : m[1] \notin twice
               PROVE  num'[s] <= PerUnitMax
    BY <1>4 DEF LimitKept
  <2>1. CASE s # 1
    BY <1>1, <1>2, <2>1 DEF LimitKept
  <2>2. CASE s = 1
    BY <1>3, <1>4, <1>7, <2>2
  <2> QED
    BY <2>1, <2>2
<1>9. Handled'
  <2>1. \A c \in commands' : NodesOf(c.unit, c.input)' # {}
    BY <1>1, <1>2 DEF Handled, NodesOf
  <2>2. ASSUME NEW m \in Nodes, m[1] \notin twice
        PROVE  /\ \A c, d \in On(m)' : c = d
               /\ On(m)' # {} => m \in handling'
               /\ \A c \in On(m)' : c.cmd = "connect" <=> talker'[m] = NoTalker
               /\ Found(m)' => talker'[m] = NoTalker /\ m \notin handling'
    <3>1. CASE m = n
      BY <1>5, <1>7, <2>2, <3>1
    <3>2. CASE m # n
      <4>1. talker'[m] = talker[m] /\ (m \in handling' <=> m \in handling)
        BY <1>1, <1>3, <3>2 DEF ListTypes
      <4> QED
        BY <1>1, <1>5, <2>2, <4>1 DEF Handled
    <3> QED
      BY <3>1, <3>2
  <2>3. ASSUME NEW s \in Slots, NEW m \in ToSet(free'[s]), m[1] \notin twice,
               On(m)' # {} \/ Found(m)'
        PROVE  m = Head(free'[s]) /\ num'[s] < PerUnitMax
    <3>1. On(m) # {} \/ Found(m)
      BY <1>5, <2>3
    <3>2. CASE s # 1
      BY <1>1, <1>2, <2>3, <3>1, <3>2 DEF Handled
    <3>3. CASE s = 1
      <4>1. m \in ToSet(free[1]) /\ m # n
        BY <1>3, <2>3, <3>3
      <4>2. m = Head(free[1])
        BY <1>1, <1>4, <2>3, <3>1, <4>1 DEF Handled
      <4> QED
        BY <1>6, <1>7, <2>3, <4>1, <4>2
    <3> QED
      BY <3>2, <3>3
  <2> QED
    BY <1>2, <1>4, <2>1, <2>2, <2>3 DEF Handled
<1> QED
  BY <1>2, <1>8, <1>9, EndStep

(* A connect fails, or a disconnect ends. *)
LEMMA NotConnectedStep ==
  ASSUME IInv, NEW k \in commands, NotConnected(k), ~Astray, commands' = commands \ {k},
         UNCHANGED <<entityVars, slotVars, elemNum, canUse, epollVars, current, ghostVars>>
  PROVE  IInv'
<1>1. ListTypes /\ ListsOK /\ SlotsHold /\ Handled /\ LimitKept /\ k \in CommandSet
  BY TypesAre DEF IInv, TalkTypes
<1>2. /\ ListTypes' /\ Nodes' = Nodes /\ ListsOK'
      /\ \A s \in Slots : Listed(s)' = Listed(s)
      /\ \A s \in Slots : s # 1 => UNCHANGED <<free[s], busy[s], num[s]>>
      /\ UNCHANGED channels
  BY <1>1, NotConnectedIs
<1>3. PICK freed \in SUBSET Nodes :
        /\ \A m \in freed : IsOf(m, k.unit, k.input)
        /\ talker' = [m \in Nodes |-> IF m \in freed THEN NoTalker ELSE talker[m]]
        /\ handling' = handling \ freed
        /\ \/ UNCHANGED <<free, busy, num>>
           \/ \E n \in freed : /\ free'[1] = Append(free[1], n)
                               /\ n \in ToSet(busy[1])
                               /\ ToSet(busy'[1]) = ToSet(busy[1]) \ {n}
                               /\ num[1] \in Nat /\ num'[1] = num[1] - 1
                               /\ num'[1] = Len(busy'[1]) /\ busy'[1] \in Seq(Nodes)
  BY <1>1, NotConnectedIs
<1>4. 1 \in Slots /\ PerUnitMax \in Nat /\ twice' = twice
  BY SlotFacts DEF ghostVars
<1>5. /\ \A m : On(m)' = On(m) \ {k}
      /\ \A m : IsOf(m, k.unit, k.input) <=> k \in On(m)
      /\ \A m : Found(m)' <=> Found(m)
  BY OnIs
<1>6. \A m \in freed : m[1] \notin twice => On(m)' = {} /\ ~Found(m)
  BY <1>1, <1>3, <1>5 DEF Handled
<1>7. LimitKept'
  <2>1. CASE UNCHANGED <<free, busy, num>>
    BY <1>1, <1>4, <2>1, LimitStays
  <2>2. ASSUME NEW n \in freed, free'[1] = Append(free[1], n), n \in ToSet(busy[1]),
               ToSet(busy'[1]) = ToSet(busy[1]) \ {n},
               num[1] \in Nat, num'[1] = num[1] - 1,
               num'[1] = Len(busy'[1]), busy'[1] \in Seq(Nodes)
        PROVE  LimitKept'
    <3> SUFFICES ASSUME NEW s \in Slots, \A m \in ToSet(busy'[s]) : m[1] \notin twice
                 PROVE  num'[s] <= PerUnitMax
      BY <1>4 DEF LimitKept
    <3>1. CASE s # 1
      BY <1>1, <1>2, <3>1 DEF LimitKept
    <3>2. CASE s = 1 /\ n[1] \notin twice
      <4>1. num[1] <= PerUnitMax
        BY <1>1, <1>4, <2>2, <3>2 DEF LimitKept, SlotsHold, Listed
      <4> QED
        BY <1>4, <2>2, <3>2, <4>1
    <3>3. CASE s = 1 /\ n[1] \in twice
      <4>1. ToSet(busy'[1]) = {}
        BY <1>1, <1>4, <2>2, <3>3 DEF SlotsHold, Listed
      <4>2. Len(busy'[1]) = 0
        BY <2>2, <4>1, NoneIs
      <4> QED
        BY <1>4, <2>2, <3>3, <4>2
    <3> QED
      BY <3>1, <3>2, <3>3
  <2> QED
    BY <1>3, <2>1, <2>2
<1>8. ASSUME NEW s \in Slots, NEW m \in ToSet(free'[s]), m[1] \notin twice,
             On(m)' # {} \/ Found(m)'
      PROVE  m = Head(free'[s]) /\ num'[s] < PerUnitMax
  <2>1. (On(m) # {} \/ Found(m)) /\ m \notin freed
    BY <1>5, <1>6, <1>8
  <2>2. CASE UNCHANGED <<free, busy, num>> \/ s # 1
    BY <1>1, <1>2, <1>8, <2>1, <2>2 DEF Handled
  <2>3. ASSUME s = 1, NEW n \in freed, free'[1] = Append(free[1], n),
               num[1] \in Nat, num'[1] = num[1] - 1
        PROVE  m = Head(free'[s]) /\ num'[s] < PerUnitMax
    <3>1. free[1] \in Seq(Nodes) /\ free'[1] \in Seq(Nodes) /\ n \in Nodes
      BY <1>1, <1>2, <1>4 DEF ListTypes
    <3>2. m \in ToSet(free[1])
      <4>1. PICK i \in 1 .. Len(free'[1]) : m = free'[1][i]
        <5> DEFINE l == free'[1]
        <5>1. l \in Seq(Nodes) /\ m \in ToSet(l)
          BY <1>8, <2>3, <3>1
        <5> HIDE DEF l
        <5>2. \E i \in 1 .. Len(l) : m = l[i]
          BY <5>1, ToSetIs
        <5> QED
          BY <5>2 DEF l
      <4>2. /\ Len(free[1]) \in Nat /\ Len(free'[1]) = Len(free[1]) + 1
            /\ \A j \in 1 .. Len(free[1]) : free'[1][j] = free[1][j]
            /\ free'[1][Len(free[1]) + 1] = n
        BY <2>3, <3>1, AppendProperties, LenProperties
      <4>3. i \in 1 .. Len(free[1])
        BY <2>1, <4>1, <4>2
      <4> QED
        BY <3>1, <4>1, <4>2, <4>3, ToSetIs
    <3>3. m = Head(free[1]) /\ num[1] < PerUnitMax
      BY <1>1, <1>4, <1>8, <2>1, <3>2 DEF Handled
    <3>4. Head(free'[1]) = Head(free[1])
      BY <2>3, <3>1, <3>2, HeadStays
    <3> QED
      BY <1>4, <2>3, <3>3, <3>4
  <2> QED
    BY <1>3, <2>2, <2>3
<1>9. Handled'
  <2>1. \A c \in commands' : NodesOf(c.unit, c.input)' # {}
    BY <1>1, <1>2 DEF Handled, NodesOf
  <2>2. ASSUME NEW m \in Nodes, m[1] \notin twice
        PROVE  /\ \A c, d \in On(m)' : c = d
               /\ On(m)' # {} => m \in handling'
               /\ \A c \in On(m)' : c.cmd = "connect" <=> talker'[m] = NoTalker
               /\ Found(m)' => talker'[m] = NoTalker /\ m \notin handling'
    <3>1. CASE m \in freed
      BY <1>5, <1>6, <2>2, <3>1
    <3>2. CASE m \notin freed
      <4>1. talker'[m] = talker[m] /\ (m \in handling' <=> m \in handling)
        BY <1>1, <1>3, <3>2 DEF ListTypes
      <4> QED
        BY <1>1, <1>5, <2>2, <4>1 DEF Handled
    <3> QED
      BY <3>1, <3>2
  <2> QED
    BY <1>2, <1>4, <1>8, <2>1, <2>2 DEF Handled
<1> QED
  BY <1>2, <1>7, <1>9, EndStep

(* A command ends. *)
LEMMA ConcludeStep ==
  ASSUME IInv, NEW k, NEW outcome, Conclude(k, outcome)
  PROVE  IInv'
<1>1. /\ k \in commands /\ commands' = commands \ {k} /\ ~Astray
      /\ UNCHANGED <<entityVars, slotVars, elemNum, canUse, epollVars, current, ghostVars>>
  BY DEF Conclude, Polling, Astray
<1>2. CASE UNCHANGED <<listVars, cnntNum>>
  <2>1. ListTypes /\ ListsOK /\ Handled /\ LimitKept
    BY <1>1, TypesAre DEF IInv
  <2>2. ListTypes' /\ Nodes' = Nodes /\ ListsOK' /\ LimitKept'
    BY <1>1, <1>2, <2>1, ListsStay, LimitStays
       DEF IInv, listVars, countVars, ListTypes, ghostVars
  <2>3. \A s \in Slots : Listed(s)' = Listed(s)
    BY <1>2 DEF Listed, listVars
  <2>4. /\ \A m : On(m)' = On(m) \ {k}
        /\ \A m : Found(m)' <=> Found(m)
    BY <1>1, OnIs
  <2>5. UNCHANGED <<free, num, talker, handling, channels, twice>>
    BY <1>1, <1>2 DEF listVars, ghostVars
  <2>6. \A u, i : NodesOf(u, i)' = NodesOf(u, i)
    BY <2>2 DEF NodesOf
  <2>7. Handled'
    BY <1>1, <2>1, <2>2, <2>4, <2>5, <2>6 DEF Handled
  <2> QED
    BY <1>1, <2>2, <2>3, <2>5, <2>7, EndStep
<1>3. CASE k.cmd = "connect" /\ Connected(k) /\ Matching(free[1], k) # {}
  BY <1>1, <1>3, ConnectedStep
<1>4. CASE NotConnected(k)
  BY <1>1, <1>4, NotConnectedStep
<1>5. \/ UNCHANGED <<listVars, cnntNum>> \/ NotConnected(k)
      \/ k.cmd = "connect" /\ Connected(k) /\ Matching(free[1], k) # {}
  BY DEF Conclude, Connected
<1> QED
  BY <1>2, <1>3, <1>4, <1>5

-----------------------------------------------------------------------------
(* The answer to the read of an input *)

(* An answer to the read of an input that lists nothing. *)
LEMMA UnlistedStep ==
  ASSUME IInv, NEW u \in Units, NEW i \in Inputs, Polling, owed[<<u, "input", i>>] > 0,
         owed' = Answered(<<u, "input", i>>),
         UNCHANGED <<slotVars, listVars, countVars, entity, desc, epollVars, current,
                     commands, ghostVars>>
  PROVE  IInv'
<1> DEFINE r == <<u, "input", i>>
<1>1. /\ EntityTypes /\ SlotTypes /\ r \in Reads /\ ReadsOnce
      /\ owed[r] > 0 /\ owed' = Answered(r)
  BY TypesAre, ReadsAre DEF IInv
<1> HIDE DEF r
<1>2. /\ owed' \in [Reads -> Nat]
      /\ \A p \in Reads : owed'[p] = owed[p] \/ (p = r /\ owed'[p] = owed[p] - 1)
  <2>1. /\ Answered(r) \in [Reads -> Nat] /\ Answered(r)[r] = owed[r] - 1
        /\ \A p \in Reads : p # r => Answered(r)[p] = owed[p]
    BY <1>1, AnsweredIs
  <2> QED
    BY <1>1, <2>1
<1>3. EntityTypes'
  BY <1>1, <1>2 DEF EntityTypes, ghostVars
<1>4. \A w, j : NodesOf(w, j)' = NodesOf(w, j)
  BY DEF NodesOf, Nodes, listVars
<1>5. ReadsOnce'
  <2>1. \A w \in Units, j \in Inputs : LET p == <<w, "input", j>> IN
           \/ owed'[p] = owed[p]
           \/ owed'[p] = owed[p] - 1 /\ owed[p] # 0
    <3>1. \A p \in Reads : owed'[p] = owed[p] \/ (owed'[p] = owed[p] - 1 /\ owed[p] # 0)
      BY <1>2
    <3> QED
      BY <3>1, ReadsAre
  <2>2. UNCHANGED <<desc, twice>>
    BY DEF ghostVars
  <2>3. ASSUME NEW w \in Units, w \notin twice, NEW j \in Inputs
        PROVE  LET p == <<w, "input", j>> IN
               /\ NodesOf(w, j) \subseteq {<<w, j, 1>>}
               /\ (desc[w].node => desc[w].named /\ ~desc[w].conf) =>
                      owed'[p] = 0 /\ NodesOf(w, j) = {}
               /\ desc[w].named => \/ owed'[p] = 0
                                   \/ owed'[p] = 1 /\ NodesOf(w, j) = {}
    <3> DEFINE p == <<w, "input", j>>
    <3>1. owed'[p] = owed[p] \/ (owed'[p] = owed[p] - 1 /\ owed[p] # 0)
      BY <2>1
    <3>2. /\ NodesOf(w, j) \subseteq {<<w, j, 1>>}
          /\ (desc[w].node => desc[w].named /\ ~desc[w].conf) =>
                 owed[p] = 0 /\ NodesOf(w, j) = {}
          /\ desc[w].named => \/ owed[p] = 0
                              \/ owed[p] = 1 /\ NodesOf(w, j) = {}
      BY <1>1, <2>3 DEF ReadsOnce
    <3> HIDE DEF p
    <3>3. /\ owed[p] = 0 => owed'[p] = 0
          /\ owed[p] = 1 => owed'[p] = 0 \/ owed'[p] = 1
      BY <3>1
    <3> QED
      BY <3>2, <3>3 DEF p
  <2> QED
    BY <1>1, <1>4, <2>2, <2>3 DEF ReadsOnce
<1>6. Releasing'
  BY DEF IInv, Releasing, slotVars, epollVars, ghostVars
<1> QED
  BY <1>1, <1>3, <1>5, <1>6, EntityStep DEF SlotTypes, Polling, Astray, epollVars, ghostVars

(* The slot for an input is one of its unit with room, or a new one.       *)
LEMMA SlotForIs ==
  ASSUME NEW u, SlotFor(u) # 0
  PROVE  /\ SlotFor(u) \in Slots
         /\ \/ state[SlotFor(u)] = "ok" /\ unit[SlotFor(u)] = u
            \/ /\ state[SlotFor(u)] = "uninit" /\ unit[SlotFor(u)] = NoUnit
               /\ Open(u) = {}
<1>1. Open(u) \subseteq Nat /\ Unused \subseteq Nat
  BY SlotFacts DEF Open, Unused
<1>2. CASE Open(u) # {}
  <2>1. First(Open(u)) \in Open(u)
    BY <1>1, <1>2, FirstIs
  <2> QED
    BY <1>2, <2>1 DEF SlotFor, Open
<1>3. CASE Open(u) = {}
  <2>1. Unused # {} /\ SlotFor(u) = First(Unused)
    BY <1>3 DEF SlotFor
  <2>2. First(Unused) \in Unused
    BY <1>1, <2>1, FirstIs
  <2> QED
    BY <1>3, <2>1, <2>2 DEF Unused
<1> QED
  BY <1>2, <1>3

(* The channel of an input that is listed.                                 *)
New(u, i) == <<u, i, Cardinality(NodesOf(u, i)) + 1>>

LEMMA NewIs ==
  ASSUME ListTypes, IsFiniteSet(Nodes), Numbered, NEW u \in Units, NEW i \in Inputs,
         talker' = [m \in Nodes \cup {New(u, i)} |-> IF m = New(u, i) THEN NoTalker ELSE talker[m]]
  PROVE  /\ New(u, i) \in Units \X Inputs \X Nat
         /\ New(u, i) \notin Nodes /\ Nodes' = Nodes \cup {New(u, i)}
         /\ talker' \in [Nodes' -> Talkers \cup {NoTalker}]
         /\ talker'[New(u, i)] = NoTalker /\ \A n \in Nodes : talker'[n] = talker[n]
         /\ IsFiniteSet(Nodes') /\ Cardinality(Nodes') = Cardinality(Nodes) + 1
         /\ Numbered'
         /\ NodesOf(u, i)' = NodesOf(u, i) \cup {New(u, i)}
         /\ \A w, j : w # u \/ j # i => NodesOf(w, j)' = NodesOf(w, j)
         /\ NodesOf(u, i) = {} => New(u, i) = <<u, i, 1>>
<1> DEFINE n == New(u, i)
<1>1. PICK c \in Nat : NodesOf(u, i) = {<<u, i, k>> : k \in 1 .. c}
  BY DEF Numbered
<1>2. n = <<u, i, c + 1>>
  <2>1. Cardinality(NodesOf(u, i)) = c
    BY <1>1, NumbersAre
  <2> QED
    BY <2>1 DEF New
<1>3. n \notin NodesOf(u, i) /\ n \in Units \X Inputs \X Nat
  BY <1>1, <1>2
<1>4. n \notin Nodes
  BY <1>2, <1>3 DEF NodesOf
<1>5. NodesOf(u, i) = {} => n = <<u, i, 1>>
  BY <1>1, <1>2, FS_EmptySet DEF New
<1> HIDE DEF n
<1>6. /\ Nodes' = Nodes \cup {n}
      /\ talker'[n] = NoTalker /\ \A m \in Nodes : talker'[m] = talker[m]
      /\ talker' = [m \in Nodes \cup {n} |-> IF m \in Nodes THEN talker[m] ELSE NoTalker]
  BY <1>4 DEF Nodes, n
<1>7. talker' \in [Nodes' -> Talkers \cup {NoTalker}]
  BY <1>6 DEF ListTypes
<1>8. IsFiniteSet(Nodes') /\ Cardinality(Nodes') = Cardinality(Nodes) + 1
  BY <1>4, <1>6, FS_AddElement
<1>9. NodesOf(u, i)' = NodesOf(u, i) \cup {n}
  BY <1>2, <1>6 DEF NodesOf
<1>10. ASSUME NEW w, NEW j, w # u \/ j # i PROVE NodesOf(w, j)' = NodesOf(w, j)
  BY <1>2, <1>6, <1>10 DEF NodesOf
<1>11. Numbered'
  <2> SUFFICES ASSUME NEW w \in Units, NEW j \in Inputs
               PROVE  \E d \in Nat : NodesOf(w, j)' = {<<w, j, k>> : k \in 1 .. d}
    BY DEF Numbered
  <2>1. CASE w # u \/ j # i
    BY <1>10, <2>1 DEF Numbered
  <2>2. CASE w = u /\ j = i
    <3>1. NodesOf(u, i)' = {<<u, i, k>> : k \in 1 .. (c + 1)}
      BY <1>1, <1>2, <1>9
    <3> QED
      BY <2>2, <3>1
  <2> QED
    BY <2>1, <2>2
<1> QED
  BY <1>3, <1>4, <1>5, <1>6, <1>7, <1>8, <1>9, <1>10, <1>11 DEF n

(* A list of nodes is one of more nodes.                                   *)
LEMMA WiderIs ==
  ASSUME NEW S, NEW T, S \subseteq T, NEW s \in Seq(S)
  PROVE  s \in Seq(T)
<1>1. Len(s) \in Nat /\ s \in [1 .. Len(s) -> S]
  BY LenProperties
<1>2. s \in [1 .. Len(s) -> T]
  BY <1>1
<1> QED
  BY <1>1, <1>2, SeqDef

(* A channel listed in a slot with room.                                   *)
LEMMA EnlistIs ==
  ASSUME ListTypes, ListsOK, SlotTypes, SlotsHold, IsFiniteSet(Nodes), Numbered,
         NEW s \in Slots, NEW u \in Units, NEW i \in Inputs, Enlist(s, u, i),
         state[s] # "all"
  PROVE  /\ ListTypes' /\ ListsOK' /\ IsFiniteSet(Nodes') /\ Numbered'
         /\ channels[s] < NumChannels
         /\ \A w \in Slots : w # s => UNCHANGED <<free[w], channels[w]>>
         /\ free[s] \in Seq(Nodes) /\ free'[s] = Append(free[s], New(u, i))
         /\ channels'[s] = channels[s] + 1
         /\ Listed(s)' = Listed(s) \cup {New(u, i)}
         /\ \A w \in Slots : w # s => Listed(w)' = Listed(w)
<1> DEFINE n == New(u, i)
<1>1. /\ channels' = [channels EXCEPT ![s] = @ + 1]
      /\ free' = [free EXCEPT ![s] = Append(@, n)]
      /\ talker' = [m \in Nodes \cup {n} |-> IF m = n THEN NoTalker ELSE talker[m]]
      /\ elemNum' = elemNum + 1
      /\ canUse' = IF channels'[s] <= PerUnitMax THEN canUse + 1 ELSE canUse
      /\ UNCHANGED <<busy, num, handling, cnntNum>>
  BY DEF Enlist, New
<1>2. /\ n \in Units \X Inputs \X Nat
      /\ n \notin Nodes /\ Nodes' = Nodes \cup {n}
      /\ talker' \in [Nodes' -> Talkers \cup {NoTalker}]
      /\ talker'[n] = NoTalker /\ \A m \in Nodes : talker'[m] = talker[m]
      /\ IsFiniteSet(Nodes') /\ Cardinality(Nodes') = Cardinality(Nodes) + 1
      /\ Numbered'
  BY <1>1, NewIs
<1> HIDE DEF n
<1>3. channels[s] \in Nat /\ channels[s] < NumChannels
  <2>1. channels[s] \in 0 .. NumChannels /\ channels[s] # NumChannels
    BY DEF ListTypes, SlotsHold
  <2> QED
    BY <2>1, SlotFacts
<1>4. /\ channels'[s] = channels[s] + 1 /\ channels' \in [Slots -> 0 .. NumChannels]
      /\ \A w \in Slots : w # s => channels'[w] = channels[w]
  <2>1. channels \in [Slots -> 0 .. NumChannels]
    BY DEF ListTypes
  <2>2. channels[s] + 1 \in 0 .. NumChannels
    BY <1>3, SlotFacts
  <2> QED
    BY <1>1, <2>1, <2>2
<1>5. /\ free[s] \in Seq(Nodes) /\ IsInjective(free[s]) /\ n \notin Listed(s)
      /\ free'[s] = Append(free[s], n)
      /\ \A w \in Slots : w # s => free'[w] = free[w]
  BY <1>1, <1>2 DEF ListTypes, ListsOK, ListsApart
<1>6. /\ \A w \in Slots : free[w] \in Seq(Nodes') /\ busy[w] \in Seq(Nodes')
      /\ free[s] \in Seq(Nodes') /\ n \in Nodes'
  BY <1>2, WiderIs DEF ListTypes
<1>7. /\ free'[s] \in Seq(Nodes') /\ Len(free'[s]) = Len(free[s]) + 1
      /\ IsInjective(free'[s]) /\ ToSet(free'[s]) = ToSet(free[s]) \cup {n}
  <2>1. n \notin ToSet(free[s])
    BY <1>5 DEF Listed
  <2> QED
    BY <1>5, <1>6, <2>1, AppendIs
<1>8. /\ Listed(s)' = Listed(s) \cup {n}
      /\ \A w \in Slots : w # s => Listed(w)' = Listed(w)
  BY <1>1, <1>5, <1>7 DEF Listed
<1>9. ListTypes'
  <2>1. free' \in [Slots -> Seq(Nodes')] /\ busy' \in [Slots -> Seq(Nodes')]
    BY <1>1, <1>5, <1>6, <1>7 DEF ListTypes
  <2>2. elemNum' \in Nat /\ canUse' \in Nat
    BY <1>1 DEF ListTypes
  <2>3. Nodes' \subseteq Units \X Inputs \X Nat /\ handling' \subseteq Nodes'
    BY <1>1, <1>2 DEF ListTypes
  <2> QED
    BY <1>1, <1>2, <1>4, <2>1, <2>2, <2>3 DEF ListTypes
<1>10. ListsApart'
  <2>1. \A w \in Slots : /\ IsInjective(free'[w]) /\ IsInjective(busy[w])
                         /\ ToSet(free'[w]) \cap ToSet(busy[w]) = {}
    <3>1. \A w \in Slots : /\ IsInjective(free[w]) /\ IsInjective(busy[w])
                           /\ ToSet(free[w]) \cap ToSet(busy[w]) = {}
      BY DEF ListsOK, ListsApart
    <3>2. n \notin ToSet(busy[s])
      BY <1>5 DEF Listed
    <3>3. ToSet(free'[s]) \cap ToSet(busy[s]) = {}
      BY <1>7, <3>1, <3>2
    <3> QED
      BY <1>5, <1>7, <3>1, <3>3
  <2>2. \A w \in Slots : n \notin Listed(w) /\ n \notin ToSet(busy[w])
    BY <1>2 DEF ListsOK, ListsApart, Listed
  <2>3. \A w, v \in Slots : w # v => Listed(w)' \cap Listed(v)' = {}
    BY <1>8, <2>2 DEF ListsOK, ListsApart
  <2>4. UNION {Listed(w)' : w \in Slots} = Nodes'
    <3>1. UNION {Listed(w) : w \in Slots} = Nodes
      BY DEF ListsOK, ListsApart
    <3> QED
      BY <1>2, <1>8, <3>1
  <2>5. \A m \in Nodes' : talker'[m] # NoTalker <=> \E w \in Slots : m \in ToSet(busy[w])
    BY <1>2, <2>2 DEF ListsOK, ListsApart
  <2> QED
    BY <1>1, <2>1, <2>3, <2>4, <2>5 DEF ListsApart
<1>11. Counted'
  <2>1. \A w \in Slots : channels'[w] = Len(free'[w]) + Len(busy[w]) /\ num[w] = Len(busy[w])
    <3>1. \A w \in Slots : channels[w] = Len(free[w]) + Len(busy[w]) /\ num[w] = Len(busy[w])
      BY DEF ListsOK, Counted
    <3>2. Len(free[s]) \in Nat /\ Len(busy[s]) \in Nat
      BY LenProperties DEF ListTypes
    <3>3. channels'[s] = Len(free'[s]) + Len(busy[s])
      <4>1. channels[s] = Len(free[s]) + Len(busy[s]) /\ channels'[s] = channels[s] + 1
        BY <1>4, <3>1
      <4>2. Len(free'[s]) = Len(free[s]) + 1
        BY <1>7
      <4> DEFINE a == Len(free[s])
                 b == Len(busy[s])
                 c == Len(free'[s])
      <4>3. a \in Nat /\ b \in Nat /\ c = a + 1 /\ channels'[s] = a + b + 1
        BY <3>2, <4>1, <4>2
      <4> HIDE DEF a, b, c
      <4>4. channels'[s] = c + b
        BY <4>3
      <4> QED
        BY <4>4 DEF b, c
    <3> QED
      BY <1>4, <1>5, <3>1, <3>3
  <2>2. elemNum' = Cardinality(Nodes')
    BY <1>1, <1>2 DEF ListsOK, Counted
  <2>3. canUse' = Cardinality({p \in Slots \X (1 .. PerUnitMax) : p[2] <= channels'[p[1]]})
    <3> DEFINE P == {p \in Slots \X (1 .. PerUnitMax) : p[2] <= channels[p[1]]}
               Q == {p \in Slots \X (1 .. PerUnitMax) : p[2] <= channels'[p[1]]}
               x == <<s, channels[s] + 1>>
    <3>1. IsFiniteSet(P)
      <4>1. IsFiniteSet(Slots) /\ IsFiniteSet(1 .. PerUnitMax)
        <5>1. MaxSlots \in Int /\ PerUnitMax \in Int /\ 1 \in Int
          BY EnumerationAssumption DEF EnumerationAssumption
        <5> QED
          BY <5>1, FS_Interval DEF Slots
      <4>2. IsFiniteSet(Slots \X (1 .. PerUnitMax))
        BY <4>1, FS_Product
      <4> QED
        BY <4>2, FS_Subset
    <3>2. x \notin P
      BY <1>3
    <3>3. CASE channels[s] + 1 <= PerUnitMax
      <4>1. Q = P \cup {x}
        <5>1. x \in Q
          BY <1>3, <1>4, <3>3
        <5>2. \A p \in P : p \in Q
          BY <1>3, <1>4
        <5>3. ASSUME NEW p \in Q, p \notin P PROVE p = x
          <6>1. p[1] = s
            BY <1>4, <5>3
          <6>2. p[2] = channels[s] + 1
            BY <1>3, <1>4, <5>3, <6>1
          <6> QED
            BY <6>1, <6>2
        <5> QED
          BY <5>1, <5>2, <5>3
      <4>2. Cardinality(Q) = Cardinality(P) + 1
        <5> HIDE DEF P, Q, x
        <5> QED
          BY <3>1, <3>2, <4>1, FS_AddElement
      <4> QED
        BY <1>1, <1>4, <3>3, <4>2 DEF ListsOK, Counted
    <3>4. CASE ~(channels[s] + 1 <= PerUnitMax)
      <4>1. Q = P
        <5>1. \A b \in 1 .. PerUnitMax : b <= channels'[s] <=> b <= channels[s]
          BY <1>3, <1>4, <3>4, SlotFacts
        <5> QED
          BY <1>4, <5>1
      <4> QED
        BY <1>1, <1>4, <3>4, <4>1 DEF ListsOK, Counted
    <3> QED
      BY <3>3, <3>4
  <2>4. cnntNum' = Cardinality({m \in Nodes' : talker'[m] # NoTalker})
    <3>1. {m \in Nodes' : talker'[m] # NoTalker} = {m \in Nodes : talker[m] # NoTalker}
      BY <1>2
    <3> QED
      BY <1>1, <3>1 DEF ListsOK, Counted
  <2> QED
    BY <1>1, <2>1, <2>2, <2>3, <2>4 DEF Counted
<1>12. FirstOnly'
  BY <1>1 DEF ListsOK, FirstOnly
<1> QED
  BY <1>1, <1>2, <1>3, <1>4, <1>5, <1>8, <1>9, <1>10, <1>11, <1>12 DEF ListsOK, n

(* The nodes of an input of a unit no read of which was answered twice.    *)
LEMMA OnceIs ==
  ASSUME ReadsOnce, NEW u \in Units, u \notin twice, NEW i \in Inputs,
         desc[u].named, owed[<<u, "input", i>>] > 0
  PROVE  owed[<<u, "input", i>>] = 1 /\ NodesOf(u, i) = {}
BY DEF ReadsOnce

(* A slot that is full lists a channel for every input.                    *)
LEMMA FullIs ==
  ASSUME ListTypes, ListsOK, SlotsHold, ReadsOnce, NEW u \in Units, u \notin twice,
         NEW i \in Inputs, NEW w \in Slots, unit[w] = u, solid[w], state[w] = "all"
  PROVE  NodesOf(u, i) # {}
<1> SUFFICES ASSUME NodesOf(u, i) = {} PROVE FALSE
  OBVIOUS
<1> DEFINE J == Inputs \ {i}
           T == {<<u, j, 1>> : j \in J}
           f == [j \in J |-> <<u, j, 1>>]
           L == Listed(w)
<1>1. IsFiniteSet(J) /\ Cardinality(J) = NumChannels - 1
  <2>1. IsFiniteSet(Inputs) /\ Cardinality(Inputs) = NumChannels
    <3>1. NumChannels \in Int /\ 1 \in Int /\ NumChannels > 0
      BY EnumerationAssumption DEF EnumerationAssumption
    <3> QED
      BY <3>1, FS_Interval DEF Inputs
  <2> QED
    BY <2>1, FS_RemoveElement
<1>2. IsFiniteSet(T) /\ Cardinality(T) <= Cardinality(J)
  <2>1. f \in Surjection(J, T)
    BY DEF Surjection
  <2>2. IsFiniteSet(J)
    BY <1>1
  <2> HIDE DEF J, T, f
  <2> QED
    BY <2>1, <2>2, FS_Surjection
<1>3. L \subseteq T
  <2> SUFFICES ASSUME NEW m \in L PROVE m \in T
    OBVIOUS
  <2>1. m \in Nodes /\ m[1] = u
    BY DEF ListsOK, ListsApart, SlotsHold
  <2>2. m[2] \in Inputs /\ m \in NodesOf(u, m[2])
    BY <2>1 DEF ListTypes, NodesOf
  <2>3. NodesOf(u, m[2]) \subseteq {<<u, m[2], 1>>}
    BY <2>2 DEF ReadsOnce
  <2> QED
    BY <2>2, <2>3
<1>4. Cardinality(L) = NumChannels
  <2> DEFINE a == free[w]
             b == busy[w]
  <2>1. /\ a \in Seq(Nodes) /\ b \in Seq(Nodes) /\ IsInjective(a) /\ IsInjective(b)
        /\ ToSet(a) \cap ToSet(b) = {} /\ L = ToSet(a) \cup ToSet(b)
        /\ Len(a) + Len(b) = NumChannels
    BY DEF ListTypes, ListsOK, ListsApart, Counted, SlotsHold, Listed
  <2> HIDE DEF a, b, L
  <2>2. /\ IsFiniteSet(ToSet(a)) /\ Cardinality(ToSet(a)) = Len(a)
        /\ IsFiniteSet(ToSet(b)) /\ Cardinality(ToSet(b)) = Len(b)
    BY <2>1, SizeIs
  <2>3. Cardinality(L) = Cardinality(ToSet(a)) + Cardinality(ToSet(b)) - Cardinality({})
    BY <2>1, <2>2, FS_Union
  <2>4. Len(a) \in Nat /\ Len(b) \in Nat
    BY <2>1, LenProperties
  <2> QED
    BY <2>1, <2>2, <2>3, <2>4, FS_EmptySet
<1>5. Cardinality(L) <= Cardinality(T)
  BY <1>2, <1>3, FS_Subset
<1>6. Cardinality(T) \in Nat /\ NumChannels \in Nat
  BY <1>2, FS_CardinalityType, SlotFacts
<1> QED
  BY <1>1, <1>2, <1>4, <1>5, <1>6

(* An input is listed. *)
LEMMA EnlistStep ==
  ASSUME IInv, NEW u \in Units, NEW i \in Inputs, Polling, owed[<<u, "input", i>>] > 0,
         owed' = Answered(<<u, "input", i>>), SlotFor(u) # 0, desc[u].conf, desc[u].named,
         Enlist(SlotFor(u), u, i),
         UNCHANGED <<entity, desc, epollVars, current, commands, ghostVars>>
  PROVE  IInv'
<1> DEFINE r == <<u, "input", i>>
           n == New(u, i)
<1>1. PICK s \in Slots :
      /\ Enlist(s, u, i)
      /\ \/ state[s] = "ok" /\ unit[s] = u
         \/ state[s] = "uninit" /\ unit[s] = NoUnit /\ Open(u) = {}
  BY SlotForIs
<1>2. /\ EntityTypes /\ SlotTypes /\ ListTypes /\ TalkTypes /\ IsFiniteSet(Nodes) /\ Numbered
      /\ ReadsOnce /\ OneSlot /\ SlotsHold /\ ListsOK /\ LimitKept /\ Handled
  BY TypesAre DEF IInv, Polling, Astray
<1>3. /\ unit' = [unit EXCEPT ![s] = u] /\ solid' = [solid EXCEPT ![s] = TRUE]
      /\ state' = [state EXCEPT ![s] = IF channels'[s] >= NumChannels THEN "all" ELSE "ok"]
      /\ talker' = [m \in Nodes \cup {n} |-> IF m = n THEN NoTalker ELSE talker[m]]
      /\ UNCHANGED <<busy, num, handling, entity, desc, epc, at, current, commands,
                     lost, twice, restarted>>
  BY <1>1 DEF Enlist, New, epollVars, ghostVars
<1>4. /\ n \in Units \X Inputs \X Nat
      /\ n \notin Nodes /\ Nodes' = Nodes \cup {n}
      /\ talker'[n] = NoTalker /\ \A m \in Nodes : talker'[m] = talker[m]
      /\ NodesOf(u, i)' = NodesOf(u, i) \cup {n}
      /\ \A w, j : w # u \/ j # i => NodesOf(w, j)' = NodesOf(w, j)
      /\ NodesOf(u, i) = {} => n = <<u, i, 1>>
  BY <1>2, <1>3, NewIs
<1>5. n[1] = u /\ n[2] = i
  BY DEF New
<1> HIDE DEF n
<1>6. /\ ListTypes' /\ ListsOK' /\ IsFiniteSet(Nodes') /\ Numbered'
      /\ channels[s] < NumChannels /\ channels'[s] = channels[s] + 1
      /\ \A w \in Slots : w # s => UNCHANGED <<free[w], channels[w]>>
      /\ free[s] \in Seq(Nodes) /\ free'[s] = Append(free[s], n)
      /\ Listed(s)' = Listed(s) \cup {n}
      /\ \A w \in Slots : w # s => Listed(w)' = Listed(w)
  <2>1. state[s] # "all"
    BY <1>1
  <2>2. /\ ListTypes' /\ ListsOK' /\ IsFiniteSet(Nodes') /\ Numbered'
        /\ channels[s] < NumChannels /\ channels'[s] = channels[s] + 1
        /\ \A w \in Slots : w # s => UNCHANGED <<free[w], channels[w]>>
        /\ free[s] \in Seq(Nodes) /\ free'[s] = Append(free[s], New(u, i))
        /\ Listed(s)' = Listed(s) \cup {New(u, i)}
        /\ \A w \in Slots : w # s => Listed(w)' = Listed(w)
    BY <1>1, <1>2, <2>1, EnlistIs
  <2> QED
    BY <2>2 DEF n
<1>7. r \in Reads /\ owed' \in [Reads -> Nat] /\ owed'[r] = owed[r] - 1
      /\ \A p \in Reads : p # r => owed'[p] = owed[p]
  <2>1. r \in Reads /\ owed[r] > 0
    BY ReadsAre
  <2> QED
    BY <1>2, <2>1, AnsweredIs
<1>8. EntityTypes' /\ SlotTypes' /\ TalkTypes'
  <2>1. EntityTypes'
    BY <1>2, <1>3, <1>7 DEF EntityTypes
  <2>2. SlotTypes'
    BY <1>1, <1>2, <1>3 DEF SlotTypes
  <2>3. TalkTypes'
    BY <1>2, <1>3, <1>4 DEF TalkTypes
  <2> QED
    BY <2>1, <2>2, <2>3
<1>9. u \notin twice => owed[r] = 1 /\ NodesOf(u, i) = {}
  BY <1>2, OnceIs
<1>10. ReadsOnce'
  <2>1. \A w \in Units : desc[w].named \/ desc[w].conf => desc[w].node
    BY <1>2 DEF ReadsOnce
  <2>2. ASSUME NEW w \in Units, w \notin twice, NEW j \in Inputs
        PROVE  LET p == <<w, "input", j>> IN
               /\ NodesOf(w, j)' \subseteq {<<w, j, 1>>}
               /\ (desc[w].node => desc[w].named /\ ~desc[w].conf) =>
                      owed'[p] = 0 /\ NodesOf(w, j)' = {}
               /\ desc[w].named => \/ owed'[p] = 0
                                   \/ owed'[p] = 1 /\ NodesOf(w, j)' = {}
    <3>1. CASE w # u \/ j # i
      <4>1. NodesOf(w, j)' = NodesOf(w, j) /\ owed'[<<w, "input", j>>] = owed[<<w, "input", j>>]
        BY <1>4, <1>7, <3>1, ReadsAre
      <4> QED
        BY <1>2, <2>2, <4>1 DEF ReadsOnce
    <3>2. CASE w = u /\ j = i
      <4>1. owed'[r] = 0 /\ NodesOf(u, i)' = {<<u, i, 1>>}
        BY <1>4, <1>7, <1>9, <2>2, <3>2
      <4> QED
        BY <2>1, <3>2, <4>1
    <3> QED
      BY <3>1, <3>2
  <2> QED
    BY <1>3, <2>1, <2>2 DEF ReadsOnce
<1>11. OneSlot'
  <2> SUFFICES ASSUME NEW v \in Units, v \notin twice, NEW w \in Slots, NEW x \in Slots,
                      unit'[w] = v, unit'[x] = v
               PROVE  w = x
    BY <1>3 DEF OneSlot
  <2>1. \A y \in Slots : y # s => unit'[y] = unit[y]
    BY <1>2, <1>3 DEF SlotTypes
  <2>2. unit'[s] = u
    BY <1>1, <1>2, <1>3 DEF SlotTypes
  <2>3. ASSUME NEW y \in Slots, y # s, unit[y] = u, u \notin twice PROVE FALSE
    <3>1. CASE state[s] = "ok" /\ unit[s] = u
      BY <1>1, <1>2, <2>3, <3>1 DEF OneSlot
    <3>2. CASE Open(u) = {}
      <4>1. solid[y] /\ state[y] # "uninit"
        BY <1>2, <2>3, EnumerationAssumption DEF SlotsHold, EnumerationAssumption
      <4>2. state[y] # "ok"
        BY <2>3, <3>2 DEF Open
      <4>3. state[y] = "all"
        BY <1>2, <4>1, <4>2 DEF SlotTypes
      <4> QED
        BY <1>2, <1>9, <2>3, <4>1, <4>3, FullIs
    <3> QED
      BY <1>1, <3>1, <3>2
  <2> QED
    BY <1>2, <2>1, <2>2, <2>3 DEF OneSlot
<1>12. SlotsHold'
  <2>1. \A m \in Listed(s) : m[1] = u
    BY <1>1, <1>2, EnumerationAssumption DEF SlotsHold, EnumerationAssumption
  <2>2. desc[u].node
    BY <1>2 DEF ReadsOnce
  <2>3. /\ unit'[s] = u /\ solid'[s] = TRUE
        /\ state'[s] = IF channels'[s] >= NumChannels THEN "all" ELSE "ok"
        /\ \A w \in Slots : w # s => UNCHANGED <<unit[w], solid[w], state[w]>>
    BY <1>1, <1>2, <1>3 DEF SlotTypes
  <2>4. state'[s] = "all" <=> channels'[s] = NumChannels
    <3>1. channels[s] \in Nat
      BY <1>1, <1>2 DEF ListTypes
    <3> QED
      BY <1>6, <2>3, <3>1, SlotFacts
  <2>5. ASSUME NEW w \in Slots, w # s
        PROVE  /\ \A m, l \in Listed(w)' : m[1] = l[1]
               /\ solid'[w] <=> unit'[w] # NoUnit
               /\ solid'[w] => /\ desc'[unit'[w]].node /\ Listed(w)' # {}
                               /\ \A m \in Listed(w)' : m[1] = unit'[w]
               /\ state'[w] = "uninit" <=> Listed(w)' = {}
               /\ state'[w] = "all" <=> channels'[w] = NumChannels
    BY <1>2, <1>3, <1>6, <2>3, <2>5 DEF SlotsHold
  <2>6. /\ \A m, l \in Listed(s)' : m[1] = l[1]
        /\ solid'[s] <=> unit'[s] # NoUnit
        /\ solid'[s] => /\ desc'[unit'[s]].node /\ Listed(s)' # {}
                        /\ \A m \in Listed(s)' : m[1] = unit'[s]
        /\ state'[s] = "uninit" <=> Listed(s)' = {}
    BY <1>3, <1>5, <1>6, <2>1, <2>2, <2>3, EnumerationAssumption DEF EnumerationAssumption
  <2>7. \A w \in Slots :
           /\ \A m, l \in Listed(w)' : m[1] = l[1]
           /\ solid'[w] <=> unit'[w] # NoUnit
           /\ solid'[w] => /\ desc'[unit'[w]].node /\ Listed(w)' # {}
                           /\ \A m \in Listed(w)' : m[1] = unit'[w]
           /\ state'[w] = "uninit" <=> Listed(w)' = {}
           /\ state'[w] = "all" <=> channels'[w] = NumChannels
    BY <2>4, <2>5, <2>6
  <2> QED
    BY <2>7 DEF SlotsHold
<1>13. LimitKept'
  BY <1>2, <1>3, LimitStays
<1>14. Handled'
  <2>1. /\ \A m : On(m)' = On(m)
        /\ \A m : Found(m)' <=> Found(m)
    BY <1>3 DEF On, Found
  <2>2. \A k \in commands : NodesOf(k.unit, k.input)' # {}
    BY <1>2, <1>4 DEF Handled
  <2>3. u \notin twice => On(n) = {} /\ ~Found(n)
    <3>1. ASSUME u \notin twice, NEW k \in On(n) PROVE FALSE
      <4>1. k \in commands /\ k.unit = u /\ k.input = i
        BY <1>5, <3>1 DEF On, IsOf
      <4> QED
        BY <1>2, <1>9, <3>1, <4>1 DEF Handled
    <3>2. ~Found(n)
      BY <1>2, <1>4 DEF TalkTypes, Found
    <3> QED
      BY <3>1, <3>2
  <2>4. ASSUME NEW m \in Nodes', m[1] \notin twice
        PROVE  /\ \A k, l \in On(m) : k = l
               /\ On(m) # {} => m \in handling
               /\ \A k \in On(m) : k.cmd = "connect" <=> talker'[m] = NoTalker
               /\ Found(m) => talker'[m] = NoTalker /\ m \notin handling
    <3>1. CASE m = n
      BY <1>5, <2>3, <2>4, <3>1
    <3>2. CASE m \in Nodes
      BY <1>2, <1>4, <2>4, <3>2 DEF Handled
    <3> QED
      BY <1>4, <3>1, <3>2
  <2>5. ASSUME NEW w \in Slots, NEW m \in ToSet(free'[w]), m[1] \notin twice,
               On(m) # {} \/ Found(m)
        PROVE  m = Head(free'[w]) /\ num[w] < PerUnitMax
    <3>1. CASE w # s
      BY <1>2, <1>6, <2>5, <3>1 DEF Handled
    <3>2. CASE w = s
      <4>1. m # n
        BY <1>5, <2>3, <2>5
      <4>2. m \in ToSet(free[s])
        <5> DEFINE a == free[s]
                   b == free'[s]
        <5>1. /\ n \notin ToSet(a) /\ n \in Nodes'
              /\ IsInjective(a) /\ a \in Seq(Nodes') /\ b = Append(a, n)
          <6>1. ToSet(a) \subseteq Nodes /\ IsInjective(a)
            BY <1>1, <1>2 DEF ListsOK, ListsApart, Listed
          <6>2. a \in Seq(Nodes')
            BY <1>4, <1>6, WiderIs
          <6> QED
            BY <1>4, <1>6, <6>1, <6>2
        <5>2. m \in ToSet(b)
          BY <2>5, <3>2
        <5> HIDE DEF a, b
        <5>3. ToSet(b) = ToSet(a) \cup {n}
          BY <5>1, AppendIs
        <5> QED
          BY <4>1, <5>2, <5>3 DEF a
      <4>3. m = Head(free[s]) /\ num[s] < PerUnitMax
        BY <1>1, <1>2, <2>5, <4>2 DEF Handled
      <4>4. Head(free'[s]) = Head(free[s])
        <5> DEFINE a == free[s]
                   N == Nodes'
        <5>1. a \in Seq(N) /\ n \in N /\ m \in ToSet(a)
          BY <1>4, <1>6, <4>2, WiderIs
        <5> HIDE DEF a, N
        <5>2. Head(Append(a, n)) = Head(a)
          BY <5>1, HeadStays
        <5> QED
          BY <1>6, <5>2 DEF a
      <4> QED
        BY <3>2, <4>3, <4>4
    <3> QED
      BY <3>1, <3>2
  <2> QED
    BY <1>3, <2>1, <2>2, <2>4, <2>5 DEF Handled
<1>15. Releasing'
  BY <1>3 DEF IInv, Releasing, Polling
<1>16. TypeOK'
  BY <1>6, <1>8, TypesAre
<1> QED
  BY <1>6, <1>10, <1>11, <1>12, <1>13, <1>14, <1>15, <1>16 DEF IInv

(* The read of an input is answered. *)
LEMMA AnswerInputStep ==
  ASSUME IInv, NEW u \in Units, NEW i \in Inputs, AnswerInput(u, i)
  PROVE  IInv'
<1>1. /\ Polling /\ owed[<<u, "input", i>>] > 0 /\ owed' = Answered(<<u, "input", i>>)
      /\ UNCHANGED <<entity, desc, epollVars, current, commands, ghostVars>>
  BY DEF AnswerInput
<1>2. CASE UNCHANGED <<slotVars, listVars, countVars>>
  BY <1>1, <1>2, UnlistedStep
<1>3. CASE desc[u].conf /\ desc[u].named /\ SlotFor(u) # 0 /\ Enlist(SlotFor(u), u, i)
  BY <1>1, <1>3, EnlistStep
<1> QED
  BY <1>2, <1>3 DEF AnswerInput

-----------------------------------------------------------------------------
(* The invariant *)

(* No unit has been heard of. *)
LEMMA InitIInv == Init => IInv
<1> SUFFICES ASSUME Init PROVE IInv
  OBVIOUS
<1>1. NoUnit \notin Units /\ 0 \in 0 .. ByteValues - 1 /\ 0 \in 0 .. NumChannels
  BY SlotFacts, EnumerationAssumption DEF EnumerationAssumption
<1>2. Nodes = {}
  BY DEF Init, Nodes
<1>3. \A u, i : NodesOf(u, i) = {}
  BY <1>2 DEF NodesOf
<1>4. \A s \in Slots : ToSet(free[s]) = {} /\ ToSet(busy[s]) = {} /\ Listed(s) = {}
  BY DEF Init, ToSet, Listed
<1>5. <<>> \in Seq(Nodes) /\ Len(<<>>) = 0
  BY EmptySeq
<1>6. EntityTypes
  BY DEF Init, EntityTypes, NoDesc
<1>7. SlotTypes
  BY DEF Init, SlotTypes
<1>8. ListTypes
  <2>1. talker \in [Nodes -> Talkers \cup {NoTalker}]
    BY <1>2 DEF Init
  <2> QED
    BY <1>1, <1>2, <1>5, <2>1 DEF Init, ListTypes
<1>9. TalkTypes
  BY DEF Init, TalkTypes
<1>10. IsFiniteSet(Nodes) /\ Numbered
  <2>1. \A u, i : NodesOf(u, i) = {<<u, i, k>> : k \in 1 .. 0}
    BY <1>3
  <2> QED
    BY <1>2, <2>1, FS_EmptySet DEF Numbered
<1>11. Releasing /\ ReadsOnce /\ OneSlot
  <2>1. Releasing
    BY DEF Init, Releasing
  <2>2. ReadsOnce
    BY <1>3, ReadsAre DEF Init, ReadsOnce, NoDesc
  <2>3. OneSlot
    BY <1>1 DEF Init, OneSlot
  <2> QED
    BY <2>1, <2>2, <2>3
<1>12. SlotsHold
  BY <1>1, <1>4, EnumerationAssumption DEF Init, SlotsHold, EnumerationAssumption
<1>13. ListsOK
  <2>1. ListsApart
    <3>1. \A s \in Slots : IsInjective(free[s]) /\ IsInjective(busy[s])
      BY DEF Init, IsInjective
    <3> QED
      BY <1>2, <1>4, <3>1 DEF ListsApart
  <2>2. Counted
    <3>1. {p \in Slots \X (1 .. PerUnitMax) : p[2] <= channels[p[1]]} = {}
      BY SlotFacts DEF Init
    <3>2. {n \in Nodes : talker[n] # NoTalker} = {}
      BY <1>2
    <3>3. Cardinality({}) = 0
      BY FS_EmptySet
    <3>4. \A s \in Slots : /\ channels[s] = Len(free[s]) + Len(busy[s])
                           /\ num[s] = Len(busy[s])
      BY <1>5 DEF Init
    <3>5. elemNum = 0 /\ canUse = 0 /\ cnntNum = 0
      BY DEF Init
    <3> QED
      BY <1>2, <3>1, <3>2, <3>3, <3>4, <3>5 DEF Counted
  <2>3. FirstOnly
    BY DEF Init, FirstOnly
  <2> QED
    BY <2>1, <2>2, <2>3 DEF ListsOK
<1>14. LimitKept
  BY SlotFacts DEF Init, LimitKept
<1>15. Handled
  BY <1>2, <1>4 DEF Init, Handled
<1>16. TypeOK
  BY <1>6, <1>7, <1>8, <1>9, TypesAre
<1> QED
  BY <1>10, <1>11, <1>12, <1>13, <1>14, <1>15, <1>16 DEF IInv

(* Nothing happens. *)
LEMMA StutterStep ==
  ASSUME IInv, UNCHANGED vars
  PROVE  IInv'
<1>1. TalkTypes' /\ handling' \subseteq Nodes
  BY TypesAre
     DEF IInv, TalkTypes, ListTypes, Nodes, vars, listVars
<1>2. ~Astray => Handled'
  BY HandledStays DEF IInv, vars, ghostVars
<1> QED
  BY <1>1, <1>2, TalkerStep DEF vars, listVars

(* Every step keeps the invariant. *)
LEMMA NextIInv == IInv /\ [Next]_vars => IInv'
<1> SUFFICES ASSUME IInv, [Next]_vars PROVE IInv'
  OBVIOUS
<1>1. ASSUME NEW u \in Units, AnswerEntity(u) PROVE IInv'
  BY <1>1, AnswerEntityStep
<1>2. ASSUME NEW u \in Units, AnswerConfig(u) PROVE IInv'
  BY <1>2, AnswerConfigStep
<1>3. ASSUME NEW u \in Units, NEW i \in Inputs, AnswerInput(u, i) PROVE IInv'
  BY <1>3, AnswerInputStep
<1>4. CASE ReleaseNode
  BY <1>4, ReleaseNodeStep
<1>5. CASE ReleaseHead
  BY <1>5, ReleaseHeadStep
<1>6. CASE ReleaseDone
  BY <1>6, ReleaseDoneStep
<1>7. ASSUME NEW u \in Units, Discover(u) PROVE IInv'
  BY <1>7, DiscoverStep
<1>8. ASSUME NEW u \in Units, Refresh(u) \/ Depart(u) PROVE IInv'
  BY <1>8, HeardStep
<1>9. ASSUME NEW u \in Units, Restart(u) PROVE IInv'
  BY <1>9, RestartStep
<1>10. ASSUME NEW t \in Talkers, Find(t) PROVE IInv'
  BY <1>10, FindStep
<1>11. ASSUME NEW t \in Talkers, Untalk(t) PROVE IInv'
  BY <1>11, UntalkStep
<1>12. CASE Talk
  BY <1>12, TalkStep
<1>13. ASSUME NEW k, NEW outcome, Conclude(k, outcome) PROVE IInv'
  BY <1>13, ConcludeStep
<1>14. CASE UNCHANGED vars
  BY <1>14, StutterStep
<1> QED
  BY <1>1, <1>2, <1>3, <1>4, <1>5, <1>6, <1>7, <1>8, <1>9, <1>10, <1>11, <1>12,
     <1>13, <1>14 DEF Next, Answer, Release, Advertise

(* The invariant holds in every state. *)
LEMMA AlwaysIInv == Spec => []IInv
<1> QED
  BY InitIInv, NextIInv, PTL DEF Spec

-----------------------------------------------------------------------------
(* The properties *)

(* The slots, lists and counters of the receive units agree, whatever      *)
(* units restart or leave, until a release has gone astray                 *)
(* (central_control_recieve_unit.c).                                       *)
THEOREM UnitsCorrect == Spec => []UnitsAgree
<1>1. IInv => UnitsAgree
  <2> SUFFICES ASSUME IInv PROVE UnitsAgree
    OBVIOUS
  <2>1. ~Astray => SlotsHold /\ ListsApart /\ CountsAgree
    BY DEF IInv, ListsOK, Counted, LimitKept, CountsAgree
  <2> QED
    BY <2>1 DEF IInv, UnitsAgree
<1> QED
  BY <1>1, AlwaysIInv, PTL

(* A stream input is one channel of one slot, however often the unit is    *)
(* read, unless a read was answered twice                                  *)
(* (init_central_control_recieve_unit_by_entity_id).                       *)
THEOREM ListedOnceCorrect == Spec => []ListedOnce
<1>1. IInv => ListedOnce
  <2> SUFFICES ASSUME IInv, NEW u \in Units, u \notin twice, NEW i \in Inputs
               PROVE  Cardinality(NodesOf(u, i)) <= 1
    BY DEF IInv, OneSlot, ListedOnce
  <2> DEFINE x == <<u, i, 1>>
             S == NodesOf(u, i)
  <2>1. S \subseteq {x}
    BY DEF IInv, ReadsOnce
  <2> HIDE DEF x, S
  <2>2. IsFiniteSet({x}) /\ Cardinality({x}) = 1
    BY FS_Singleton
  <2>3. Cardinality(S) <= 1
    BY <2>1, <2>2, FS_Subset
  <2> QED
    BY <2>3 DEF S
<1> QED
  BY <1>1, AlwaysIInv, PTL

(* A connection that ends is one of a command that ends, or of a unit that *)
(* has restarted.                                                          *)
LEMMA KeptStep ==
  ASSUME IInv, [Next]_vars, NEW n \in Nodes, talker[n] # NoTalker, talker'[n] = NoTalker
  PROVE  \/ \E k \in commands \ commands' :
                k.unit = n[1] /\ k.input = n[2]
                /\ (k.cmd = "disconnect" \/ n[1] \in twice)
         \/ epc = "release" /\ n[1] \in restarted
<1> DEFINE Ends == \/ \E k \in commands \ commands' :
                          k.unit = n[1] /\ k.input = n[2]
                          /\ (k.cmd = "disconnect" \/ n[1] \in twice)
                   \/ epc = "release" /\ n[1] \in restarted
<1> SUFFICES Ends
  OBVIOUS
<1> HIDE DEF Ends
<1>1. EntityTypes /\ SlotTypes /\ ListTypes /\ TalkTypes /\ IsFiniteSet(Nodes) /\ Numbered
  BY TypesAre DEF IInv
<1>2. talker' # talker
  OBVIOUS
<1>3. CASE ReleaseNode
  <2>1. /\ epc = "release" /\ at \in Slots /\ unit[at] \in restarted /\ SlotsHold
        /\ busy[at] # <<>> /\ talker' = [talker EXCEPT ![Head(busy[at])] = NoTalker]
    BY <1>3 DEF IInv, Releasing, ReleaseNode, Astray
  <2>2. n = Head(busy[at])
    BY <2>1 DEF Nodes
  <2>3. n \in Listed(at)
    <3> DEFINE l == busy[at]
    <3>1. l \in Seq(Nodes) /\ l # <<>> /\ n = Head(l)
      BY <1>1, <2>1, <2>2 DEF ListTypes
    <3> HIDE DEF l
    <3>2. 1 \in 1 .. Len(l) /\ Head(l) = l[1]
      BY <3>1, EmptySeq, LenProperties, HeadTailProperties
    <3>3. n \in ToSet(l)
      BY <3>1, <3>2, ToSetIs
    <3> QED
      BY <3>3 DEF l, Listed
  <2>4. solid[at]
    BY <1>1, <2>1, EnumerationAssumption DEF SlotsHold, EntityTypes, EnumerationAssumption
  <2>5. n[1] \in restarted
    BY <2>1, <2>3, <2>4 DEF SlotsHold
  <2> QED
    BY <2>1, <2>5 DEF Ends
<1>4. ASSUME NEW u \in Units, NEW i \in Inputs, AnswerInput(u, i) PROVE FALSE
  <2>1. Enlist(SlotFor(u), u, i)
    BY <1>2, <1>4 DEF AnswerInput, listVars
  <2>2. talker' = [m \in Nodes \cup {New(u, i)} |-> IF m = New(u, i) THEN NoTalker ELSE talker[m]]
    BY <2>1 DEF Enlist, New
  <2>3. talker'[n] = talker[n]
    BY <1>1, <2>2, NewIs
  <2> QED
    BY <2>3
<1>5. ASSUME NEW k, NEW outcome, Conclude(k, outcome) PROVE Ends
  <2>1. /\ k \in commands /\ commands' = commands \ {k} /\ k \in CommandSet
        /\ ListsOK /\ Handled /\ UNCHANGED <<elemNum, canUse>>
    BY <1>1, <1>5 DEF IInv, Conclude, Polling, Astray, TalkTypes
  <2>2. CASE Connected(k) /\ Matching(free[1], k) # {}
    <3>1. PICK m \in ToSet(free[1]) : talker' = [talker EXCEPT ![m] = k.talker]
      BY <1>1, <2>1, <2>2, ConnectedIs
    <3>2. talker[m] = NoTalker
      BY <1>1, <2>1, SlotFacts, FreeIs DEF ListsOK
    <3> QED
      BY <3>1, <3>2 DEF Nodes
  <2>3. CASE NotConnected(k)
    <3>1. n[1] = k.unit /\ n[2] = k.input
      BY <1>1, <2>1, <2>3, NotConnectedIs DEF IsOf
    <3>2. n[1] \notin twice => k.cmd = "disconnect"
      <4>1. k \in On(n)
        BY <2>1, <3>1 DEF On, IsOf
      <4> QED
        BY <2>1, <4>1 DEF Handled, CommandSet
    <3> QED
      BY <2>1, <3>1, <3>2 DEF Ends
  <2> QED
    BY <1>2, <1>5, <2>2, <2>3 DEF Conclude, Connected, listVars
<1>6. CASE \/ \E u \in Units : \/ AnswerEntity(u) \/ AnswerConfig(u) \/ Discover(u)
                               \/ Refresh(u) \/ Restart(u) \/ Depart(u)
           \/ ReleaseHead \/ ReleaseDone \/ Talk \/ UNCHANGED vars
           \/ \E t \in Talkers : Find(t) \/ Untalk(t)
  <2>1. talker' = talker
    BY <1>6 DEF AnswerEntity, AnswerConfig, Discover, Refresh, Restart, Depart, ReleaseHead,
                ReleaseDone, Talk, Find, Untalk, vars, listVars
  <2> QED
    BY <1>2, <2>1
<1> QED
  BY <1>3, <1>4, <1>5, <1>6 DEF Next, Answer, Release, Advertise

(* Nothing but the end of a command for its channel, or the restart of its *)
(* unit, takes a speaker off (proc_read_desc_resp, ccu_recv_model_talk and *)
(* central_control_recieve_ccu_model_state_update).                        *)
THEOREM ConnectionsCorrect == Spec => ConnectionsKept
<1>1. IInv /\ [Next]_vars =>
        [\A n \in Nodes :
            talker[n] # NoTalker /\ talker'[n] = NoTalker =>
                \/ \E k \in commands \ commands' :
                       k.unit = n[1] /\ k.input = n[2]
                       /\ (k.cmd = "disconnect" \/ n[1] \in twice)
                \/ epc = "release" /\ n[1] \in restarted]_vars
  BY KeptStep
<1> QED
  BY <1>1, AlwaysIInv, PTL DEF Spec, ConnectionsKept

=============================================================================
