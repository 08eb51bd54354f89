-------------------------- MODULE MicManager_proofs --------------------------
(* The microphone manager and the receive channels, for every set of       *)
(* talkers and channels, size of the queues and number of requests.        *)
EXTENDS MicManager, FiniteSetTheorems, SequenceTheorems, TLAPS

-----------------------------------------------------------------------------
(* A set of numbers has a least one.                                       *)
LEMMA LeastNumber ==
  ASSUME NEW T, T \subseteq Nat, T # {}
  PROVE  \E x \in T : \A y \in T : x <= y
<1>1. PICK x \in T : \A y \in T : ~(<<y, x>> \in OpToRel(<, Nat))
  BY NatLessThanWellFounded, WFMin
<1>2. ASSUME NEW y \in T PROVE x <= y
  <2>1. x \in Nat /\ y \in Nat
    OBVIOUS
  <2>2. ~(y < x)
    BY <1>1, <2>1 DEF OpToRel
  <2> QED
    BY <2>1, <2>2
<1> QED
  BY <1>1, <1>2

-----------------------------------------------------------------------------
(* Lists without repeats *)

LEMMA ToSetIs ==
  ASSUME NEW S, NEW s \in Seq(S)
  PROVE  /\ Len(s) \in Nat /\ DOMAIN s = 1 .. Len(s)
         /\ ToSet(s) = {s[i] : i \in 1 .. Len(s)} /\ ToSet(s) \subseteq S
         /\ \A c : Contains(s, c) <=> c \in ToSet(s)
         /\ IsInjective(s) <=> \A i, j \in 1 .. Len(s) : s[i] = s[j] => i = j
<1>1. Len(s) \in Nat /\ DOMAIN s = 1 .. Len(s) /\ \A i \in 1 .. Len(s) : s[i] \in S
  BY ElementOfSeq, LenProperties
<1> QED
  BY <1>1 DEF ToSet, Contains, IsInjective

LEMMA RemoveAtIs ==
  ASSUME NEW S, NEW s \in Seq(S), NEW i \in 1 .. Len(s)
  PROVE  /\ RemoveAt(s, i) \in Seq(S) /\ Len(RemoveAt(s, i)) = Len(s) - 1
         /\ \A j \in 1 .. (Len(s) - 1) :
               RemoveAt(s, i)[j] = IF j < i THEN s[j] ELSE s[j + 1]
<1> DEFINE a == SubSeq(s, 1, i - 1)
           b == SubSeq(s, i + 1, Len(s))
<1>1. Len(s) \in Nat /\ \A j \in 1 .. Len(s) : s[j] \in S
  BY ElementOfSeq, LenProperties
<1>2. /\ a \in Seq(S) /\ Len(a) = i - 1
      /\ \A j \in 1 .. (i - 1) : a[j] = s[j]
  BY <1>1, SubSeqProperties
<1>3. /\ b \in Seq(S) /\ Len(b) = Len(s) - i
      /\ \A j \in 1 .. (Len(s) - i) : b[j] = s[j + i]
  BY <1>1, SubSeqProperties
<1> HIDE DEF a, b
<1>4. /\ a \o b \in Seq(S) /\ Len(a \o b) = Len(a) + Len(b)
      /\ \A j \in 1 .. (Len(a) + Len(b)) :
            (a \o b)[j] = IF j <= Len(a) THEN a[j] ELSE b[j - Len(a)]
  BY <1>2, <1>3, ConcatProperties
<1>5. RemoveAt(s, i) = a \o b
  BY DEF RemoveAt, a, b
<1>6. ASSUME NEW j \in 1 .. (Len(s) - 1)
      PROVE  (a \o b)[j] = IF j < i THEN s[j] ELSE s[j + 1]
  <2>1. CASE j < i
    BY <1>1, <1>2, <1>3, <1>4, <2>1
  <2>2. CASE ~(j < i)
    <3>1. /\ j \in Nat /\ i \in Nat /\ j <= Len(s) - 1 /\ i <= j
          /\ j - (i - 1) \in 1 .. (Len(s) - i) /\ (j - (i - 1)) + i = j + 1
          /\ j \in 1 .. (Len(a) + Len(b)) /\ ~(j <= Len(a)) /\ j - Len(a) = j - (i - 1)
      BY <1>1, <1>2, <1>3, <2>2
    <3>2. (a \o b)[j] = b[j - (i - 1)]
      BY <1>4, <3>1
    <3>3. b[j - (i - 1)] = s[(j - (i - 1)) + i]
      BY <1>3, <3>1
    <3> QED
      BY <2>2, <3>1, <3>2, <3>3
  <2> QED
    BY <2>1, <2>2
<1>7. Len(a) + Len(b) = Len(s) - 1
  BY <1>1, <1>2, <1>3
<1> QED
  BY <1>4, <1>5, <1>6, <1>7

(* A node unlinked from a list.                                            *)
LEMMA WithoutIs ==
  ASSUME NEW S, NEW s \in Seq(S), IsInjective(s), NEW c, c \in ToSet(s)
  PROVE  /\ Without(s, c) \in Seq(S) /\ Len(Without(s, c)) = Len(s) - 1
         /\ IsInjective(Without(s, c)) /\ ToSet(Without(s, c)) = ToSet(s) \ {c}
<1>1. PICK i \in 1 .. Len(s) : i = (CHOOSE j \in DOMAIN s : s[j] = c) /\ s[i] = c
  <2>1. DOMAIN s = 1 .. Len(s) /\ \E j \in DOMAIN s : s[j] = c
    BY ToSetIs DEF ToSet
  <2> QED
    BY <2>1
<1> DEFINE w == RemoveAt(s, i)
<1>2. Without(s, c) = w
  BY <1>1 DEF Without
<1>3. /\ w \in Seq(S) /\ Len(w) = Len(s) - 1 /\ Len(s) \in Nat
      /\ \A j \in 1 .. (Len(s) - 1) : w[j] = IF j < i THEN s[j] ELSE s[j + 1]
  BY RemoveAtIs, ToSetIs
<1>4. \A j, l \in 1 .. Len(s) : s[j] = s[l] => j = l
  BY ToSetIs
<1> HIDE DEF w
<1>5. IsInjective(w)
  <2> SUFFICES ASSUME NEW j \in 1 .. Len(w), NEW l \in 1 .. Len(w), w[j] = w[l] PROVE j = l
    BY <1>3, ToSetIs
  <2>1. PICK p \in 1 .. Len(s) : w[j] = s[p] /\ p = IF j < i THEN j ELSE j + 1
    BY <1>3
  <2>2. PICK q \in 1 .. Len(s) : w[l] = s[q] /\ q = IF l < i THEN l ELSE l + 1
    BY <1>3
  <2>3. p = q
    BY <1>4, <2>1, <2>2
  <2> QED
    BY <1>3, <2>1, <2>2, <2>3
<1>6. ASSUME NEW x \in ToSet(w) PROVE x \in ToSet(s) \ {c}
  <2>1. PICK j \in 1 .. Len(w) : x = w[j]
    BY <1>3, ToSetIs
  <2>2. PICK p \in 1 .. Len(s) : w[j] = s[p] /\ p = IF j < i THEN j ELSE j + 1
    BY <1>3
  <2>3. p # i
    BY <1>3, <2>2
  <2>4. s[p] # c
    BY <1>1, <1>4, <2>3
  <2> QED
    BY <2>1, <2>2, <2>4, ToSetIs
<1>7. ASSUME NEW x \in ToSet(s) \ {c} PROVE x \in ToSet(w)
  <2>1. PICK p \in 1 .. Len(s) : x = s[p]
    BY ToSetIs
  <2>2. p # i
    BY <1>1, <2>1
  <2>3. PICK j \in 1 .. Len(w) : w[j] = s[p]
    <3>1. CASE p < i
      BY <1>3, <3>1
    <3>2. CASE p > i
      <4>1. p - 1 \in 1 .. (Len(s) - 1) /\ w[p - 1] = s[p]
        BY <1>3, <3>2
      <4> QED
        BY <1>3, <4>1
    <3> QED
      BY <2>2, <3>1, <3>2
  <2> QED
    BY <1>3, <2>1, <2>3, ToSetIs
<1> QED
  BY <1>2, <1>3, <1>5, <1>6, <1>7

LEMMA AppendIs ==
  ASSUME NEW S, NEW s \in Seq(S), IsInjective(s), NEW c \in S, c \notin ToSet(s)
  PROVE  /\ Append(s, c) \in Seq(S) /\ Len(Append(s, c)) = Len(s) + 1
         /\ IsInjective(Append(s, c)) /\ ToSet(Append(s, c)) = ToSet(s) \cup {c}
<1> DEFINE w == Append(s, c)
<1>1. /\ w \in Seq(S) /\ Len(w) = Len(s) + 1 /\ Len(s) \in Nat
      /\ \A i \in 1 .. Len(s) : w[i] = s[i]
      /\ w[Len(s) + 1] = c
  BY AppendProperties, LenProperties
<1> HIDE DEF w
<1>2. /\ \A j, l \in 1 .. Len(s) : s[j] = s[l] => j = l
      /\ ToSet(s) = {s[i] : i \in 1 .. Len(s)}
  BY ToSetIs
<1>3. IsInjective(w)
  <2> SUFFICES \A j, l \in 1 .. Len(w) : w[j] = w[l] => j = l
    BY <1>1, ToSetIs
  <2> QED
    BY <1>1, <1>2
<1>4. ToSet(w) = ToSet(s) \cup {c}
  <2>1. ToSet(w) = {w[i] : i \in 1 .. Len(w)}
    BY <1>1, ToSetIs
  <2> QED
    BY <1>1, <1>2, <2>1
<1> QED
  BY <1>1, <1>3, <1>4 DEF w

LEMMA ConcatIs ==
  ASSUME NEW S, NEW a \in Seq(S), NEW b \in Seq(S)
  PROVE  /\ ToSet(a \o b) = ToSet(a) \cup ToSet(b)
         /\ IsInjective(a \o b) <=> /\ IsInjective(a) /\ IsInjective(b)
                                    /\ ToSet(a) \cap ToSet(b) = {}
<1> DEFINE w == a \o b
           m == Len(a)
           n == Len(b)
<1>1. /\ w \in Seq(S) /\ Len(w) = m + n /\ m \in Nat /\ n \in Nat
      /\ \A j \in 1 .. (m + n) : w[j] = IF j <= m THEN a[j] ELSE b[j - m]
  BY ConcatProperties, LenProperties
<1>2. ToSet(a) = {a[i] : i \in 1 .. m} /\ (IsInjective(a) <=> \A j, l \in 1 .. m : a[j] = a[l] => j = l)
  BY ToSetIs
<1>3. ToSet(b) = {b[i] : i \in 1 .. n} /\ (IsInjective(b) <=> \A j, l \in 1 .. n : b[j] = b[l] => j = l)
  BY ToSetIs
<1>4. ToSet(w) = {w[i] : i \in 1 .. m + n} /\ (IsInjective(w) <=> \A j, l \in 1 .. m + n : w[j] = w[l] => j = l)
  BY <1>1, ToSetIs
<1> HIDE DEF w, m, n
<1>5. \A j \in 1 .. m : j \in 1 .. m + n /\ w[j] = a[j]
  BY <1>1
<1>6. \A j \in 1 .. n : m + j \in 1 .. m + n /\ w[m + j] = b[j]
  <2> TAKE j \in 1 .. n
  <2>1. m + j \in 1 .. m + n /\ ~(m + j <= m) /\ (m + j) - m = j
    BY <1>1
  <2> QED
    BY <1>1, <2>1
<1>7. \A j \in 1 .. m + n : j \in 1 .. m \/ \E l \in 1 .. n : j = m + l
  <2> TAKE j \in 1 .. m + n
  <2>1. j \in 1 .. m \/ (j - m \in 1 .. n /\ j = m + (j - m))
    BY <1>1
  <2> QED
    BY <2>1
<1>8. ToSet(w) = ToSet(a) \cup ToSet(b)
  <2>1. ASSUME NEW x \in ToSet(w) PROVE x \in ToSet(a) \cup ToSet(b)
    <3>1. PICK j \in 1 .. m + n : x = w[j]
      BY <1>4
    <3>2. j \in 1 .. m \/ \E l \in 1 .. n : j = m + l
      BY <1>7
    <3> QED
      BY <1>2, <1>3, <1>5, <1>6, <3>1, <3>2
  <2>2. ASSUME NEW x \in ToSet(a) PROVE x \in ToSet(w)
    BY <1>2, <1>4, <1>5
  <2>3. ASSUME NEW x \in ToSet(b) PROVE x \in ToSet(w)
    BY <1>3, <1>4, <1>6
  <2> QED
    BY <2>1, <2>2, <2>3
<1>9. ASSUME \A j, l \in 1 .. m + n : w[j] = w[l] => j = l
      PROVE  IsInjective(a) /\ IsInjective(b) /\ ToSet(a) \cap ToSet(b) = {}
  <2>1. \A j, l \in 1 .. m : a[j] = a[l] => j = l
    BY <1>5, <1>9
  <2>2. \A j, l \in 1 .. n : b[j] = b[l] => j = l
    <3> TAKE j, l \in 1 .. n
    <3>1. b[j] = b[l] => m + j = m + l
      BY <1>6, <1>9
    <3> QED
      BY <1>1, <3>1
  <2>3. \A j \in 1 .. m, l \in 1 .. n : a[j] # b[l]
    <3> TAKE j \in 1 .. m, l \in 1 .. n
    <3>1. a[j] = b[l] => j = m + l
      BY <1>5, <1>6, <1>9
    <3> QED
      BY <1>1, <3>1
  <2>4. ToSet(a) \cap ToSet(b) = {}
    BY <1>2, <1>3, <2>3
  <2> QED
    BY <1>2, <1>3, <2>1, <2>2, <2>4
<1>10. ASSUME IsInjective(a), IsInjective(b), ToSet(a) \cap ToSet(b) = {},
              NEW j \in 1 .. m + n, NEW l \in 1 .. m + n, w[j] = w[l]
       PROVE  j = l
  <2>1. \A p \in 1 .. m, q \in 1 .. n : a[p] # b[q]
    BY <1>2, <1>3, <1>10
  <2>2. j \in 1 .. m \/ \E p \in 1 .. n : j = m + p
    BY <1>7
  <2>3. l \in 1 .. m \/ \E p \in 1 .. n : l = m + p
    BY <1>7
  <2>4. CASE j \in 1 .. m /\ l \in 1 .. m
    BY <1>2, <1>5, <1>10, <2>4
  <2>5. CASE j \in 1 .. m /\ \E p \in 1 .. n : l = m + p
    BY <1>5, <1>6, <1>10, <2>1, <2>5
  <2>6. CASE l \in 1 .. m /\ \E p \in 1 .. n : j = m + p
    BY <1>5, <1>6, <1>10, <2>1, <2>6
  <2>7. ASSUME NEW p \in 1 .. n, NEW q \in 1 .. n, j = m + p, l = m + q PROVE j = l
    <3>1. b[p] = b[q]
      BY <1>6, <1>10, <2>7
    <3>2. p = q
      BY <1>3, <1>10, <3>1
    <3> QED
      BY <2>7, <3>2
  <2> QED
    BY <2>2, <2>3, <2>4, <2>5, <2>6, <2>7
<1>11. IsInjective(w) <=> IsInjective(a) /\ IsInjective(b) /\ ToSet(a) \cap ToSet(b) = {}
  BY <1>4, <1>9, <1>10
<1> QED
  BY <1>8, <1>11 DEF w

LEMMA ToSetFinite ==
  ASSUME NEW S, NEW s \in Seq(S)
  PROVE  IsFiniteSet(ToSet(s))
<1>1. Len(s) \in Nat /\ s \in [1 .. Len(s) -> S] /\ ToSet(s) = {s[i] : i \in 1 .. Len(s)}
  BY LenProperties, ToSetIs
<1>2. s \in [1 .. Len(s) -> ToSet(s)]
  BY <1>1
<1>3. s \in Surjection(1 .. Len(s), ToSet(s))
  BY <1>1, <1>2 DEF Surjection
<1>4. IsFiniteSet(1 .. Len(s))
  BY <1>1, FS_Interval
<1> QED
  BY <1>3, <1>4, FS_Surjection

-----------------------------------------------------------------------------
(* The units *)

LEMMA FirstUnit ==
  /\ 1 \in Units /\ SearchedUnits = {1}
  /\ \A u \in Units : ChannelsOf[u] \in Seq(Channels)
  /\ \A u, w \in Units : u # w => ToSet(ChannelsOf[u]) \cap ToSet(ChannelsOf[w]) = {}
<1>1. ChannelsOf \in Seq(Seq(Channels)) /\ ChannelsOf # <<>>
  BY RecieveUnitAssumption
<1>2. Len(ChannelsOf) \in Nat \ {0} /\ Units = 1 .. Len(ChannelsOf)
  BY <1>1, EmptySeq, LenProperties DEF Units
<1>3. \A u \in Units : ChannelsOf[u] \in Seq(Channels)
  BY <1>1, <1>2, ElementOfSeq
<1>4. 1 \in Units
  BY <1>2
<1>5. \A u, w \in Units : u # w => ToSet(ChannelsOf[u]) \cap ToSet(ChannelsOf[w]) = {}
  BY RecieveUnitAssumption
<1> QED
  BY <1>3, <1>4, <1>5 DEF SearchedUnits

(* The channels are in use in the first unit only, and the lists and       *)
(* counters agree.                                                         *)
UnitsKept ==
  /\ ChannelsTypeOK /\ CountsAgree
  /\ \A u \in Units \ SearchedUnits : connected[u] = <<>>

LEMMA InUseIs ==
  ASSUME ChannelsTypeOK, \A u \in Units \ SearchedUnits : connected[u] = <<>>
  PROVE  /\ InUse = ToSet(connected[1]) /\ InUse \subseteq Channels
         /\ IsFiniteSet(InUse)
<1>1. /\ \A u \in Units : connected[u] \in Seq(Channels)
      /\ 1 \in Units /\ \A u \in Units : u # 1 => connected[u] = <<>>
  BY FirstUnit DEF ChannelsTypeOK
<1>2. ToSet(<<>>) = {}
  BY DEF ToSet
<1>3. InUse = ToSet(connected[1])
  BY <1>1, <1>2 DEF InUse
<1>4. ToSet(connected[1]) \subseteq Channels /\ IsFiniteSet(ToSet(connected[1]))
  BY <1>1, ToSetFinite, ToSetIs
<1> QED
  BY <1>3, <1>4

(* A channel listed as unconnected is not in use.                          *)
LEMMA UnconnectedIs ==
  ASSUME UnitsKept
  PROVE  /\ \A u \in Units : ToSet(unconnected[u]) \cap InUse = {}
         /\ \A u \in Units : /\ IsInjective(unconnected[u]) /\ IsInjective(connected[u])
                             /\ ToSet(unconnected[u]) \cap ToSet(connected[u]) = {}
                             /\ ToSet(unconnected[u]) \cup ToSet(connected[u]) = ToSet(ChannelsOf[u])
                             /\ unitNum[u] = Len(connected[u])
<1>1. InUse = ToSet(connected[1])
  BY InUseIs DEF UnitsKept
<1>2. ASSUME NEW u \in Units
      PROVE  /\ IsInjective(unconnected[u]) /\ IsInjective(connected[u])
             /\ ToSet(unconnected[u]) \cap ToSet(connected[u]) = {}
             /\ ToSet(unconnected[u]) \cup ToSet(connected[u]) = ToSet(ChannelsOf[u])
             /\ unitNum[u] = Len(connected[u])
  <2>1. unconnected[u] \in Seq(Channels) /\ connected[u] \in Seq(Channels)
    BY DEF UnitsKept, ChannelsTypeOK
  <2>2. /\ IsInjective(unconnected[u] \o connected[u])
        /\ ToSet(unconnected[u] \o connected[u]) = ToSet(ChannelsOf[u])
        /\ unitNum[u] = Len(connected[u])
    BY DEF UnitsKept, CountsAgree
  <2> QED
    BY <2>1, <2>2, ConcatIs
<1>3. ASSUME NEW u \in Units PROVE ToSet(unconnected[u]) \cap InUse = {}
  <2>1. CASE u = 1
    BY <1>1, <1>2, <2>1
  <2>2. CASE u # 1
    <3>1. ToSet(unconnected[u]) \subseteq ToSet(ChannelsOf[u])
      BY <1>2
    <3>2. InUse \subseteq ToSet(ChannelsOf[1])
      BY <1>1, <1>2, FirstUnit
    <3>3. ToSet(ChannelsOf[u]) \cap ToSet(ChannelsOf[1]) = {}
      BY <2>2, FirstUnit
    <3> QED
      BY <3>1, <3>2, <3>3
  <2> QED
    BY <2>1, <2>2
<1> QED
  BY <1>2, <1>3

(* What the agreement of the first unit's lists takes.                     *)
LEMMA ListsReplaced ==
  ASSUME UnitsKept,
         NEW f, f \in Seq(Channels), IsInjective(f),
         NEW g, g \in Seq(Channels), IsInjective(g), ToSet(f) \cap ToSet(g) = {},
         ToSet(f) \cup ToSet(g) = ToSet(ChannelsOf[1]),
         unconnected' = [unconnected EXCEPT ![1] = f],
         connected' = [connected EXCEPT ![1] = g],
         NEW n \in Nat, n = Len(g), unitNum' = [unitNum EXCEPT ![1] = n],
         cnntNum' = Cardinality(ToSet(g)),
         tarker' \in [Channels -> Terminals \cup {NoTerminal}],
         handling' \subseteq Channels
  PROVE  UnitsKept' /\ InUse' = ToSet(g)
<1> USE FirstUnit
<1>1. IsFiniteSet(ToSet(g))
  BY ToSetFinite
<1>2. cnntNum' \in Nat
  BY <1>1, FS_CardinalityType
<1>3. ChannelsTypeOK'
  BY <1>2 DEF UnitsKept, ChannelsTypeOK
<1>4. \A u \in Units \ SearchedUnits : connected'[u] = <<>>
  BY DEF UnitsKept, ChannelsTypeOK
<1>5. InUse' = ToSet(g)
  <2>1. connected'[1] = g /\ \A u \in Units : u # 1 => connected'[u] = <<>>
    BY <1>4 DEF UnitsKept, ChannelsTypeOK
  <2>2. ToSet(<<>>) = {}
    BY DEF ToSet
  <2> QED
    BY <2>1, <2>2 DEF InUse
<1>6. ASSUME NEW u \in Units
      PROVE  /\ unitNum'[u] = Len(connected'[u])
             /\ IsInjective(unconnected'[u] \o connected'[u])
             /\ ToSet(unconnected'[u] \o connected'[u]) = ToSet(ChannelsOf[u])
  <2>1. CASE u = 1
    <3>1. unitNum'[u] = n /\ connected'[u] = g /\ unconnected'[u] = f
      BY <2>1 DEF UnitsKept, ChannelsTypeOK
    <3>2. IsInjective(f \o g) /\ ToSet(f \o g) = ToSet(ChannelsOf[1])
      BY ConcatIs
    <3> QED
      BY <2>1, <3>1, <3>2
  <2>2. CASE u # 1
    <3>1. unitNum'[u] = unitNum[u] /\ connected'[u] = connected[u] /\ unconnected'[u] = unconnected[u]
      BY <2>2 DEF UnitsKept, ChannelsTypeOK
    <3> QED
      BY <3>1 DEF UnitsKept, CountsAgree
  <2> QED
    BY <2>1, <2>2
<1>7. CountsAgree'
  BY <1>5, <1>6 DEF CountsAgree
<1> QED
  BY <1>3, <1>4, <1>5, <1>7 DEF UnitsKept

(* A connection is recorded.                                               *)
LEMMA RecordConnectIs ==
  ASSUME UnitsKept, NEW c \in Channels, NEW t \in Terminals, RecordConnect(c, t)
  PROVE  /\ UnitsKept' /\ c \notin InUse /\ InUse' = InUse \cup {c}
         /\ tarker' = [tarker EXCEPT ![c] = t] /\ handling' = handling \ {c}
<1> DEFINE f == Without(unconnected[1], c)
           g == Append(connected[1], c)
           n == unitNum[1] + 1
<1>1. 1 \in Units /\ SearchedUnits = {1}
  BY FirstUnit
<1>2. /\ unconnected \in [Units -> Seq(Channels)] /\ connected \in [Units -> Seq(Channels)]
      /\ tarker \in [Channels -> Terminals \cup {NoTerminal}]
      /\ handling \subseteq Channels /\ unitNum \in [Units -> Nat]
  BY DEF UnitsKept, ChannelsTypeOK
<1>3. /\ IsInjective(unconnected[1]) /\ IsInjective(connected[1])
      /\ ToSet(unconnected[1]) \cap ToSet(connected[1]) = {}
      /\ ToSet(unconnected[1]) \cup ToSet(connected[1]) = ToSet(ChannelsOf[1])
      /\ unitNum[1] = Len(connected[1])
  BY <1>1, UnconnectedIs
<1>4. /\ InUse = ToSet(connected[1]) /\ IsFiniteSet(InUse)
      /\ cnntNum = Cardinality(InUse)
  BY InUseIs DEF UnitsKept, CountsAgree
<1>5. /\ Contains(unconnected[1], c)
      /\ unconnected' = [unconnected EXCEPT ![1] = f]
      /\ connected' = [connected EXCEPT ![1] = g]
      /\ tarker' = [tarker EXCEPT ![c] = t] /\ handling' = handling \ {c}
      /\ unitNum' = [unitNum EXCEPT ![1] = n] /\ cnntNum' = cnntNum + 1
  BY <1>1 DEF RecordConnect
<1>6. c \in ToSet(unconnected[1])
  BY <1>1, <1>2, <1>5, ToSetIs
<1>7. /\ f \in Seq(Channels) /\ IsInjective(f) /\ ToSet(f) = ToSet(unconnected[1]) \ {c}
  BY <1>1, <1>2, <1>3, <1>6, WithoutIs
<1>8. /\ g \in Seq(Channels) /\ IsInjective(g) /\ ToSet(g) = ToSet(connected[1]) \cup {c}
      /\ Len(g) = Len(connected[1]) + 1
  BY <1>1, <1>2, <1>3, <1>6, AppendIs
<1>9. n \in Nat /\ n = Len(g)
  BY <1>1, <1>2, <1>3, <1>8
<1>10. cnntNum' = Cardinality(ToSet(g)) /\ c \notin InUse
  BY <1>3, <1>4, <1>5, <1>6, <1>8, FS_AddElement
<1>11. tarker' \in [Channels -> Terminals \cup {NoTerminal}] /\ handling' \subseteq Channels
  BY <1>2, <1>5
<1>12. ToSet(f) \cap ToSet(g) = {} /\ ToSet(f) \cup ToSet(g) = ToSet(ChannelsOf[1])
  BY <1>3, <1>6, <1>7, <1>8
<1> HIDE DEF f, g, n
<1>13. UnitsKept' /\ InUse' = ToSet(g)
  BY <1>5, <1>7, <1>8, <1>9, <1>10, <1>11, <1>12, ListsReplaced
<1> QED
  BY <1>4, <1>5, <1>8, <1>10, <1>13

(* A disconnection is recorded.                                            *)
LEMMA RecordDisconnectIs ==
  ASSUME UnitsKept, NEW c \in Channels, RecordDisconnect(c)
  PROVE  /\ UnitsKept' /\ c \in InUse /\ InUse' = InUse \ {c}
         /\ tarker' = [tarker EXCEPT ![c] = NoTerminal] /\ handling' = handling \ {c}
<1> DEFINE f == Append(unconnected[1], c)
           g == Without(connected[1], c)
           n == unitNum[1] - 1
<1>1. 1 \in Units /\ SearchedUnits = {1}
  BY FirstUnit
<1>2. /\ unconnected \in [Units -> Seq(Channels)] /\ connected \in [Units -> Seq(Channels)]
      /\ tarker \in [Channels -> Terminals \cup {NoTerminal}]
      /\ handling \subseteq Channels /\ unitNum \in [Units -> Nat]
  BY DEF UnitsKept, ChannelsTypeOK
<1>3. /\ IsInjective(unconnected[1]) /\ IsInjective(connected[1])
      /\ ToSet(unconnected[1]) \cap ToSet(connected[1]) = {}
      /\ ToSet(unconnected[1]) \cup ToSet(connected[1]) = ToSet(ChannelsOf[1])
      /\ unitNum[1] = Len(connected[1])
  BY <1>1, UnconnectedIs
<1>4. /\ InUse = ToSet(connected[1]) /\ IsFiniteSet(InUse)
      /\ cnntNum = Cardinality(InUse)
  BY InUseIs DEF UnitsKept, CountsAgree
<1>5. /\ Contains(connected[1], c)
      /\ unconnected' = [unconnected EXCEPT ![1] = f]
      /\ connected' = [connected EXCEPT ![1] = g]
      /\ tarker' = [tarker EXCEPT ![c] = NoTerminal] /\ handling' = handling \ {c}
      /\ unitNum' = [unitNum EXCEPT ![1] = n] /\ cnntNum' = cnntNum - 1
  BY <1>1 DEF RecordDisconnect
<1>6. c \in ToSet(connected[1])
  BY <1>1, <1>2, <1>5, ToSetIs
<1>7. /\ g \in Seq(Channels) /\ IsInjective(g) /\ ToSet(g) = ToSet(connected[1]) \ {c}
      /\ Len(g) = Len(connected[1]) - 1
  BY <1>1, <1>2, <1>3, <1>6, WithoutIs
<1>8. /\ f \in Seq(Channels) /\ IsInjective(f) /\ ToSet(f) = ToSet(unconnected[1]) \cup {c}
  BY <1>1, <1>2, <1>3, <1>6, AppendIs
<1>9. Len(g) \in Nat
  BY <1>7, LenProperties
<1>10. n \in Nat /\ n = Len(g)
  BY <1>1, <1>2, <1>3, <1>7, <1>9
<1>11. cnntNum' = Cardinality(ToSet(g)) /\ c \in InUse
  BY <1>4, <1>5, <1>6, <1>7, FS_RemoveElement
<1>12. tarker' \in [Channels -> Terminals \cup {NoTerminal}] /\ handling' \subseteq Channels
  BY <1>2, <1>5
<1>13. ToSet(f) \cap ToSet(g) = {} /\ ToSet(f) \cup ToSet(g) = ToSet(ChannelsOf[1])
  BY <1>3, <1>6, <1>7, <1>8
<1> HIDE DEF f, g, n
<1>14. UnitsKept' /\ InUse' = ToSet(g)
  BY <1>5, <1>7, <1>8, <1>10, <1>11, <1>12, <1>13, ListsReplaced
<1> QED
  BY <1>4, <1>5, <1>7, <1>11, <1>14

(* What stays of the lists when no channel moves.                          *)
LEMMA UnitsStay ==
  ASSUME UnitsKept, UNCHANGED <<unconnected, connected, unitNum, cnntNum>>,
         tarker' \in [Channels -> Terminals \cup {NoTerminal}], handling' \subseteq Channels
  PROVE  UnitsKept' /\ InUse' = InUse
<1>1. InUse' = InUse
  BY DEF InUse
<1>2. ChannelsTypeOK'
  BY DEF UnitsKept, ChannelsTypeOK
<1>3. CountsAgree'
  BY <1>1 DEF UnitsKept, CountsAgree
<1> QED
  BY <1>1, <1>2, <1>3 DEF UnitsKept

LEMMA RecordFailureIs ==
  ASSUME UnitsKept, NEW c \in Channels, RecordFailure(c)
  PROVE  /\ UnitsKept' /\ c \notin InUse /\ InUse' = InUse
         /\ tarker' = [tarker EXCEPT ![c] = NoTerminal] /\ handling' = handling \ {c}
<1>1. 1 \in Units /\ SearchedUnits = {1}
  BY FirstUnit
<1>2. /\ Contains(unconnected[1], c)
      /\ tarker' = [tarker EXCEPT ![c] = NoTerminal] /\ handling' = handling \ {c}
      /\ UNCHANGED <<unconnected, connected, unitNum, cnntNum>>
  BY <1>1 DEF RecordFailure
<1>3. tarker' \in [Channels -> Terminals \cup {NoTerminal}] /\ handling' \subseteq Channels
  BY <1>2 DEF UnitsKept, ChannelsTypeOK
<1>4. unconnected[1] \in Seq(Channels)
  BY <1>1 DEF UnitsKept, ChannelsTypeOK
<1>5. c \in ToSet(unconnected[1])
  BY <1>2, <1>4, ToSetIs
<1>6. c \notin InUse
  BY <1>1, <1>5, UnconnectedIs
<1> QED
  BY <1>2, <1>3, <1>6, UnitsStay

(* What the receive unit makes of an outcome: nothing, a connection, a     *)
(* failure, or a disconnection; the last whenever a command that did not   *)
(* connect ends with an answer at a channel that is in use.                *)
LEMMA RecordOutcomeIs ==
  ASSUME UnitsKept, NEW c \in Channels, NEW t \in Terminals,
         NEW cmd, NEW outcome, RecordOutcome(cmd, outcome, t, c)
  PROVE  /\ UnitsKept'
         /\ \/ /\ UNCHANGED channelVars /\ InUse' = InUse
               /\ (outcome = "timeout" \/ ConnectFlag(cmd, outcome) \/ c \notin InUse)
            \/ /\ ConnectFlag(cmd, outcome) /\ outcome = "success" /\ cmd = "connect"
               /\ c \notin InUse /\ InUse' = InUse \cup {c}
               /\ tarker' = [tarker EXCEPT ![c] = t] /\ handling' = handling \ {c}
            \/ /\ c \notin InUse /\ InUse' = InUse
               /\ tarker' = [tarker EXCEPT ![c] = NoTerminal] /\ handling' = handling \ {c}
            \/ /\ c \in InUse /\ InUse' = InUse \ {c}
               /\ tarker' = [tarker EXCEPT ![c] = NoTerminal] /\ handling' = handling \ {c}
<1> DEFINE flag == ConnectFlag(cmd, outcome)
<1>1. CASE outcome = "timeout" \/ NotFound(c, flag)
  <2>1. UNCHANGED channelVars
    BY <1>1 DEF RecordOutcome
  <2>2. InUse' = InUse
    BY <2>1 DEF InUse, channelVars
  <2>3. tarker' \in [Channels -> Terminals \cup {NoTerminal}] /\ handling' \subseteq Channels
    BY <2>1 DEF channelVars, UnitsKept, ChannelsTypeOK
  <2>4. UnitsKept'
    BY <2>1, <2>3, UnitsStay DEF channelVars
  <2>5. outcome = "timeout" \/ flag \/ c \notin InUse
    <3> SUFFICES ASSUME outcome # "timeout", ~flag PROVE c \notin InUse
      OBVIOUS
    <3>1. ~Contains(connected[1], c)
      BY <1>1, FirstUnit DEF NotFound
    <3>2. InUse = ToSet(connected[1]) /\ connected[1] \in Seq(Channels)
      BY InUseIs, FirstUnit DEF UnitsKept, ChannelsTypeOK
    <3> QED
      BY <3>1, <3>2, ToSetIs
  <2> QED
    BY <2>1, <2>2, <2>4, <2>5
<1>2. CASE ~(outcome = "timeout" \/ NotFound(c, flag))
  <2>1. \/ flag /\ RecordConnect(c, t)
        \/ ~flag /\ RecordFailure(c)
        \/ ~flag /\ RecordDisconnect(c)
    BY <1>2 DEF RecordOutcome
  <2>2. CASE flag /\ RecordConnect(c, t)
    BY <2>2, RecordConnectIs DEF ConnectFlag
  <2>3. CASE RecordFailure(c)
    BY <2>3, RecordFailureIs
  <2>4. CASE RecordDisconnect(c)
    BY <2>4, RecordDisconnectIs
  <2> QED
    BY <2>1, <2>2, <2>3, <2>4
<1> QED
  BY <1>1, <1>2

-----------------------------------------------------------------------------
(* Requests, queues and machines *)

LEMMA RequestIs ==
  /\ \A t \in Terminals, n \in 0 .. (ByteValues - 1), perms \in SUBSET SysStates, s \in BOOLEAN :
        Req(t, n, perms, s) \in Requests
  /\ \A t, n, perms, s : /\ Req(t, n, perms, s).term = t
                         /\ Req(t, n, perms, s).sent = s
  /\ \A e \in Requests : /\ e.term \in Terminals /\ e.failureTimes \in 0 .. (ByteValues - 1)
                         /\ e.permissions \in SUBSET SysStates /\ e.sent \in BOOLEAN
<1>1. \A t \in Terminals, n \in 0 .. (ByteValues - 1), perms \in SUBSET SysStates, s \in BOOLEAN :
        Req(t, n, perms, s) \in Requests
  BY Zenon DEF Req, Requests
<1>2. \A t, n, perms, s : Req(t, n, perms, s).term = t /\ Req(t, n, perms, s).sent = s
  BY Zenon DEF Req
<1>3. \A e \in Requests : /\ e.term \in Terminals /\ e.failureTimes \in 0 .. (ByteValues - 1)
                          /\ e.permissions \in SUBSET SysStates /\ e.sent \in BOOLEAN
  BY Zenon DEF Requests
<1> QED
  BY <1>1, <1>2, <1>3

LEMMA RevokedIs ==
  ASSUME NEW e \in Requests
  PROVE  Revoked(e) \in Requests /\ Revoked(e).term = e.term /\ Revoked(e).sent = e.sent
<1> DEFINE r == Req(e.term, e.failureTimes, {}, e.sent)
<1>1. {} \in SUBSET SysStates
  OBVIOUS
<1>2. /\ e.term \in Terminals /\ e.failureTimes \in 0 .. (ByteValues - 1) /\ e.sent \in BOOLEAN
  BY RequestIs, Zenon
<1>3. r \in Requests
  BY <1>1, <1>2, RequestIs, Zenon
<1>4. r.term = e.term /\ r.sent = e.sent
  BY Zenon DEF Req
<1> QED
  BY <1>3, <1>4, Zenon DEF Revoked

LEMMA DecrementedIs ==
  ASSUME NEW n \in 0 .. (ByteValues - 1)
  PROVE  Decremented(n) \in 0 .. (ByteValues - 1)
<1>1. ByteValues \in Nat \ {0} /\ n \in Nat
  BY MicManagerAssumption
<1>2. n + ByteValues - 1 \in Int
  BY <1>1
<1> HIDE DEF Decremented
<1>3. (n + ByteValues - 1) % ByteValues \in 0 .. (ByteValues - 1)
  BY <1>1, <1>2
<1> QED
  BY <1>3 DEF Decremented

QueuesOK == reqQ \in [Managers -> [Priors -> Seq(Requests)]]

(* A message goes to the end of a queue; the head of a queue is replaced;  *)
(* it is taken away.                                                       *)
LEMMA AppendedIs ==
  ASSUME NEW S, NEW q \in Seq(S), NEW e \in S
  PROVE  /\ Append(q, e) \in Seq(S) /\ Len(Append(q, e)) = Len(q) + 1
         /\ Append(q, e) # <<>> /\ (q # <<>> => Head(Append(q, e)) = Head(q))
<1>1. /\ Append(q, e) \in Seq(S) /\ Len(Append(q, e)) = Len(q) + 1 /\ Len(q) \in Nat
      /\ \A i \in 1 .. Len(q) : Append(q, e)[i] = q[i]
  BY AppendProperties, LenProperties
<1>2. Append(q, e) # <<>>
  BY <1>1, EmptySeq
<1>3. ASSUME q # <<>> PROVE Head(Append(q, e)) = Head(q)
  <2>1. 1 \in 1 .. Len(q)
    BY <1>1, <1>3, EmptySeq
  <2>2. Head(q) = q[1] /\ Head(Append(q, e)) = Append(q, e)[1]
    BY <1>1, <1>2, <1>3
  <2> QED
    BY <1>1, <2>1, <2>2
<1> QED
  BY <1>1, <1>2, <1>3

LEMMA HeadReplaced ==
  ASSUME NEW S, NEW q \in Seq(S), q # <<>>, NEW e \in S
  PROVE  /\ <<e>> \o Tail(q) \in Seq(S) /\ Len(<<e>> \o Tail(q)) = Len(q)
         /\ <<e>> \o Tail(q) # <<>> /\ Head(<<e>> \o Tail(q)) = e
<1> DEFINE w == <<e>> \o Tail(q)
<1>1. <<e>> \in Seq(S) /\ Len(<<e>>) = 1 /\ <<e>>[1] = e
  OBVIOUS
<1>2. Tail(q) \in Seq(S) /\ Len(Tail(q)) = Len(q) - 1 /\ Len(q) \in Nat \ {0} /\ Len(Tail(q)) \in Nat
  BY HeadTailProperties, EmptySeq, LenProperties
<1>3. /\ w \in Seq(S) /\ Len(w) = 1 + Len(Tail(q))
      /\ \A i \in 1 .. 1 + Len(Tail(q)) : w[i] = IF i <= 1 THEN <<e>>[i] ELSE Tail(q)[i - 1]
  BY <1>1, <1>2, ConcatProperties
<1> HIDE DEF w
<1>4. Len(w) = Len(q) /\ w # <<>> /\ w[1] = e
  BY <1>1, <1>2, <1>3, EmptySeq
<1>5. Head(w) = e
  BY <1>3, <1>4
<1> QED
  BY <1>3, <1>4, <1>5 DEF w

LEMMA TailIs ==
  ASSUME NEW S, NEW q \in Seq(S), q # <<>>
  PROVE  /\ Head(q) \in S /\ Tail(q) \in Seq(S) /\ Len(Tail(q)) = Len(q) - 1
         /\ Len(q) \in Nat \ {0}
         /\ Head(q) = q[1] /\ \A i \in 1 .. (Len(q) - 1) : Tail(q)[i] = q[i + 1]
<1>1. Head(q) = q[1]
  OBVIOUS
<1> QED
  BY <1>1, HeadTailProperties, EmptySeq

(* The loop over the queues stops at the head of the first not empty one.  *)
Ready(m) == {p \in cur[m] .. 2 : reqQ[m][p] # <<>>}

LEMMA ReadyIs ==
  ASSUME QueuesOK, cur \in [Managers -> Priors], NEW m \in Managers, Ready(m) # {}
  PROVE  /\ Min(Ready(m)) \in Priors /\ reqQ[m][Min(Ready(m))] # <<>>
         /\ reqQ[m][cur[m]] # <<>> => Min(Ready(m)) = cur[m]
<1>1. cur[m] \in 0 .. 2
  BY DEF Priors
<1>2. Ready(m) \subseteq {0, 1, 2} /\ \A p \in Ready(m) : cur[m] <= p /\ reqQ[m][p] # <<>>
  BY <1>1 DEF Ready
<1>3. \E p \in Ready(m) : \A r \in Ready(m) : p <= r
  <2>1. CASE 0 \in Ready(m)
    BY <1>2, <2>1
  <2>2. CASE 0 \notin Ready(m) /\ 1 \in Ready(m)
    BY <1>2, <2>2
  <2>3. CASE 0 \notin Ready(m) /\ 1 \notin Ready(m)
    BY <1>2, <2>3
  <2> QED
    BY <2>1, <2>2, <2>3
<1>4. PICK p \in Ready(m) : p = Min(Ready(m)) /\ \A r \in Ready(m) : p <= r
  BY <1>3 DEF Min
<1>5. reqQ[m][cur[m]] # <<>> => cur[m] \in Ready(m)
  BY <1>1 DEF Ready
<1>6. reqQ[m][cur[m]] # <<>> => p = cur[m]
  BY <1>1, <1>2, <1>4, <1>5
<1> QED
  BY <1>2, <1>4, <1>6 DEF Priors

-----------------------------------------------------------------------------
(* The inductive invariant *)

ConnectorWaitsFor(t) ==
  /\ state["CONNECTOR"] = "WAIT"
  /\ Head(reqQ["CONNECTOR"][cur["CONNECTOR"]]).term = t

(* ConnectOutcomeIsOwn without the cardinality: any two commands or events *)
(* of a connect are one.                                                   *)
OneConnect ==
  /\ \A k, l \in inflight : k.cmd = "connect" /\ l.cmd = "connect" => k = l
  /\ \A i, j \in DOMAIN acmpQueue :
        acmpQueue[i].mgr = "CONNECTOR" /\ acmpQueue[j].mgr = "CONNECTOR" => i = j
  /\ \A k \in inflight, i \in DOMAIN acmpQueue :
        ~(k.cmd = "connect" /\ acmpQueue[i].mgr = "CONNECTOR")
  /\ \A k \in inflight : k.cmd = "connect" => ConnectorWaitsFor(k.term)
  /\ \A i \in DOMAIN acmpQueue :
        acmpQueue[i].mgr = "CONNECTOR" => ConnectorWaitsFor(acmpQueue[i].term)

MachinesKept == TypeOK /\ WaitHoldsHead /\ RequestsAccounted /\ OneConnect
IInv == MachinesKept /\ ListsAgree

LEMMA UnitsAre ==
  ASSUME IInv
  PROVE  UnitsKept
  BY DEF IInv, MachinesKept, ListsAgree, TypeOK, ChannelsHeld, UnitsKept

(* Steps that touch neither channels nor commands nor outcomes.            *)
LEMMA ChannelsStay ==
  ASSUME ListsAgree, UNCHANGED <<channelVars, inflight, notifying, recent, acked>>
  PROVE  ListsAgree'
<1> USE DEF channelVars
<1>1. InUse' = InUse /\ Recorded' = Recorded /\ Ending' = Ending /\ ToRecord' = ToRecord
  BY DEF InUse, Recorded, Ending, ToRecord
<1>2. \A t : IsConnected(t)' <=> IsConnected(t)
  BY <1>1 DEF IsConnected
<1>3. CountsAgree'
  BY <1>1 DEF ListsAgree, CountsAgree
<1>4. ChannelsHeld'
  BY <1>1 DEF ListsAgree, ChannelsHeld
<1>5. TalkersApart'
  BY <1>1, <1>2 DEF ListsAgree, TalkersApart
<1>6. AcksAhead' /\ TalkerOnOneChannel'
  BY <1>1 DEF ListsAgree, AcksAhead, TalkerOnOneChannel
<1> QED
  BY <1>3, <1>4, <1>5, <1>6 DEF ListsAgree

(* Steps that leave the heads of the queues to the machines.               *)
LEMMA HeadsStay ==
  ASSUME MachinesKept, UNCHANGED <<state, cur, inflight, acmpQueue>>,
         \A m \in Managers, p \in Priors : reqQ[m][p] # <<>> =>
            /\ reqQ'[m][p] # <<>>
            /\ Head(reqQ'[m][p]).term = Head(reqQ[m][p]).term
            /\ Head(reqQ'[m][p]).sent = Head(reqQ[m][p]).sent
  PROVE  WaitHoldsHead' /\ OneConnect'
<1>1. \A m \in Managers : cur[m] \in Priors
  BY DEF MachinesKept, TypeOK
<1>2. WaitHoldsHead
  BY DEF MachinesKept
<1>3. ASSUME NEW m \in Managers, state'[m] \in {"WAIT", "SUCCESS"} \/ cur'[m] # 0
      PROVE  reqQ'[m][cur'[m]] # <<>> /\ Head(reqQ'[m][cur'[m]]).sent
  <2>1. reqQ[m][cur[m]] # <<>> /\ Head(reqQ[m][cur[m]]).sent
    BY <1>2, <1>3 DEF WaitHoldsHead
  <2>2. cur'[m] = cur[m] /\ cur[m] \in Priors
    BY <1>1
  <2>3. reqQ'[m][cur[m]] # <<>> /\ Head(reqQ'[m][cur[m]]).sent = Head(reqQ[m][cur[m]]).sent
    BY <2>1, <2>2
  <2> QED
    BY <2>1, <2>2, <2>3, Zenon
<1>4. WaitHoldsHead'
  BY <1>3 DEF WaitHoldsHead
<1>5. ASSUME NEW t, ConnectorWaitsFor(t) PROVE ConnectorWaitsFor(t)'
  <2>1. state["CONNECTOR"] = "WAIT" /\ "CONNECTOR" \in Managers
    BY <1>5 DEF ConnectorWaitsFor, Managers
  <2>2. reqQ["CONNECTOR"][cur["CONNECTOR"]] # <<>>
    BY <1>2, <2>1 DEF WaitHoldsHead
  <2> QED
    BY <1>1, <1>5, <2>1, <2>2 DEF ConnectorWaitsFor
<1>6. OneConnect'
  BY <1>5 DEF MachinesKept, OneConnect
<1> QED
  BY <1>4, <1>6

(* TypeOK in groups of variables that change together.                     *)
QueueTypes ==
  QueuesOK /\ \A m \in Managers, p \in Priors : Len(reqQ[m][p]) < QueueSize
MachineTypes ==
  /\ state \in [Managers -> {"FINISH", "WAIT", "SUCCESS", "FAILED"}]
  /\ cur \in [Managers -> Priors]
  /\ recvPc \in Managers \cup {"idle"}
EventTypes == acmpQueue \in Seq(Events) /\ Len(acmpQueue) < QueueSize
CommandTypes ==
  /\ inflight \subseteq Commands /\ recent \subseteq Terminals
  /\ acked \subseteq Terminals \X Channels
NoteTypes ==
  notifying \in {<<>>} \cup {<<[k |-> k, outcome |-> o]>> :
                                k \in Commands, o \in Outcomes}
CountTypes ==
  /\ sysState \in SysStates
  /\ accepted \in [Managers -> Nat] /\ resolved \in [Managers -> Nat]
  /\ direct \in Nat /\ errors \in Nat

LEMMA TypesApart ==
  ASSUME TypeOK
  PROVE  /\ ChannelsTypeOK /\ QueueTypes /\ MachineTypes /\ EventTypes
         /\ CommandTypes /\ NoteTypes /\ CountTypes
         /\ UNCHANGED channelVars => ChannelsTypeOK'
         /\ UNCHANGED reqQ => QueueTypes'
         /\ UNCHANGED <<state, cur, recvPc>> => MachineTypes'
         /\ UNCHANGED acmpQueue => EventTypes'
         /\ UNCHANGED <<inflight, recent, acked>> => CommandTypes'
         /\ UNCHANGED notifying => NoteTypes'
         /\ UNCHANGED <<sysState, accepted, resolved, direct, errors>> => CountTypes'
<1>1. /\ ChannelsTypeOK /\ QueueTypes /\ MachineTypes /\ EventTypes
      /\ CommandTypes /\ NoteTypes /\ CountTypes
  BY DEF TypeOK, QueueTypes, QueuesOK, MachineTypes, EventTypes, CommandTypes, NoteTypes,
         CountTypes
<1>2. UNCHANGED channelVars => ChannelsTypeOK'
  BY <1>1 DEF channelVars, ChannelsTypeOK
<1>3. UNCHANGED reqQ => QueueTypes'
  BY <1>1 DEF QueueTypes, QueuesOK
<1>4. UNCHANGED <<state, cur, recvPc>> => MachineTypes'
  BY <1>1 DEF MachineTypes
<1>5. UNCHANGED acmpQueue => EventTypes'
  BY <1>1 DEF EventTypes
<1>6. UNCHANGED <<inflight, recent, acked>> => CommandTypes'
  BY <1>1 DEF CommandTypes
<1>7. UNCHANGED notifying => NoteTypes'
  BY <1>1 DEF NoteTypes
<1>8. UNCHANGED <<sysState, accepted, resolved, direct, errors>> => CountTypes'
  BY <1>1 DEF CountTypes
<1> QED
  BY <1>1, <1>2, <1>3, <1>4, <1>5, <1>6, <1>7, <1>8

LEMMA TypesTogether ==
  ASSUME ChannelsTypeOK', QueueTypes', MachineTypes', EventTypes',
         CommandTypes', NoteTypes', CountTypes'
  PROVE  TypeOK'
  BY DEF TypeOK, QueueTypes, QueuesOK, MachineTypes, EventTypes, CommandTypes, NoteTypes,
         CountTypes

LEMMA InitKept ==
  ASSUME Init
  PROVE  IInv
<1> USE DEF Init, ChannelsInit
<1>1. \A u \in Units : ChannelsOf[u] \in Seq(Channels)
  BY FirstUnit
<1>2. ChannelsTypeOK
  <2>1. Units = DOMAIN ChannelsOf /\ ChannelsOf \in [Units -> Seq(Channels)]
    <3>1. ChannelsOf \in Seq(Seq(Channels))
      BY RecieveUnitAssumption
    <3> QED
      BY <3>1, LenProperties DEF Units
  <2>2. <<>> \in Seq(Channels)
    OBVIOUS
  <2> QED
    BY <2>1, <2>2 DEF ChannelsTypeOK
<1>3. InUse = {} /\ Recorded = {} /\ Ending = {} /\ ToSet(notifying) = {} /\ ToRecord = {}
  <2>1. ToSet(<<>>) = {} /\ DOMAIN <<>> = {}
    BY DEF ToSet
  <2>2. InUse = {}
    BY <2>1 DEF InUse
  <2>3. Ending = {} /\ ToSet(notifying) = {}
    BY <2>1 DEF Ending
  <2>4. Recorded = {} /\ ToRecord = {}
    BY <2>2, <2>3 DEF Recorded, ToRecord
  <2> QED
    BY <2>2, <2>3, <2>4
<1>4. CountsAgree
  <2>1. ASSUME NEW u \in Units
        PROVE  /\ unitNum[u] = Len(connected[u])
               /\ IsInjective(unconnected[u] \o connected[u])
               /\ ToSet(unconnected[u] \o connected[u]) = ToSet(ChannelsOf[u])
    <3>1. unconnected[u] \o connected[u] = ChannelsOf[u]
      BY <1>1, ConcatEmptySeq
    <3>2. IsInjective(ChannelsOf[u])
      BY RecieveUnitAssumption
    <3> QED
      BY <3>1, <3>2
  <2>2. cnntNum = Cardinality(InUse)
    BY <1>3, FS_EmptySet
  <2> QED
    BY <2>1, <2>2 DEF CountsAgree
<1>5. ChannelsHeld
  BY <1>3 DEF ChannelsHeld
<1>6. TalkersApart /\ AcksAhead /\ TalkerOnOneChannel
  BY <1>3 DEF TalkersApart, AcksAhead, TalkerOnOneChannel
<1>7. /\ QueueSize \in Nat /\ QueueSize > 1
      /\ \A S : <<>> \in Seq(S) /\ Len(<<>>) = 0
  BY MicManagerAssumption
<1>8. TypeOK
  <2>1. \A m \in Managers, p \in Priors : Len(reqQ[m][p]) < QueueSize
    BY <1>7
  <2>2. Len(acmpQueue) < QueueSize /\ acmpQueue \in Seq(Events)
    BY <1>7
  <2>3. reqQ \in [Managers -> [Priors -> Seq(Requests)]]
    BY <1>7
  <2>4. /\ state \in [Managers -> {"FINISH", "WAIT", "SUCCESS", "FAILED"}]
        /\ cur \in [Managers -> Priors]
        /\ recvPc \in Managers \cup {"idle"} /\ sysState \in SysStates
        /\ inflight \subseteq Commands /\ recent \subseteq Terminals
        /\ accepted \in [Managers -> Nat] /\ resolved \in [Managers -> Nat]
        /\ direct \in Nat /\ errors \in Nat /\ acked \subseteq Terminals \X Channels
    BY DEF Priors
  <2>5. notifying \in {<<>>} \cup {<<[k |-> k, outcome |-> o]>> : k \in Commands, o \in Outcomes}
    <3>1. notifying = <<>>
      OBVIOUS
    <3> HIDE DEF Init, ChannelsInit
    <3>2. \A S : notifying \in {<<>>} \cup S
      BY <3>1
    <3> QED
      BY <3>2
  <2> QED
    BY <1>2, <2>1, <2>2, <2>3, <2>4, <2>5 DEF TypeOK
<1>9. WaitHoldsHead /\ RequestsAccounted
  BY <1>7 DEF WaitHoldsHead, RequestsAccounted, Priors
<1>10. OneConnect
  <2>1. DOMAIN acmpQueue = {}
    OBVIOUS
  <2> QED
    BY <2>1 DEF OneConnect
<1> QED
  BY <1>4, <1>5, <1>6, <1>8, <1>9, <1>10 DEF IInv, MachinesKept, ListsAgree

-----------------------------------------------------------------------------
(* The requests of a step that changes one queue still add up.             *)
LEMMA AccountsKept ==
  ASSUME MachinesKept, QueuesOK', NEW m \in Managers, NEW p \in Priors,
         accepted' \in [Managers -> Nat], resolved' \in [Managers -> Nat],
         \A n \in Managers : n # m => accepted'[n] = accepted[n] /\ resolved'[n] = resolved[n],
         \A n \in Managers, r \in Priors :
            (n = m /\ r = p) \/ Len(reqQ'[n][r]) = Len(reqQ[n][r]),
         accepted'[m] + resolved[m] + Len(reqQ[m][p])
            = accepted[m] + resolved'[m] + Len(reqQ'[m][p])
  PROVE  RequestsAccounted'
<1>1. \A n \in Managers, r \in Priors : reqQ[n][r] \in Seq(Requests) /\ reqQ'[n][r] \in Seq(Requests)
  BY DEF MachinesKept, TypeOK, QueuesOK
<1>2. \A n \in Managers, r \in Priors : Len(reqQ[n][r]) \in Nat /\ Len(reqQ'[n][r]) \in Nat
  BY <1>1, LenProperties
<1>3. \A n \in Managers : /\ accepted[n] \in Nat /\ resolved[n] \in Nat
                          /\ accepted'[n] \in Nat /\ resolved'[n] \in Nat
  BY DEF MachinesKept, TypeOK
<1>4. 0 \in Priors /\ 1 \in Priors /\ 2 \in Priors /\ (p = 0 \/ p = 1 \/ p = 2)
  BY DEF Priors
<1>5. \A n \in Managers :
         accepted[n] = resolved[n] + Len(reqQ[n][0]) + Len(reqQ[n][1]) + Len(reqQ[n][2])
  BY DEF MachinesKept, RequestsAccounted
<1>6. ASSUME NEW n \in Managers
      PROVE  accepted'[n] = resolved'[n] + Len(reqQ'[n][0]) + Len(reqQ'[n][1]) + Len(reqQ'[n][2])
  <2>1. PICK a \in Nat, b \in Nat, c \in Nat, x \in Nat, y \in Nat, z \in Nat :
           /\ a = Len(reqQ[n][0]) /\ b = Len(reqQ[n][1]) /\ c = Len(reqQ[n][2])
           /\ x = Len(reqQ'[n][0]) /\ y = Len(reqQ'[n][1]) /\ z = Len(reqQ'[n][2])
    BY <1>2, <1>4
  <2>2. PICK all \in Nat, done \in Nat, all1 \in Nat, done1 \in Nat :
           /\ all = accepted[n] /\ done = resolved[n]
           /\ all1 = accepted'[n] /\ done1 = resolved'[n]
    BY <1>3
  <2>3. all = done + a + b + c
    BY <1>5, <2>1, <2>2
  <2>4. CASE n # m
    <3>1. x = a /\ y = b /\ z = c /\ all1 = all /\ done1 = done
      BY <1>4, <2>1, <2>2, <2>4
    <3>2. all1 = done1 + x + y + z
      BY <2>3, <3>1
    <3> QED
      BY <2>1, <2>2, <3>2
  <2>5. CASE n = m
    <3>1. CASE p = 0
      <4>1. y = b /\ z = c /\ all1 + done + a = all + done1 + x
        BY <1>4, <2>1, <2>2, <2>5, <3>1
      <4>2. all1 = done1 + x + y + z
        BY <2>3, <4>1
      <4> QED
        BY <2>1, <2>2, <4>2
    <3>2. CASE p = 1
      <4>1. x = a /\ z = c /\ all1 + done + b = all + done1 + y
        BY <1>4, <2>1, <2>2, <2>5, <3>2
      <4>2. all1 = done1 + x + y + z
        BY <2>3, <4>1
      <4> QED
        BY <2>1, <2>2, <4>2
    <3>3. CASE p = 2
      <4>1. x = a /\ y = b /\ all1 + done + c = all + done1 + z
        BY <1>4, <2>1, <2>2, <2>5, <3>3
      <4>2. all1 = done1 + x + y + z
        BY <2>3, <4>1
      <4> QED
        BY <2>1, <2>2, <4>2
    <3> QED
      BY <1>4, <3>1, <3>2, <3>3
  <2> QED
    BY <2>4, <2>5
<1> QED
  BY <1>6 DEF RequestsAccounted

(* Terminal_requestConnect, Terminal_requestDisConnect.                    *)
LEMMA RequestStep ==
  ASSUME IInv, NEW m \in Managers, NEW t \in Terminals, NEW perm \in Permissions,
         Request(m, t, perm)
  PROVE  IInv'
<1> DEFINE p == PriorOf[t]
           q == Append(reqQ[m][p], Req(t, MaxFailureTimes, perm, FALSE))
<1> USE DEF IInv
<1>1. TypeOK /\ MachinesKept
  BY DEF MachinesKept
<1>2. /\ p \in Priors /\ MaxFailureTimes \in 0 .. (ByteValues - 1) /\ QueueSize \in Nat
      /\ perm \in SUBSET SysStates
  BY MicManagerAssumption
<1>3. Req(t, MaxFailureTimes, perm, FALSE) \in Requests
  BY <1>2, RequestIs
<1>4. reqQ[m][p] \in Seq(Requests) /\ Len(reqQ[m][p]) \in Nat /\ QueuesOK
  BY <1>1, <1>2, LenProperties DEF TypeOK, QueuesOK
<1>5. /\ q \in Seq(Requests) /\ Len(q) = Len(reqQ[m][p]) + 1
      /\ q # <<>> /\ (reqQ[m][p] # <<>> => Head(q) = Head(reqQ[m][p]))
  BY <1>3, <1>4, AppendedIs
<1>6. /\ Len(reqQ[m][p]) < QueueSize - 1
      /\ reqQ' = [reqQ EXCEPT ![m][p] = q]
      /\ accepted' = [accepted EXCEPT ![m] = @ + 1]
      /\ UNCHANGED <<channelVars, state, cur, acmpQueue, recvPc, sysState,
                     inflight, notifying, recent, resolved, direct, errors, acked>>
  BY DEF Request, Room
<1> HIDE DEF p, q
<1>7. /\ QueuesOK' /\ reqQ'[m][p] = q
      /\ \A n \in Managers, r \in Priors : (n = m /\ r = p) \/ reqQ'[n][r] = reqQ[n][r]
  BY <1>2, <1>4, <1>5, <1>6 DEF QueuesOK
<1>8. \A n \in Managers, r \in Priors : Len(reqQ'[n][r]) < QueueSize
  <2>1. \A n \in Managers, r \in Priors : Len(reqQ[n][r]) < QueueSize
    BY <1>1 DEF TypeOK
  <2>2. Len(reqQ'[m][p]) < QueueSize
    BY <1>2, <1>4, <1>5, <1>6, <1>7
  <2> QED
    BY <1>7, <2>1, <2>2
<1>9. accepted' \in [Managers -> Nat] /\ accepted'[m] = accepted[m] + 1
      /\ resolved \in [Managers -> Nat]
  BY <1>1, <1>6 DEF TypeOK
<1>10. TypeOK'
  <2>1. QueueTypes'
    BY <1>7, <1>8 DEF QueueTypes
  <2>2. CountTypes'
    BY <1>1, <1>6, <1>9, TypesApart DEF CountTypes
  <2> QED
    BY <1>1, <1>6, <2>1, <2>2, TypesApart, TypesTogether
<1>11. WaitHoldsHead' /\ OneConnect'
  <2>1. ASSUME NEW n \in Managers, NEW r \in Priors, reqQ[n][r] # <<>>
        PROVE  reqQ'[n][r] # <<>> /\ Head(reqQ'[n][r]) = Head(reqQ[n][r])
    BY <1>5, <1>7, <2>1
  <2> QED
    BY <1>6, <2>1, HeadsStay
<1>12. RequestsAccounted'
  <2>1. \A n \in Managers : n # m => accepted'[n] = accepted[n] /\ resolved'[n] = resolved[n]
    BY <1>1, <1>6 DEF TypeOK
  <2>2. resolved'[m] = resolved[m] /\ accepted[m] \in Nat /\ resolved[m] \in Nat
    BY <1>1, <1>6 DEF TypeOK
  <2>3. accepted'[m] + resolved[m] + Len(reqQ[m][p])
            = accepted[m] + resolved'[m] + Len(reqQ'[m][p])
    <3>1. PICK a \in Nat, r \in Nat, n \in Nat :
             a = accepted[m] /\ r = resolved[m] /\ n = Len(reqQ[m][p])
      BY <1>4, <2>2
    <3>2. accepted'[m] = a + 1 /\ resolved'[m] = r /\ Len(reqQ'[m][p]) = n + 1
      BY <1>5, <1>7, <1>9, <2>2, <3>1
    <3>3. (a + 1) + r + n = a + r + (n + 1)
      OBVIOUS
    <3> QED
      BY <3>1, <3>2, <3>3, Zenon
  <2>4. resolved' \in [Managers -> Nat]
    BY <1>6, <1>9
  <2> QED
    BY <1>1, <1>2, <1>7, <1>9, <2>1, <2>3, <2>4, AccountsKept
<1>13. ListsAgree'
  BY <1>6, ChannelsStay
<1> QED
  BY <1>10, <1>11, <1>12, <1>13 DEF MachinesKept

(* A step that replaces requests where they are, each by one of the same   *)
(* talker that was sent or not as before.                                  *)
LEMMA RequestsReplaced ==
  ASSUME IInv, QueuesOK',
         \A m \in Managers, p \in Priors :
            /\ Len(reqQ'[m][p]) = Len(reqQ[m][p])
            /\ \A i \in 1 .. Len(reqQ[m][p]) : /\ reqQ'[m][p][i].term = reqQ[m][p][i].term
                                               /\ reqQ'[m][p][i].sent = reqQ[m][p][i].sent,
         UNCHANGED <<channelVars, state, cur, acmpQueue, recvPc, sysState, inflight,
                     notifying, recent, accepted, resolved, direct, errors, acked>>
  PROVE  IInv'
<1> USE DEF IInv
<1>1. TypeOK /\ MachinesKept
  BY DEF MachinesKept
<1>2. \A m \in Managers, p \in Priors : Len(reqQ'[m][p]) < QueueSize
  BY <1>1 DEF TypeOK
<1>3. TypeOK'
  BY <1>1, <1>2, TypesApart, TypesTogether DEF QueueTypes
<1>4. WaitHoldsHead' /\ OneConnect'
  <2>1. ASSUME NEW m \in Managers, NEW p \in Priors, reqQ[m][p] # <<>>
        PROVE  /\ reqQ'[m][p] # <<>>
               /\ Head(reqQ'[m][p]).term = Head(reqQ[m][p]).term
               /\ Head(reqQ'[m][p]).sent = Head(reqQ[m][p]).sent
    <3>1. reqQ[m][p] \in Seq(Requests) /\ reqQ'[m][p] \in Seq(Requests)
      BY <1>1 DEF TypeOK, QueuesOK
    <3>2. Len(reqQ[m][p]) \in Nat \ {0} /\ Len(reqQ'[m][p]) = Len(reqQ[m][p])
      BY <2>1, <3>1, EmptySeq
    <3>3. reqQ'[m][p] # <<>>
      BY <3>1, <3>2, EmptySeq
    <3>4. Head(reqQ'[m][p]) = reqQ'[m][p][1] /\ Head(reqQ[m][p]) = reqQ[m][p][1]
      BY <2>1, <3>1, <3>3
    <3>5. 1 \in 1 .. Len(reqQ[m][p])
      BY <3>2
    <3> QED
      BY <3>3, <3>4, <3>5, Zenon
  <2> QED
    BY <1>1, <2>1, HeadsStay
<1>5. RequestsAccounted'
  <2>1. 0 \in Priors /\ 1 \in Priors /\ 2 \in Priors
    BY DEF Priors
  <2> QED
    BY <1>1, <2>1 DEF MachinesKept, RequestsAccounted
<1>6. ListsAgree'
  BY ChannelsStay
<1> QED
  BY <1>3, <1>4, <1>5, <1>6 DEF MachinesKept

(* Terminal_cancelTask                                                     *)
LEMMA CancelTaskStep ==
  ASSUME IInv, NEW m \in Managers, NEW t \in Terminals, CancelTask(m, t)
  PROVE  IInv'
<1> DEFINE p == PriorOf[t]
           q == reqQ[m][p]
           found == {i \in DOMAIN q : q[i].term = t}
<1>1. /\ QueuesOK /\ p \in Priors /\ q \in Seq(Requests)
      /\ DOMAIN q = 1 .. Len(q) /\ Len(q) \in Nat
  BY MicManagerAssumption, LenProperties DEF IInv, MachinesKept, TypeOK, QueuesOK
<1>2. /\ found # {}
      /\ reqQ' = [reqQ EXCEPT ![m][p][Min(found)] = Revoked(@)]
      /\ UNCHANGED <<channelVars, state, cur, acmpQueue, recvPc, sysState, inflight,
                     notifying, recent, accepted, resolved, direct, errors, acked>>
  BY DEF CancelTask
<1>3. PICK i \in 1 .. Len(q) : i = Min(found)
  <2>1. found \subseteq Nat /\ found # {}
    BY <1>1, <1>2
  <2>2. \E i \in found : \A j \in found : i <= j
    BY <2>1, LeastNumber
  <2> QED
    BY <1>1, <2>2 DEF Min
<1>4. q[i] \in Requests
  BY <1>1, ElementOfSeq
<1> DEFINE r == [q EXCEPT ![i] = Revoked(q[i])]
<1>5. /\ r \in Seq(Requests) /\ Len(r) = Len(q)
      /\ \A j \in 1 .. Len(q) : r[j] = IF j = i THEN Revoked(q[i]) ELSE q[j]
  BY <1>1, <1>4, RevokedIs, ExceptSeq
<1>6. reqQ' = [reqQ EXCEPT ![m][p] = r]
  BY <1>1, <1>2, <1>3 DEF QueuesOK
<1> HIDE DEF r
<1>7. /\ QueuesOK' /\ reqQ'[m][p] = r
      /\ \A n \in Managers, u \in Priors : (n = m /\ u = p) \/ reqQ'[n][u] = reqQ[n][u]
  BY <1>1, <1>5, <1>6 DEF QueuesOK
<1>8. \A j \in 1 .. Len(q) : r[j].term = q[j].term /\ r[j].sent = q[j].sent
  <2> TAKE j \in 1 .. Len(q)
  <2>1. CASE j = i
    <3>1. r[j] = Revoked(q[i])
      BY <1>5, <2>1
    <3> QED
      BY <1>4, <2>1, <3>1, RevokedIs, Zenon
  <2>2. CASE j # i
    <3>1. r[j] = q[j]
      BY <1>5, <2>2
    <3> QED
      BY <3>1, Zenon
  <2> QED
    BY <2>1, <2>2
<1>9. ASSUME NEW n \in Managers, NEW u \in Priors
      PROVE  /\ Len(reqQ'[n][u]) = Len(reqQ[n][u])
             /\ \A j \in 1 .. Len(reqQ[n][u]) : /\ reqQ'[n][u][j].term = reqQ[n][u][j].term
                                                /\ reqQ'[n][u][j].sent = reqQ[n][u][j].sent
  <2>1. CASE n = m /\ u = p
    <3>1. reqQ'[n][u] = r /\ reqQ[n][u] = q
      BY <1>7, <2>1
    <3> HIDE DEF q
    <3> QED
      BY <1>5, <1>8, <3>1, Zenon
  <2>2. CASE ~(n = m /\ u = p)
    <3>1. reqQ'[n][u] = reqQ[n][u]
      BY <1>7, <2>2
    <3> QED
      BY <3>1, Zenon
  <2> QED
    BY <2>1, <2>2
<1> QED
  BY <1>2, <1>7, <1>9, RequestsReplaced

(* Terminal_cancelAllTask                                                  *)
LEMMA CancelAllTaskStep ==
  ASSUME IInv, CancelAllTask
  PROVE  IInv'
<1>1. QueuesOK
  BY DEF IInv, MachinesKept, TypeOK, QueuesOK
<1>2. /\ reqQ' = [m \in Managers |-> [p \in Priors |->
                    [i \in DOMAIN reqQ[m][p] |-> Revoked(reqQ[m][p][i])]]]
      /\ UNCHANGED <<channelVars, state, cur, acmpQueue, recvPc, sysState, inflight,
                     notifying, recent, accepted, resolved, direct, errors, acked>>
  BY DEF CancelAllTask
<1>3. ASSUME NEW m \in Managers, NEW p \in Priors
      PROVE  /\ reqQ'[m][p] \in Seq(Requests)
             /\ Len(reqQ'[m][p]) = Len(reqQ[m][p])
             /\ \A i \in 1 .. Len(reqQ[m][p]) : reqQ'[m][p][i] = Revoked(reqQ[m][p][i])
  <2>1. /\ reqQ[m][p] \in Seq(Requests) /\ Len(reqQ[m][p]) \in Nat
        /\ DOMAIN reqQ[m][p] = 1 .. Len(reqQ[m][p])
    BY <1>1, LenProperties DEF QueuesOK
  <2>2. \A i \in 1 .. Len(reqQ[m][p]) : reqQ[m][p][i] \in Requests
    BY <2>1, ElementOfSeq
  <2>3. \A i \in 1 .. Len(reqQ[m][p]) : Revoked(reqQ[m][p][i]) \in Requests
    BY <2>2, RevokedIs
  <2>4. reqQ'[m][p] = [i \in 1 .. Len(reqQ[m][p]) |-> Revoked(reqQ[m][p][i])]
    BY <1>2, <2>1
  <2> QED
    BY <2>1, <2>3, <2>4
<1>4. \A m \in Managers, p \in Priors : \A i \in 1 .. Len(reqQ[m][p]) :
         reqQ[m][p][i] \in Requests
  BY <1>1, ElementOfSeq DEF QueuesOK
<1>5. \A m \in Managers, p \in Priors : \A i \in 1 .. Len(reqQ[m][p]) :
         /\ reqQ'[m][p][i].term = reqQ[m][p][i].term
         /\ reqQ'[m][p][i].sent = reqQ[m][p][i].sent
  BY <1>3, <1>4, RevokedIs, Zenon
<1>6. QueuesOK'
  <2>1. reqQ' \in [Managers -> [Priors -> Seq(Requests)]]
    BY <1>2, <1>3
  <2> QED
    BY <2>1 DEF QueuesOK
<1> QED
  BY <1>2, <1>3, <1>5, <1>6, RequestsReplaced

-----------------------------------------------------------------------------
(* Steps that move nothing: SetSysState, Tick, and a pass that finds no    *)
(* request or keeps waiting.                                               *)
LEMMA QuietStep ==
  ASSUME IInv, recvPc' \in Managers \cup {"idle"}, sysState' \in SysStates,
         UNCHANGED <<channelVars, state, cur, reqQ, acmpQueue, inflight, notifying,
                     recent, accepted, resolved, direct, errors, acked>>
  PROVE  IInv'
<1> USE DEF IInv
<1>1. TypeOK /\ MachinesKept
  BY DEF MachinesKept
<1>2. TypeOK'
  <2>1. MachineTypes'
    BY <1>1, TypesApart DEF MachineTypes
  <2>2. CountTypes'
    BY <1>1, TypesApart DEF CountTypes
  <2> QED
    BY <1>1, <2>1, <2>2, TypesApart, TypesTogether
<1>3. WaitHoldsHead' /\ OneConnect'
  BY <1>1, HeadsStay
<1>4. RequestsAccounted'
  BY <1>1 DEF MachinesKept, RequestsAccounted
<1>5. ListsAgree'
  BY ChannelsStay
<1> QED
  BY <1>2, <1>3, <1>4, <1>5 DEF MachinesKept

LEMMA SetSysStateStep ==
  ASSUME IInv, NEW s \in SysStates, SetSysState(s)
  PROVE  IInv'
<1>1. recvPc' \in Managers \cup {"idle"}
  BY DEF SetSysState, IInv, MachinesKept, TypeOK
<1>2. /\ sysState' \in SysStates
      /\ UNCHANGED <<channelVars, state, cur, reqQ, acmpQueue, inflight, notifying,
                     recent, accepted, resolved, direct, errors, acked>>
  BY DEF SetSysState
<1> QED
  BY <1>1, <1>2, QuietStep

LEMMA TickStep ==
  ASSUME IInv, Tick
  PROVE  IInv'
<1>1. recvPc' \in Managers \cup {"idle"}
  BY DEF Tick, Managers
<1>2. sysState' \in SysStates
  BY DEF Tick, IInv, MachinesKept, TypeOK
<1>3. UNCHANGED <<channelVars, state, cur, reqQ, acmpQueue, inflight, notifying,
                  recent, accepted, resolved, direct, errors, acked>>
  BY DEF Tick
<1> QED
  BY <1>1, <1>2, <1>3, QuietStep

(* An event moves the machine of its kind if it waits.                     *)
LEMMA ReceiveEventStep ==
  ASSUME IInv, ReceiveEvent
  PROVE  IInv'
<1> DEFINE e == Head(acmpQueue)
<1> USE DEF IInv
<1>1. TypeOK /\ MachinesKept
  BY DEF MachinesKept
<1>2. /\ acmpQueue # <<>> /\ state' = AfterEvent(e) /\ acmpQueue' = Tail(acmpQueue)
      /\ recvPc' = "DISCONNECTOR"
      /\ UNCHANGED <<channelVars, cur, reqQ, sysState, inflight, notifying, recent,
                     accepted, resolved, direct, errors, acked>>
  BY DEF ReceiveEvent
<1>3. acmpQueue \in Seq(Events) /\ Len(acmpQueue) < QueueSize /\ QueueSize \in Nat
  BY <1>1, MicManagerAssumption DEF TypeOK
<1>4. /\ Tail(acmpQueue) \in Seq(Events) /\ Len(Tail(acmpQueue)) = Len(acmpQueue) - 1
      /\ Len(acmpQueue) \in Nat \ {0} /\ e = acmpQueue[1]
      /\ \A i \in 1 .. (Len(acmpQueue) - 1) : Tail(acmpQueue)[i] = acmpQueue[i + 1]
  BY <1>2, <1>3, TailIs
<1>5. /\ DOMAIN acmpQueue = 1 .. Len(acmpQueue)
      /\ DOMAIN acmpQueue' = 1 .. (Len(acmpQueue) - 1)
  BY <1>2, <1>3, <1>4, LenProperties
<1>6. ASSUME NEW m \in Managers
      PROVE  /\ state[m] = "WAIT" /\ e.mgr = m => state'[m] \in {"SUCCESS", "FAILED"}
             /\ state[m] = "WAIT" /\ e.mgr # m => state'[m] = "WAIT"
             /\ state[m] # "WAIT" => state'[m] = state[m]
  BY <1>2, Zenon DEF AfterEvent
<1>7. TypeOK'
  <2>1. EventTypes'
    BY <1>2, <1>3, <1>4 DEF EventTypes
  <2>2. MachineTypes'
    <3>1. state' \in [Managers -> {"FINISH", "WAIT", "SUCCESS", "FAILED"}]
      <4>1. state' = [m \in Managers |-> state'[m]]
        BY <1>2, Zenon DEF AfterEvent
      <4>2. \A m \in Managers : state[m] \in {"FINISH", "WAIT", "SUCCESS", "FAILED"}
        BY <1>1 DEF TypeOK
      <4>3. \A m \in Managers : state'[m] \in {"FINISH", "WAIT", "SUCCESS", "FAILED"}
        BY <1>6, <4>2
      <4> QED
        BY <4>1, <4>3
    <3>2. recvPc' \in Managers
      BY <1>2 DEF Managers
    <3> QED
      BY <1>1, <1>2, <3>1, <3>2, TypesApart DEF MachineTypes
  <2> QED
    BY <1>1, <1>2, <2>1, <2>2, TypesApart, TypesTogether
<1>8. WaitHoldsHead'
  <2>1. ASSUME NEW m \in Managers, state'[m] \in {"WAIT", "SUCCESS"} \/ cur'[m] # 0
        PROVE  state[m] \in {"WAIT", "SUCCESS"} \/ cur[m] # 0
    BY <1>2, <1>6, <2>1
  <2>2. WaitHoldsHead
    BY <1>1 DEF MachinesKept
  <2> QED
    BY <1>2, <2>1, <2>2 DEF WaitHoldsHead
<1>9. OneConnect'
  <2>1. OneConnect /\ "CONNECTOR" \in Managers
    BY <1>1 DEF MachinesKept, Managers
  <2>2. 1 \in DOMAIN acmpQueue /\ e = acmpQueue[1]
    BY <1>4, <1>5
  <2>3. \A i \in DOMAIN acmpQueue' : i + 1 \in DOMAIN acmpQueue /\ acmpQueue'[i] = acmpQueue[i + 1]
    BY <1>2, <1>4, <1>5
  <2>4. \A i \in DOMAIN acmpQueue' : i \in Nat /\ i + 1 # 1
    BY <1>4, <1>5
  <2>5. CASE e.mgr = "CONNECTOR"
    <3>1. \A k \in inflight : k.cmd # "connect"
      BY <2>1, <2>2, <2>5 DEF OneConnect
    <3>2. \A i \in DOMAIN acmpQueue' : acmpQueue'[i].mgr # "CONNECTOR"
      BY <2>1, <2>2, <2>3, <2>4, <2>5 DEF OneConnect
    <3> QED
      BY <1>2, <3>1, <3>2 DEF OneConnect
  <2>6. CASE e.mgr # "CONNECTOR"
    <3>1. \A t : ConnectorWaitsFor(t) =>
                  /\ state'["CONNECTOR"] = "WAIT"
                  /\ Head(reqQ'["CONNECTOR"][cur'["CONNECTOR"]]).term = t
      BY <1>2, <1>6, <2>1, <2>6 DEF ConnectorWaitsFor
    <3>2. \A i, j \in DOMAIN acmpQueue' :
             acmpQueue'[i].mgr = "CONNECTOR" /\ acmpQueue'[j].mgr = "CONNECTOR" => i = j
      <4> TAKE i, j \in DOMAIN acmpQueue'
      <4>1. acmpQueue'[i].mgr = "CONNECTOR" /\ acmpQueue'[j].mgr = "CONNECTOR" => i + 1 = j + 1
        BY <2>1, <2>3 DEF OneConnect
      <4> QED
        BY <2>4, <4>1
    <3>3. \A k \in inflight, i \in DOMAIN acmpQueue' :
             ~(k.cmd = "connect" /\ acmpQueue'[i].mgr = "CONNECTOR")
      BY <2>1, <2>3 DEF OneConnect
    <3>4. \A k \in inflight : k.cmd = "connect" =>
             /\ state'["CONNECTOR"] = "WAIT"
             /\ Head(reqQ'["CONNECTOR"][cur'["CONNECTOR"]]).term = k.term
      BY <2>1, <3>1 DEF OneConnect
    <3>5. \A i \in DOMAIN acmpQueue' : acmpQueue'[i].mgr = "CONNECTOR" =>
             /\ state'["CONNECTOR"] = "WAIT"
             /\ Head(reqQ'["CONNECTOR"][cur'["CONNECTOR"]]).term = acmpQueue'[i].term
      BY <2>1, <2>3, <3>1 DEF OneConnect
    <3>6. \A k, l \in inflight : k.cmd = "connect" /\ l.cmd = "connect" => k = l
      BY <2>1 DEF OneConnect
    <3> QED
      BY <1>2, <3>2, <3>3, <3>4, <3>5, <3>6 DEF OneConnect, ConnectorWaitsFor
  <2> QED
    BY <2>5, <2>6
<1>10. RequestsAccounted'
  BY <1>1, <1>2 DEF MachinesKept, RequestsAccounted
<1>11. ListsAgree'
  BY <1>2, ChannelsStay
<1> QED
  BY <1>7, <1>8, <1>9, <1>10, <1>11 DEF MachinesKept

-----------------------------------------------------------------------------
(* Commands and outcomes *)

LEMMA CommandIs ==
  /\ \A k \in Commands : /\ k.cmd \in {"connect", "disconnect"}
                         /\ k.term \in Terminals /\ k.chan \in Channels
  /\ \A t \in Terminals, c \in Channels, cmd \in {"connect", "disconnect"} :
        LET k == [cmd |-> cmd, term |-> t, chan |-> c]
        IN k \in Commands /\ k.cmd = cmd /\ k.term = t /\ k.chan = c
  BY DEF Commands

(* At most one outcome is being told.                                      *)
LEMMA NoteIs ==
  ASSUME NoteTypes
  PROVE  \/ notifying = <<>> /\ ToSet(notifying) = {} /\ Ending = {} /\ DOMAIN notifying = {}
         \/ /\ notifying # <<>> /\ DOMAIN notifying = {1}
            /\ \E k \in Commands, o \in Outcomes :
                 /\ notifying = <<[k |-> k, outcome |-> o]>> /\ Ending = {k}
                 /\ ToSet(notifying) = {[k |-> k, outcome |-> o]}
                 /\ notifying[1].k = k /\ notifying[1].outcome = o
                 /\ Head(notifying).k = k /\ Head(notifying).outcome = o
<1>1. notifying = <<>> \/ notifying \in {<<[k |-> k, outcome |-> o]>> : k \in Commands, o \in Outcomes}
  <2>1. \A S : notifying \in {<<>>} \cup S => notifying = <<>> \/ notifying \in S
    OBVIOUS
  <2> QED
    BY <2>1 DEF NoteTypes
<1>2. CASE notifying = <<>>
  BY <1>2 DEF Ending, ToSet
<1>3. CASE notifying \in {<<[k |-> k, outcome |-> o]>> : k \in Commands, o \in Outcomes}
  <2>1. PICK k \in Commands, o \in Outcomes : notifying = <<[k |-> k, outcome |-> o]>>
    BY <1>3
  <2> DEFINE n == [k |-> k, outcome |-> o]
  <2>2. n.k = k /\ n.outcome = o
    OBVIOUS
  <2> HIDE DEF n
  <2>3. notifying = <<n>>
    BY <2>1 DEF n
  <2>4. DOMAIN notifying = {1} /\ notifying[1] = n /\ Head(notifying) = n /\ notifying # <<>>
    BY <2>3
  <2>5. ToSet(notifying) = {n}
    BY <2>4 DEF ToSet
  <2>6. Ending = {k}
    BY <2>2, <2>4 DEF Ending
  <2> QED
    BY <2>1, <2>2, <2>3, <2>4, <2>5, <2>6 DEF n
<1> QED
  BY <1>1, <1>2, <1>3

LEMMA NotesAre ==
  ASSUME NoteTypes
  PROVE  /\ \A n \in ToSet(notifying) : n.k \in Commands /\ n.outcome \in Outcomes /\ n.k \in Ending
         /\ \A i \in DOMAIN notifying : notifying[i] \in ToSet(notifying)
         /\ Ending = {n.k : n \in ToSet(notifying)}
<1>1. CASE notifying = <<>> /\ ToSet(notifying) = {} /\ Ending = {} /\ DOMAIN notifying = {}
  BY <1>1
<1>2. CASE notifying # <<>>
  <2>1. PICK k \in Commands, o \in Outcomes :
           /\ ToSet(notifying) = {[k |-> k, outcome |-> o]} /\ Ending = {k}
    BY <1>2, NoteIs
  <2>2. \A n \in ToSet(notifying) : n.k = k /\ n.outcome = o
    BY <2>1
  <2>3. \A i \in DOMAIN notifying : notifying[i] \in ToSet(notifying)
    BY DEF ToSet
  <2> QED
    BY <2>1, <2>2, <2>3
<1> QED
  BY <1>1, <1>2, NoteIs

LEMMA ConnectedIs ==
  ASSUME UnitsKept, NEW t
  PROVE  IsConnected(t) <=> \E c \in InUse : tarker[c] = t
<1>1. InUse \subseteq Channels
  BY InUseIs DEF UnitsKept
<1> QED
  BY <1>1 DEF IsConnected, Recorded

LEMMA RecordedIs ==
  /\ \A s \in Recorded : s[2] \in InUse /\ s = <<tarker[s[2]], s[2]>>
  /\ \A c \in InUse : <<tarker[c], c>> \in Recorded
  BY DEF Recorded

(* A channel that may be given to a talker is free, one that may be taken  *)
(* from it is in use; nothing else holds it.                               *)
LEMMA AvailableIs ==
  ASSUME UnitsKept, NEW c \in Available
  PROVE  c \in Channels /\ c \notin handling /\ c \notin InUse
<1>1. PICK u \in Units : c = Head(unconnected[u]) /\ unconnected[u] # <<>> /\ c \notin handling
  BY DEF Available
<1>2. unconnected[u] \in Seq(Channels)
  BY DEF UnitsKept, ChannelsTypeOK
<1>3. c \in Channels /\ c = unconnected[u][1] /\ Len(unconnected[u]) \in Nat \ {0}
  BY <1>1, <1>2, TailIs
<1>4. c \in ToSet(unconnected[u])
  BY <1>2, <1>3, ToSetIs
<1> QED
  BY <1>1, <1>3, <1>4, UnconnectedIs

LEMMA UntalkableIs ==
  ASSUME NEW t, NEW c \in Untalkable(t)
  PROVE  c \in Channels /\ c \notin handling /\ c \in InUse /\ tarker[c] = t
  BY DEF Untalkable, Recorded

(* A command is sent: a connect for a talker that is not connected, not    *)
(* protected and has no other, or a disconnect of a channel in use.        *)
LEMMA CommandSent ==
  ASSUME IInv, NEW k \in Commands, k.chan \notin handling,
         k.cmd = "connect" <=> k.chan \notin InUse,
         k.cmd = "connect" => /\ ~IsConnected(k.term) /\ k.term \notin recent
                              /\ \A l \in inflight : l.cmd # "connect",
         Handle(k.chan), inflight' = inflight \cup {k},
         UNCHANGED <<notifying, recent, acked>>
  PROVE  ListsAgree' /\ ChannelsTypeOK' /\ CommandTypes'
<1>1. /\ TypeOK /\ ChannelsHeld /\ TalkersApart /\ AcksAhead /\ TalkerOnOneChannel
      /\ UnitsKept /\ NoteTypes
  BY UnitsAre, TypesApart DEF IInv, MachinesKept, ListsAgree
<1>2. /\ handling' = handling \cup {k.chan} /\ k.chan \in Channels /\ k.term \in Terminals
      /\ k.cmd \in {"connect", "disconnect"}
      /\ UNCHANGED <<unconnected, connected, tarker, unitNum, cnntNum>>
  BY CommandIs DEF Handle
<1>3. /\ tarker' \in [Channels -> Terminals \cup {NoTerminal}] /\ handling' \subseteq Channels
      /\ handling \subseteq Channels
  BY <1>1, <1>2 DEF UnitsKept, ChannelsTypeOK
<1>4. UnitsKept' /\ InUse' = InUse
  BY <1>1, <1>2, <1>3, UnitsStay
<1>5. CommandTypes'
  BY <1>1, <1>2, TypesApart DEF CommandTypes
<1>6. Ending' = Ending /\ Recorded' = Recorded
  BY <1>2, <1>4 DEF Ending, Recorded
<1>7. \A t : IsConnected(t)' <=> IsConnected(t)
  BY <1>6 DEF IsConnected
<1>8. \A l \in inflight \cup Ending : l.chan \in handling /\ l.chan # k.chan /\ l # k
  BY <1>1 DEF ChannelsHeld
<1>9. ChannelsHeld'
  <2>1. inflight' \cup Ending' = (inflight \cup Ending) \cup {k}
    BY <1>6
  <2>2. ASSUME NEW l \in inflight' \cup Ending'
        PROVE  l.chan \in handling' /\ (l.cmd = "connect" <=> l.chan \notin InUse')
    <3>1. CASE l = k
      BY <1>2, <1>4, <3>1
    <3>2. CASE l \in inflight \cup Ending
      BY <1>1, <1>2, <1>4, <3>2 DEF ChannelsHeld
    <3> QED
      BY <2>1, <3>1, <3>2
  <2>3. ASSUME NEW l \in inflight' \cup Ending', NEW j \in inflight' \cup Ending', l.chan = j.chan
        PROVE  l = j
    BY <1>1, <1>8, <2>1, <2>3 DEF ChannelsHeld
  <2>4. inflight' \cap Ending' = {}
    BY <1>1, <1>6, <1>8 DEF ChannelsHeld
  <2>5. /\ \A u \in Units \ SearchedUnits : connected'[u] = <<>>
        /\ \A c \in InUse' : tarker'[c] # NoTerminal
    BY <1>1, <1>2, <1>4 DEF ChannelsHeld
  <2> QED
    BY <2>2, <2>3, <2>4, <2>5 DEF ChannelsHeld
<1>10. TalkersApart'
  <2>1. CASE k.cmd # "connect"
    <3>1. ToRecord' = ToRecord
      BY <2>1 DEF ToRecord
    <3>2. \A l \in ToRecord : l \in inflight' \/ l.term \in recent'
      BY <1>1 DEF TalkersApart
    <3> QED
      BY <1>1, <1>7, <3>1, <3>2 DEF TalkersApart
  <2>2. CASE k.cmd = "connect"
    <3>1. ToRecord' = ToRecord \cup {k}
      BY <2>2 DEF ToRecord
    <3>2. \A l \in ToRecord : l.term \in recent
      <4> SUFFICES ASSUME NEW l \in ToRecord PROVE l \notin inflight
        BY <1>1 DEF TalkersApart
      <4>1. CASE l.cmd = "connect"
        BY <2>2, <4>1
      <4>2. CASE l.cmd # "connect"
        BY <4>2 DEF ToRecord, Connects
      <4> QED
        BY <4>1, <4>2
    <3>3. \A l \in ToRecord : l.term # k.term
      BY <2>2, <3>2
    <3>4. ASSUME NEW l \in ToRecord' PROVE ~IsConnected(l.term)
      BY <1>1, <2>2, <3>1 DEF TalkersApart
    <3>5. ASSUME NEW l \in ToRecord', NEW j \in ToRecord', l.term = j.term PROVE l = j
      BY <1>1, <3>1, <3>3, <3>5 DEF TalkersApart
    <3>6. ASSUME NEW l \in ToRecord' PROVE l \in inflight' \/ l.term \in recent'
      BY <1>1, <3>1 DEF TalkersApart
    <3> QED
      BY <1>7, <3>4, <3>5, <3>6 DEF TalkersApart
  <2> QED
    BY <2>1, <2>2
<1>11. AcksAhead' /\ TalkerOnOneChannel'
  BY <1>1, <1>6 DEF AcksAhead, TalkerOnOneChannel
<1> QED
  BY <1>4, <1>5, <1>9, <1>10, <1>11 DEF ListsAgree, UnitsKept

(* trans_model_unit_disconnect called outside the manager.                 *)
LEMMA DirectDisconnectStep ==
  ASSUME IInv, NEW t \in Terminals, DirectDisconnect(t)
  PROVE  IInv'
<1> USE DEF IInv
<1>1. TypeOK /\ MachinesKept
  BY DEF MachinesKept
<1>2. PICK c \in Untalkable(t) :
        /\ Handle(c)
        /\ inflight' = inflight \cup {[cmd |-> "disconnect", term |-> t, chan |-> c]}
  BY DEF DirectDisconnect
<1>3. /\ direct' = direct + 1
      /\ UNCHANGED <<state, cur, reqQ, acmpQueue, recvPc, sysState, notifying, recent,
                     accepted, resolved, errors, acked>>
  BY DEF DirectDisconnect
<1>4. c \in Channels /\ c \notin handling /\ c \in InUse
  BY UntalkableIs
<1> DEFINE k == [cmd |-> "disconnect", term |-> t, chan |-> c]
<1>5. k \in Commands /\ k.cmd = "disconnect" /\ k.term = t /\ k.chan = c
  BY <1>4 DEF Commands
<1>6. ListsAgree' /\ ChannelsTypeOK' /\ CommandTypes'
  <2>1. inflight' = inflight \cup {k}
    BY <1>2
  <2> HIDE DEF k
  <2> QED
    BY <1>2, <1>3, <1>4, <1>5, <2>1, CommandSent
<1>7. TypeOK'
  <2>1. CountTypes'
    BY <1>1, <1>3, TypesApart DEF CountTypes
  <2> QED
    BY <1>1, <1>3, <1>6, <2>1, TypesApart, TypesTogether
<1>8. WaitHoldsHead' /\ RequestsAccounted'
  BY <1>1, <1>3 DEF MachinesKept, WaitHoldsHead, RequestsAccounted
<1>9. OneConnect'
  <2>1. OneConnect /\ inflight' = inflight \cup {k} /\ k.cmd # "connect"
    BY <1>1, <1>2, <1>5 DEF MachinesKept
  <2> QED
    BY <1>3, <2>1 DEF OneConnect, ConnectorWaitsFor
<1> QED
  BY <1>6, <1>7, <1>8, <1>9 DEF MachinesKept

(* The protection of an output channel ends.                               *)
LEMMA ProtectionExpiresStep ==
  ASSUME IInv, NEW t \in Terminals, ProtectionExpires(t)
  PROVE  IInv'
<1> USE DEF IInv
<1>1. TypeOK /\ MachinesKept /\ ListsAgree
  BY DEF MachinesKept
<1>2. /\ \A i \in DOMAIN notifying : notifying[i].k.term # t
      /\ recent' = recent \ {t}
      /\ UNCHANGED <<channelVars, state, cur, reqQ, acmpQueue, recvPc, sysState,
                     inflight, notifying, accepted, resolved, direct, errors, acked>>
  BY DEF ProtectionExpires
<1>3. TypeOK'
  <2>1. CommandTypes'
    BY <1>1, <1>2, TypesApart DEF CommandTypes
  <2> QED
    BY <1>1, <1>2, <2>1, TypesApart, TypesTogether
<1>4. WaitHoldsHead' /\ OneConnect'
  BY <1>1, <1>2, HeadsStay
<1>5. RequestsAccounted'
  BY <1>1, <1>2 DEF MachinesKept, RequestsAccounted
<1>6. InUse' = InUse /\ Recorded' = Recorded /\ Ending' = Ending /\ ToRecord' = ToRecord
  BY <1>2 DEF InUse, Recorded, Ending, ToRecord, channelVars
<1>7. \A x : IsConnected(x)' <=> IsConnected(x)
  BY <1>6 DEF IsConnected
<1>8. CountsAgree' /\ AcksAhead' /\ TalkerOnOneChannel'
  BY <1>1, <1>2, <1>6 DEF ListsAgree, CountsAgree, AcksAhead, TalkerOnOneChannel, channelVars
<1>9. ChannelsHeld'
  BY <1>1, <1>2, <1>6 DEF ListsAgree, ChannelsHeld, channelVars
<1>10. TalkersApart'
  <2>1. ASSUME NEW k \in ToRecord PROVE k \in inflight \/ k.term \in recent'
    <3>1. CASE k \in inflight
      BY <3>1
    <3>2. CASE k \notin inflight
      <4>1. PICK n \in ToSet(notifying) : k = n.k
        BY <3>2 DEF ToRecord
      <4>2. k.term # t
        BY <1>2, <4>1 DEF ToSet
      <4> QED
        BY <1>1, <1>2, <3>2, <4>2 DEF ListsAgree, TalkersApart
    <3> QED
      BY <3>1, <3>2
  <2> QED
    BY <1>1, <1>2, <1>6, <1>7, <2>1 DEF ListsAgree, TalkersApart
<1> QED
  BY <1>3, <1>4, <1>5, <1>8, <1>9, <1>10 DEF MachinesKept, ListsAgree

-----------------------------------------------------------------------------
(* A pass over the queues of a machine *)

LEMMA SumIs ==
  \A a, d, l, d1, l1 \in Nat : d1 + l1 = d + l => a + d + l = a + d1 + l1
  OBVIOUS

(* The machine m is left in state s at queue r, the head of queue p        *)
(* replaced or ended.                                                      *)
LEMMA MachineMoves ==
  ASSUME IInv, ChannelsTypeOK', CommandTypes',
         NEW m \in Managers, NEW p \in Priors,
         NEW q \in Seq(Requests), reqQ' = [reqQ EXCEPT ![m][p] = q],
         NEW s \in {"FINISH", "WAIT", "SUCCESS", "FAILED"}, state' = [state EXCEPT ![m] = s],
         NEW r \in Priors, cur' = [cur EXCEPT ![m] = r],
         s \in {"WAIT", "SUCCESS"} \/ r # 0 => r = p /\ q # <<>> /\ Head(q).sent,
         resolved' \in [Managers -> Nat],
         \A n \in Managers : n # m => resolved'[n] = resolved[n],
         resolved'[m] + Len(q) = resolved[m] + Len(reqQ[m][p]),
         Len(q) <= Len(reqQ[m][p]),
         recvPc' \in Managers \cup {"idle"},
         UNCHANGED <<acmpQueue, sysState, notifying, accepted, direct, errors>>
  PROVE  TypeOK' /\ WaitHoldsHead' /\ RequestsAccounted'
<1> USE DEF IInv
<1>1. TypeOK /\ MachinesKept /\ WaitHoldsHead /\ QueuesOK
  <2>1. TypeOK /\ MachinesKept /\ WaitHoldsHead
    BY DEF MachinesKept
  <2> QED
    BY <2>1, TypesApart DEF QueueTypes
<1>2. /\ QueuesOK' /\ reqQ'[m][p] = q
      /\ \A n \in Managers, u \in Priors : (n = m /\ u = p) \/ reqQ'[n][u] = reqQ[n][u]
  BY <1>1 DEF QueuesOK
<1>3. /\ state'[m] = s /\ cur'[m] = r
      /\ \A n \in Managers : n # m => state'[n] = state[n] /\ cur'[n] = cur[n]
      /\ state' \in [Managers -> {"FINISH", "WAIT", "SUCCESS", "FAILED"}]
      /\ cur' \in [Managers -> Priors]
  <2>1. MachineTypes
    BY <1>1, TypesApart
  <2> QED
    BY <2>1 DEF MachineTypes
<1>4. TypeOK'
  <2>1. QueueTypes'
    <3>1. \A n \in Managers, u \in Priors : Len(reqQ[n][u]) < QueueSize
      BY <1>1 DEF TypeOK
    <3>2. Len(reqQ[m][p]) \in Nat /\ Len(q) \in Nat /\ QueueSize \in Nat
      BY <1>1, LenProperties, MicManagerAssumption DEF QueuesOK
    <3>3. Len(reqQ'[m][p]) < QueueSize
      BY <1>2, <3>1, <3>2
    <3>4. \A n \in Managers, u \in Priors : Len(reqQ'[n][u]) < QueueSize
      BY <1>2, <3>1, <3>3
    <3> QED
      BY <1>2, <3>4 DEF QueueTypes
  <2>2. MachineTypes'
    BY <1>3 DEF MachineTypes
  <2>3. CountTypes'
    BY <1>1, TypesApart DEF CountTypes
  <2> QED
    BY <1>1, <2>1, <2>2, <2>3, TypesApart, TypesTogether
<1>5. WaitHoldsHead'
  <2>1. ASSUME NEW n \in Managers, state'[n] \in {"WAIT", "SUCCESS"} \/ cur'[n] # 0
        PROVE  reqQ'[n][cur'[n]] # <<>> /\ Head(reqQ'[n][cur'[n]]).sent
    <3>1. CASE n = m
      <4>1. r = p /\ q # <<>> /\ Head(q).sent
        BY <1>3, <2>1, <3>1
      <4>2. reqQ'[n][cur'[n]] = q
        BY <1>2, <1>3, <3>1, <4>1
      <4> QED
        BY <4>1, <4>2, Zenon
    <3>2. CASE n # m
      <4>1. state[n] \in {"WAIT", "SUCCESS"} \/ cur[n] # 0
        BY <1>3, <2>1, <3>2
      <4>2. reqQ[n][cur[n]] # <<>> /\ Head(reqQ[n][cur[n]]).sent
        BY <1>1, <4>1 DEF WaitHoldsHead
      <4>3. cur'[n] = cur[n] /\ cur[n] \in Priors
        BY <1>1, <1>3, <3>2 DEF TypeOK
      <4>4. reqQ'[n][cur'[n]] = reqQ[n][cur[n]]
        BY <1>2, <3>2, <4>3
      <4> QED
        BY <4>2, <4>4, Zenon
    <3> QED
      BY <3>1, <3>2
  <2> QED
    BY <2>1 DEF WaitHoldsHead
<1>6. RequestsAccounted'
  <2>1. accepted' \in [Managers -> Nat] /\ accepted' = accepted
    BY <1>1 DEF TypeOK
  <2>2. accepted'[m] + resolved[m] + Len(reqQ[m][p])
            = accepted[m] + resolved'[m] + Len(reqQ'[m][p])
    <3>1. PICK a \in Nat, d \in Nat, d1 \in Nat, l \in Nat, l1 \in Nat :
             /\ a = accepted[m] /\ d = resolved[m] /\ d1 = resolved'[m]
             /\ l = Len(reqQ[m][p]) /\ l1 = Len(q)
      BY <1>1, LenProperties DEF TypeOK
    <3>2. accepted'[m] = a /\ Len(reqQ'[m][p]) = l1
      BY <1>2, <2>1, <3>1
    <3>3. d1 + l1 = d + l
      BY <3>1
    <3>4. a + d + l = a + d1 + l1
      BY <3>3, SumIs
    <3> QED
      BY <3>1, <3>2, <3>4, Zenon
  <2>3. \A n \in Managers : n # m => accepted'[n] = accepted[n] /\ resolved'[n] = resolved[n]
    BY <2>1
  <2>4. \A n \in Managers, u \in Priors : (n = m /\ u = p) \/ Len(reqQ'[n][u]) = Len(reqQ[n][u])
    BY <1>2
  <2> QED
    BY <1>1, <1>2, <2>1, <2>2, <2>3, <2>4, AccountsKept
<1> QED
  BY <1>4, <1>5, <1>6

(* A machine that does not wait may be moved: no connect is on its way if  *)
(* it is the connector.                                                    *)
LEMMA ConnectorFree ==
  ASSUME OneConnect, NEW m \in Managers, state[m] # "WAIT", UNCHANGED <<acmpQueue, inflight>>,
         \A n \in Managers : n # m =>
            state'[n] = state[n] /\ cur'[n] = cur[n] /\ reqQ'[n] = reqQ[n]
  PROVE  OneConnect'
<1>1. CASE m = "CONNECTOR"
  <2>1. /\ \A k \in inflight : k.cmd # "connect"
        /\ \A i \in DOMAIN acmpQueue : acmpQueue[i].mgr # "CONNECTOR"
    BY <1>1 DEF OneConnect, ConnectorWaitsFor
  <2> QED
    BY <2>1 DEF OneConnect
<1>2. CASE m # "CONNECTOR"
  BY <1>2 DEF OneConnect, ConnectorWaitsFor, Managers
<1> QED
  BY <1>1, <1>2

(* The request at the head of queue p ends.                                *)
LEMMA ResolveStep ==
  ASSUME IInv, NEW m \in Managers, NEW p \in Priors, reqQ[m][p] # <<>>,
         NEW s \in {"FINISH", "FAILED"}, state[m] # "WAIT", Resolve(m, p, s),
         recvPc' \in Managers \cup {"idle"},
         UNCHANGED <<acmpQueue, sysState, notifying, recent, accepted, direct, errors, acked>>
  PROVE  IInv'
<1> DEFINE q == Tail(reqQ[m][p])
<1> USE DEF IInv
<1>1. TypeOK /\ OneConnect /\ QueuesOK
  <2>1. TypeOK /\ OneConnect
    BY DEF MachinesKept
  <2> QED
    BY <2>1, TypesApart DEF QueueTypes
<1>2. /\ q \in Seq(Requests) /\ Len(q) = Len(reqQ[m][p]) - 1 /\ Len(reqQ[m][p]) \in Nat \ {0}
      /\ Len(q) \in Nat
  BY <1>1, TailIs, LenProperties DEF QueuesOK
<1>3. /\ reqQ' = [reqQ EXCEPT ![m][p] = q]
      /\ resolved' = [resolved EXCEPT ![m] = @ + 1]
      /\ state' = [state EXCEPT ![m] = s]
      /\ cur' = [cur EXCEPT ![m] = 0]
      /\ UNCHANGED <<channelVars, inflight>>
  BY DEF Resolve
<1> HIDE DEF q
<1>4. /\ resolved' \in [Managers -> Nat] /\ resolved'[m] = resolved[m] + 1 /\ resolved[m] \in Nat
      /\ \A n \in Managers : n # m => resolved'[n] = resolved[n]
  BY <1>1, <1>3 DEF TypeOK
<1>5. resolved'[m] + Len(q) = resolved[m] + Len(reqQ[m][p]) /\ Len(q) <= Len(reqQ[m][p])
  <2>1. PICK d \in Nat, l \in Nat : d = resolved[m] /\ l = Len(q)
    BY <1>2, <1>4
  <2>2. Len(reqQ[m][p]) = l + 1 /\ resolved'[m] = d + 1
    BY <1>2, <1>4, <2>1
  <2> QED
    BY <2>1, <2>2
<1>6. ChannelsTypeOK' /\ CommandTypes'
  BY <1>1, <1>3, TypesApart
<1>7. TypeOK' /\ WaitHoldsHead' /\ RequestsAccounted'
  <2>1. 0 \in Priors /\ s \in {"FINISH", "WAIT", "SUCCESS", "FAILED"} /\ s \notin {"WAIT", "SUCCESS"}
    BY DEF Priors
  <2> QED
    BY <1>2, <1>3, <1>4, <1>5, <1>6, <2>1, MachineMoves
<1>8. OneConnect'
  <2>1. \A n \in Managers : n # m =>
            state'[n] = state[n] /\ cur'[n] = cur[n] /\ reqQ'[n] = reqQ[n]
    BY <1>1, <1>3 DEF TypeOK
  <2> QED
    BY <1>1, <1>3, <2>1, ConnectorFree
<1>9. ListsAgree'
  BY <1>3, ChannelsStay
<1> QED
  BY <1>7, <1>8, <1>9 DEF MachinesKept

(* The host refuses the command: the request is put back, one attempt      *)
(* less.                                                                   *)
LEMMA RefusedStep ==
  ASSUME IInv, NEW m \in Managers, NEW p \in Priors, reqQ[m][p] # <<>>, Refused(m, p),
         recvPc' \in Managers \cup {"idle"},
         UNCHANGED <<acmpQueue, sysState, notifying, recent, accepted, direct, errors, acked>>
  PROVE  IInv'
<1> DEFINE h == Head(reqQ[m][p])
           e == Req(h.term, Decremented(h.failureTimes), h.permissions, h.sent)
           q == <<e>> \o Tail(reqQ[m][p])
<1> USE DEF IInv
<1>1. TypeOK /\ OneConnect /\ QueuesOK
  <2>1. TypeOK /\ OneConnect
    BY DEF MachinesKept
  <2> QED
    BY <2>1, TypesApart DEF QueueTypes
<1>2. /\ state[m] \in {"FINISH", "FAILED"}
      /\ reqQ' = [reqQ EXCEPT ![m][p] = q]
      /\ state' = [state EXCEPT ![m] = "FINISH"]
      /\ cur' = [cur EXCEPT ![m] = 0]
      /\ UNCHANGED <<channelVars, inflight, resolved>>
  BY DEF Refused, PutBack
<1>3. h \in Requests /\ reqQ[m][p] \in Seq(Requests) /\ Len(reqQ[m][p]) \in Nat
  BY <1>1, TailIs, LenProperties DEF QueuesOK
<1>4. e \in Requests
  <2>1. /\ h.term \in Terminals /\ h.failureTimes \in 0 .. (ByteValues - 1)
        /\ h.permissions \in SUBSET SysStates /\ h.sent \in BOOLEAN
    BY <1>3, RequestIs, Zenon
  <2> HIDE DEF h
  <2>2. Decremented(h.failureTimes) \in 0 .. (ByteValues - 1)
    BY <2>1, DecrementedIs
  <2> QED
    BY <2>1, <2>2, RequestIs, Zenon
<1> HIDE DEF e
<1>5. q \in Seq(Requests) /\ Len(q) = Len(reqQ[m][p])
  BY <1>3, <1>4, HeadReplaced
<1> HIDE DEF q
<1>6. /\ resolved' \in [Managers -> Nat] /\ resolved' = resolved
      /\ \A n \in Managers : resolved'[n] = resolved[n]
  BY <1>1, <1>2 DEF TypeOK
<1>7. resolved'[m] + Len(q) = resolved[m] + Len(reqQ[m][p]) /\ Len(q) <= Len(reqQ[m][p])
  BY <1>3, <1>5, <1>6
<1>8. ChannelsTypeOK' /\ CommandTypes'
  BY <1>1, <1>2, TypesApart
<1>9. TypeOK' /\ WaitHoldsHead' /\ RequestsAccounted'
  <2>1. 0 \in Priors
    BY DEF Priors
  <2> QED
    BY <1>2, <1>5, <1>6, <1>7, <1>8, <2>1, MachineMoves
<1>10. OneConnect'
  <2>1. \A n \in Managers : n # m =>
            state'[n] = state[n] /\ cur'[n] = cur[n] /\ reqQ'[n] = reqQ[n]
    BY <1>1, <1>2 DEF TypeOK
  <2> QED
    BY <1>1, <1>2, <2>1, ConnectorFree
<1>11. ListsAgree'
  BY <1>2, ChannelsStay
<1> QED
  BY <1>9, <1>10, <1>11 DEF MachinesKept

LEMMA ManagersAre ==
  /\ Managers = {"CONNECTOR", "DISCONNECTOR"}
  /\ CommandOf["CONNECTOR"] = "connect" /\ CommandOf["DISCONNECTOR"] = "disconnect"
  /\ ManagerOf("connect") = "CONNECTOR" /\ ManagerOf("disconnect") = "DISCONNECTOR"
<1>1. /\ Managers = {"CONNECTOR", "DISCONNECTOR"}
      /\ CommandOf["CONNECTOR"] = "connect" /\ CommandOf["DISCONNECTOR"] = "disconnect"
  BY DEF Managers, CommandOf
<1>2. ManagerOf("connect") = "CONNECTOR"
  BY <1>1 DEF ManagerOf
<1>3. ManagerOf("disconnect") = "DISCONNECTOR"
  BY <1>1 DEF ManagerOf
<1> QED
  BY <1>1, <1>2, <1>3

(* A command is sent for the request at the head of queue p, and the       *)
(* request put back, one attempt less.                                     *)
LEMMA SendStep ==
  ASSUME IInv, NEW m \in Managers, NEW p \in Priors, reqQ[m][p] # <<>>, Send(m, p),
         recvPc' \in Managers \cup {"idle"},
         UNCHANGED <<acmpQueue, sysState, notifying, recent, accepted, direct, errors, acked>>
  PROVE  IInv'
<1> DEFINE h == Head(reqQ[m][p])
           e == Req(h.term, Decremented(h.failureTimes), h.permissions, TRUE)
           q == <<e>> \o Tail(reqQ[m][p])
<1> USE DEF IInv
<1>1. TypeOK /\ OneConnect /\ QueuesOK
  <2>1. TypeOK /\ OneConnect
    BY DEF MachinesKept
  <2> QED
    BY <2>1, TypesApart DEF QueueTypes
<1>2. /\ state[m] \in {"FINISH", "FAILED"} /\ ~NotExecuted(m, h)
      /\ reqQ' = [reqQ EXCEPT ![m][p] = q]
      /\ state' = [state EXCEPT ![m] = "WAIT"]
      /\ cur' = [cur EXCEPT ![m] = p]
      /\ UNCHANGED resolved
  BY DEF Send, PutBack
<1>3. PICK c \in Targets(m, h.term) :
        /\ Handle(c)
        /\ inflight' = inflight \cup {[cmd |-> CommandOf[m], term |-> h.term, chan |-> c]}
  BY DEF Send
<1>4. h \in Requests /\ reqQ[m][p] \in Seq(Requests) /\ Len(reqQ[m][p]) \in Nat
  BY <1>1, TailIs, LenProperties DEF QueuesOK
<1>5. h.term \in Terminals
  BY <1>4, RequestIs
<1>6. e \in Requests /\ e.term = h.term /\ e.sent
  <2>1. /\ h.term \in Terminals /\ h.failureTimes \in 0 .. (ByteValues - 1)
        /\ h.permissions \in SUBSET SysStates
    BY <1>4, RequestIs, Zenon
  <2> HIDE DEF h
  <2>2. Decremented(h.failureTimes) \in 0 .. (ByteValues - 1)
    BY <2>1, DecrementedIs
  <2>3. e.sent = TRUE /\ e.term = h.term
    BY Zenon DEF Req
  <2>4. e \in Requests
    BY <2>1, <2>2, RequestIs, Zenon
  <2> QED
    BY <2>3, <2>4, Zenon
<1> HIDE DEF e
<1>7. /\ q \in Seq(Requests) /\ Len(q) = Len(reqQ[m][p])
      /\ q # <<>> /\ Head(q) = e
  BY <1>4, <1>6, HeadReplaced
<1> HIDE DEF q
<1>8. Head(q).sent /\ Head(q).term = h.term
  BY <1>6, <1>7, Zenon
<1>9. UnitsKept
  BY UnitsAre
<1>10. /\ c \in Channels /\ c \notin handling
       /\ m = "CONNECTOR" => c \notin InUse /\ ~IsConnected(h.term) /\ h.term \notin recent
       /\ m = "DISCONNECTOR" => c \in InUse
  <2>1. CASE m = "CONNECTOR"
    <3>1. c \in Available /\ h.term \notin recent
      BY <2>1 DEF Targets, Protected
    <3>2. ~IsConnected(h.term)
      BY <1>2, <2>1 DEF NotExecuted, Done
    <3> QED
      BY <1>9, <2>1, <3>1, <3>2, AvailableIs
  <2>2. CASE m = "DISCONNECTOR"
    <3>1. c \in Untalkable(h.term)
      BY <2>2 DEF Targets
    <3> QED
      BY <2>2, <3>1, UntalkableIs
  <2> QED
    BY <2>1, <2>2, ManagersAre
<1>11. PICK k \in Commands :
          /\ k = [cmd |-> CommandOf[m], term |-> h.term, chan |-> c]
          /\ k.cmd = CommandOf[m] /\ k.term = h.term /\ k.chan = c
          /\ k.cmd = "connect" <=> m = "CONNECTOR"
  <2>1. CommandOf[m] \in {"connect", "disconnect"} /\ (CommandOf[m] = "connect" <=> m = "CONNECTOR")
    BY ManagersAre
  <2> DEFINE l == [cmd |-> CommandOf[m], term |-> h.term, chan |-> c]
  <2> HIDE DEF h
  <2>2. l \in Commands /\ l.cmd = CommandOf[m] /\ l.term = h.term /\ l.chan = c
    BY <1>5, <1>10, <2>1 DEF Commands
  <2> QED
    BY <2>1, <2>2
<1>12. inflight' = inflight \cup {k}
  BY <1>3, <1>11
<1> HIDE DEF h
<1>13. m = "CONNECTOR" => \A l \in inflight : l.cmd # "connect"
  BY <1>1, <1>2 DEF OneConnect, ConnectorWaitsFor
<1>14. ListsAgree' /\ ChannelsTypeOK' /\ CommandTypes'
  <2>1. k.chan \notin handling /\ (k.cmd = "connect" <=> k.chan \notin InUse)
    BY <1>10, <1>11, ManagersAre
  <2>2. k.cmd = "connect" => /\ ~IsConnected(k.term) /\ k.term \notin recent
                              /\ \A l \in inflight : l.cmd # "connect"
    <3> SUFFICES ASSUME k.cmd = "connect"
                 PROVE  /\ ~IsConnected(k.term) /\ k.term \notin recent
                        /\ \A l \in inflight : l.cmd # "connect"
      OBVIOUS
    <3>1. m = "CONNECTOR" /\ k.term = h.term
      BY <1>11
    <3>2. ~IsConnected(h.term) /\ h.term \notin recent
      BY <1>10, <3>1
    <3>3. \A l \in inflight : l.cmd # "connect"
      BY <1>13, <3>1
    <3> QED
      BY <3>1, <3>2, <3>3
  <2>3. Handle(k.chan)
    BY <1>3, <1>11
  <2> QED
    BY <1>11, <1>12, <2>1, <2>2, <2>3, CommandSent
<1>15. TypeOK' /\ WaitHoldsHead' /\ RequestsAccounted'
  <2>1. /\ resolved' \in [Managers -> Nat] /\ resolved' = resolved
        /\ \A n \in Managers : resolved'[n] = resolved[n]
    BY <1>1, <1>2 DEF TypeOK
  <2>2. resolved'[m] + Len(q) = resolved[m] + Len(reqQ[m][p]) /\ Len(q) <= Len(reqQ[m][p])
    BY <1>4, <1>7, <2>1
  <2> QED
    BY <1>2, <1>7, <1>8, <1>14, <2>1, <2>2, MachineMoves
<1>16. OneConnect'
  <2>1. /\ \A n \in Managers : n # m =>
              state'[n] = state[n] /\ cur'[n] = cur[n] /\ reqQ'[n] = reqQ[n]
        /\ state'[m] = "WAIT" /\ cur'[m] = p /\ reqQ'[m][p] = q
    BY <1>1, <1>2 DEF TypeOK, QueuesOK
  <2>2. CASE m = "CONNECTOR"
    <3>1. /\ \A l \in inflight : l.cmd # "connect"
          /\ \A i \in DOMAIN acmpQueue : acmpQueue[i].mgr # "CONNECTOR"
      BY <1>1, <1>2, <2>2 DEF OneConnect, ConnectorWaitsFor
    <3>2. ConnectorWaitsFor(k.term)'
      <4>1. state'["CONNECTOR"] = "WAIT"
        BY <2>1, <2>2
      <4>2. reqQ'["CONNECTOR"][cur'["CONNECTOR"]] = q
        BY <2>1, <2>2
      <4>3. Head(q).term = k.term
        BY <1>8, <1>11
      <4> QED
        BY <4>1, <4>2, <4>3 DEF ConnectorWaitsFor
    <3>3. \A l \in inflight' : l.cmd = "connect" => l = k
      BY <1>12, <3>1
    <3> QED
      BY <3>1, <3>2, <3>3 DEF OneConnect
  <2>3. CASE m # "CONNECTOR"
    <3>1. /\ state'["CONNECTOR"] = state["CONNECTOR"] /\ cur'["CONNECTOR"] = cur["CONNECTOR"]
          /\ reqQ'["CONNECTOR"] = reqQ["CONNECTOR"]
      BY <2>1, <2>3, ManagersAre
    <3>2. \A l \in inflight' : l.cmd = "connect" => l \in inflight
      BY <1>11, <1>12, <2>3
    <3> QED
      BY <1>1, <3>1, <3>2 DEF OneConnect, ConnectorWaitsFor
  <2> QED
    BY <2>2, <2>3
<1> QED
  BY <1>14, <1>15, <1>16 DEF MachinesKept

(* The loop over the queues of a machine.                                  *)
LEMMA PassStep ==
  ASSUME IInv, NEW m \in Managers, Pass(m)
  PROVE  IInv'
<1> DEFINE p == Min(Ready(m))
<1>1. TypeOK /\ WaitHoldsHead /\ QueuesOK /\ cur \in [Managers -> Priors]
  <2>1. TypeOK /\ WaitHoldsHead
    BY DEF IInv, MachinesKept
  <2> QED
    BY <2>1, TypesApart DEF QueueTypes, MachineTypes
<1>2. /\ recvPc' \in Managers \cup {"idle"}
      /\ UNCHANGED <<acmpQueue, sysState, notifying, recent, accepted, direct, errors, acked>>
  BY ManagersAre DEF Pass
<1>3. CASE Ready(m) = {}
  <2>1. UNCHANGED <<channelVars, state, cur, reqQ, inflight, resolved>>
    BY <1>3 DEF Pass, Ready
  <2>2. sysState' \in SysStates
    BY <1>1, <1>2 DEF TypeOK
  <2> QED
    BY <1>2, <2>1, <2>2, QuietStep
<1>4. CASE Ready(m) # {}
  <2>1. /\ p \in Priors /\ reqQ[m][p] # <<>>
        /\ reqQ[m][cur[m]] # <<>> => p = cur[m]
    BY <1>1, <1>4, ReadyIs
  <2>2. \/ KeepWaiting(m, p)
        \/ EndAnswered(m, p)
        \/ EndNotExecuted(m, p)
        \/ Send(m, p)
        \/ Refused(m, p)
        \/ EndRefused(m, p)
    BY <1>4 DEF Pass, Ready
  <2> HIDE DEF p
  <2>3. CASE KeepWaiting(m, p)
    <3>1. /\ state[m] = "WAIT" /\ cur' = [cur EXCEPT ![m] = p]
          /\ UNCHANGED <<channelVars, state, reqQ, inflight, resolved>>
      BY <2>3 DEF KeepWaiting
    <3>2. p = cur[m]
      BY <1>1, <2>1, <3>1 DEF WaitHoldsHead
    <3>3. cur' = cur
      BY <1>1, <3>1, <3>2
    <3>4. sysState' \in SysStates
      BY <1>1, <1>2 DEF TypeOK
    <3> QED
      BY <1>2, <3>1, <3>3, <3>4, QuietStep
  <2>4. CASE EndAnswered(m, p)
    <3>1. state[m] # "WAIT" /\ Resolve(m, p, "FINISH")
      BY <2>4 DEF EndAnswered
    <3> QED
      BY <1>2, <2>1, <3>1, ResolveStep
  <2>5. CASE EndNotExecuted(m, p)
    <3>1. state[m] \in {"FINISH", "FAILED"} /\ state[m] # "WAIT" /\ Resolve(m, p, state[m])
      BY <2>5 DEF EndNotExecuted
    <3>2. PICK s \in {"FINISH", "FAILED"} : s = state[m]
      BY <3>1
    <3>3. Resolve(m, p, s)
      BY <3>1, <3>2
    <3> QED
      BY <1>2, <2>1, <3>1, <3>3, ResolveStep
  <2>6. CASE Send(m, p)
    BY <1>2, <2>1, <2>6, SendStep
  <2>7. CASE Refused(m, p)
    BY <1>2, <2>1, <2>7, RefusedStep
  <2>8. CASE EndRefused(m, p)
    <3>1. state[m] # "WAIT" /\ Resolve(m, p, "FINISH")
      BY <2>8 DEF EndRefused
    <3> QED
      BY <1>2, <2>1, <3>1, ResolveStep
  <2> QED
    BY <2>2, <2>3, <2>4, <2>5, <2>6, <2>7, <2>8
<1> QED
  BY <1>3, <1>4

-----------------------------------------------------------------------------
(* The epoll thread concludes a command *)

(* Nothing is posted, or one event of the command's kind and talker.       *)
LEMMA PostedIs ==
  ASSUME NEW k \in Commands, NEW o \in {"success", "error", "timeout"}, NEW evs \in Posted(k, o)
  PROVE  \/ evs = <<>>
         \/ \E e \in Events : evs = <<e>> /\ e.mgr = ManagerOf(k.cmd) /\ e.term = k.term
<1> DEFINE event(ok) == <<[mgr |-> ManagerOf(k.cmd), ok |-> ok, term |-> k.term]>>
<1>1. k.cmd \in {"connect", "disconnect"} /\ k.term \in Terminals
  BY CommandIs
<1>2. ManagerOf(k.cmd) \in Managers
  BY <1>1, ManagersAre
<1>3. ASSUME NEW ok \in BOOLEAN
      PROVE  \E e \in Events : event(ok) = <<e>> /\ e.mgr = ManagerOf(k.cmd) /\ e.term = k.term
  <2> DEFINE e == [mgr |-> ManagerOf(k.cmd), ok |-> ok, term |-> k.term]
  <2>1. e \in Events
    BY <1>1, <1>2, Zenon DEF Events
  <2>2. e.mgr = ManagerOf(k.cmd) /\ e.term = k.term
    BY Zenon
  <2> QED
    BY <2>1, <2>2, Zenon
<1>4. evs = <<>> \/ \E ok \in BOOLEAN : evs = event(ok)
  <2>1. CASE o = "success"
    <3>1. evs = event(TRUE)
      BY <2>1 DEF Posted
    <3> QED
      BY <3>1, Zenon
  <2>2. CASE o = "error"
    <3>1. evs = event(IsConnected(k.term) <=> k.cmd = "connect")
      BY <2>2 DEF Posted
    <3>2. (IsConnected(k.term) <=> k.cmd = "connect") \in BOOLEAN
      BY Zenon
    <3> QED
      BY <3>1, <3>2, Zenon
  <2>3. CASE o = "timeout"
    <3>1. evs = <<>> \/ evs = event(FALSE)
      <4>1. CASE IsConnected(k.term)
        BY <2>3, <4>1 DEF Posted
      <4>2. CASE ~IsConnected(k.term) /\ k.cmd = "connect"
        BY <2>3, <4>2 DEF Posted
      <4>3. CASE ~IsConnected(k.term) /\ k.cmd = "disconnect"
        BY <2>3, <4>3 DEF Posted
      <4> QED
        BY <1>1, <4>1, <4>2, <4>3
    <3> QED
      BY <3>1, Zenon
  <2> QED
    BY <2>1, <2>2, <2>3
<1> HIDE DEF event
<1> QED
  BY <1>3, <1>4, Zenon

(* The transmit unit hears of the outcome.                                 *)
LEMMA ConcludeMachines ==
  ASSUME IInv, NEW k \in inflight, NEW o \in Outcomes, Conclude(k, o)
  PROVE  TypeOK' /\ WaitHoldsHead' /\ RequestsAccounted' /\ OneConnect'
<1> USE DEF IInv
<1>1. TypeOK /\ OneConnect
  BY DEF MachinesKept
<1>2. /\ acmpQueue \in Seq(Events) /\ Len(acmpQueue) \in Nat /\ Len(acmpQueue) < QueueSize
      /\ DOMAIN acmpQueue = 1 .. Len(acmpQueue) /\ QueueSize \in Nat
  BY <1>1, MicManagerAssumption, LenProperties DEF TypeOK
<1>3. k \in Commands /\ k.term \in Terminals /\ k.chan \in Channels /\ o \in {"success", "error", "timeout"}
  BY <1>1, CommandIs, MicManagerAssumption DEF TypeOK
<1>4. /\ inflight' = inflight \ {k}
      /\ notifying' = <<[k |-> k, outcome |-> o]>>
      /\ recent' = IF o = "success" THEN recent \cup {k.term} ELSE recent
      /\ errors' = IF o = "success" THEN errors ELSE errors + 1
      /\ acked' = Acknowledged(k, o)
      /\ UNCHANGED <<channelVars, state, cur, reqQ, recvPc, sysState, accepted, resolved, direct>>
  BY DEF Conclude
<1>5. PICK evs \in Posted(k, o) :
         acmpQueue' = IF Room(acmpQueue) THEN acmpQueue \o evs ELSE acmpQueue
  BY DEF Conclude
<1>6. \/ acmpQueue' = acmpQueue
      \/ /\ Room(acmpQueue)
         /\ \E e \in Events : /\ acmpQueue' = acmpQueue \o <<e>>
                              /\ e.mgr = ManagerOf(k.cmd) /\ e.term = k.term
  <2>1. CASE evs = <<>>
    <3>1. acmpQueue \o evs = acmpQueue
      BY <1>2, <2>1, ConcatEmptySeq
    <3> QED
      BY <1>5, <3>1
  <2>2. CASE \E e \in Events : evs = <<e>> /\ e.mgr = ManagerOf(k.cmd) /\ e.term = k.term
    BY <1>5, <2>2, Zenon
  <2> QED
    BY <1>3, <2>1, <2>2, PostedIs
<1>7. ASSUME NEW e \in Events, acmpQueue' = acmpQueue \o <<e>>
      PROVE  /\ acmpQueue' \in Seq(Events) /\ Len(acmpQueue') = Len(acmpQueue) + 1
             /\ DOMAIN acmpQueue' = 1 .. (Len(acmpQueue) + 1)
             /\ \A i \in 1 .. Len(acmpQueue) : acmpQueue'[i] = acmpQueue[i]
             /\ acmpQueue'[Len(acmpQueue) + 1] = e
  <2>1. <<e>> \in Seq(Events) /\ Len(<<e>>) = 1 /\ <<e>>[1] = e
    OBVIOUS
  <2>2. /\ acmpQueue' \in Seq(Events) /\ Len(acmpQueue') = Len(acmpQueue) + 1
        /\ \A i \in 1 .. Len(acmpQueue) + 1 :
              acmpQueue'[i] = IF i <= Len(acmpQueue) THEN acmpQueue[i] ELSE <<e>>[i - Len(acmpQueue)]
    BY <1>2, <1>7, <2>1, ConcatProperties
  <2> QED
    BY <1>2, <2>1, <2>2, LenProperties
<1>8. TypeOK'
  <2>1. EventTypes'
    <3>1. CASE acmpQueue' = acmpQueue
      BY <1>1, <3>1, TypesApart
    <3>2. CASE Room(acmpQueue) /\ \E e \in Events : acmpQueue' = acmpQueue \o <<e>>
      BY <1>2, <1>7, <3>2 DEF EventTypes, Room
    <3> QED
      BY <1>6, <3>1, <3>2
  <2>2. CommandTypes'
    <3>1. acked \subseteq Terminals \X Channels /\ recent \subseteq Terminals /\ inflight \subseteq Commands
      BY <1>1 DEF TypeOK
    <3>2. <<k.term, k.chan>> \in Terminals \X Channels
      BY <1>3
    <3>3. acked' \subseteq Terminals \X Channels
      BY <1>4, <3>1, <3>2 DEF Acknowledged
    <3> QED
      BY <1>3, <1>4, <3>1, <3>3 DEF CommandTypes
  <2>3. NoteTypes'
    <3>1. \A S, x : x \in S => x \in {<<>>} \cup S
      OBVIOUS
    <3>2. notifying' \in {<<[k |-> j, outcome |-> u]>> : j \in Commands, u \in Outcomes}
      BY <1>3, <1>4
    <3> QED
      BY <3>1, <3>2 DEF NoteTypes
  <2>4. CountTypes'
    BY <1>1, <1>4, TypesApart DEF CountTypes
  <2> QED
    BY <1>1, <1>4, <2>1, <2>2, <2>3, <2>4, TypesApart, TypesTogether
<1>9. WaitHoldsHead' /\ RequestsAccounted'
  BY <1>4 DEF MachinesKept, WaitHoldsHead, RequestsAccounted
<1>10. \A t : ConnectorWaitsFor(t) =>
          /\ state'["CONNECTOR"] = "WAIT"
          /\ Head(reqQ'["CONNECTOR"][cur'["CONNECTOR"]]).term = t
  BY <1>4 DEF ConnectorWaitsFor
<1>11. OneConnect'
  <2>1. CASE acmpQueue' = acmpQueue
    BY <1>1, <1>4, <1>10, <2>1 DEF OneConnect, ConnectorWaitsFor
  <2>2. ASSUME NEW e \in Events, acmpQueue' = acmpQueue \o <<e>>,
               e.mgr = ManagerOf(k.cmd), e.term = k.term
        PROVE  OneConnect'
    <3> DEFINE n == Len(acmpQueue)
    <3>1. /\ DOMAIN acmpQueue' = 1 .. (n + 1) /\ acmpQueue'[n + 1] = e
          /\ \A i \in DOMAIN acmpQueue' : i = n + 1 \/ (i \in DOMAIN acmpQueue /\ acmpQueue'[i] = acmpQueue[i])
      BY <1>2, <1>7, <2>2
    <3>2. CASE k.cmd = "connect"
      <4>1. /\ \A l \in inflight' : l.cmd # "connect"
            /\ \A i \in DOMAIN acmpQueue : acmpQueue[i].mgr # "CONNECTOR"
        BY <1>1, <1>4, <3>2 DEF OneConnect
      <4>2. /\ state'["CONNECTOR"] = "WAIT"
            /\ Head(reqQ'["CONNECTOR"][cur'["CONNECTOR"]]).term = e.term
        BY <1>1, <1>10, <2>2, <3>2 DEF OneConnect
      <4>3. \A i \in DOMAIN acmpQueue' : acmpQueue'[i].mgr = "CONNECTOR" => i = n + 1
        BY <3>1, <4>1
      <4> QED
        BY <3>1, <4>1, <4>2, <4>3 DEF OneConnect, ConnectorWaitsFor
    <3>3. CASE k.cmd # "connect"
      <4>1. e.mgr = "DISCONNECTOR"
        BY <1>3, <2>2, <3>3, CommandIs, ManagersAre
      <4>2. \A i \in DOMAIN acmpQueue' : acmpQueue'[i].mgr = "CONNECTOR" =>
               i \in DOMAIN acmpQueue /\ acmpQueue'[i] = acmpQueue[i]
        BY <3>1, <4>1
      <4>3. inflight' \subseteq inflight
        BY <1>4
      <4>4. \A i, j \in DOMAIN acmpQueue' :
               acmpQueue'[i].mgr = "CONNECTOR" /\ acmpQueue'[j].mgr = "CONNECTOR" => i = j
        BY <1>1, <4>2 DEF OneConnect
      <4>5. \A l \in inflight', i \in DOMAIN acmpQueue' :
               ~(l.cmd = "connect" /\ acmpQueue'[i].mgr = "CONNECTOR")
        BY <1>1, <4>2, <4>3 DEF OneConnect
      <4>6. \A i \in DOMAIN acmpQueue' : acmpQueue'[i].mgr = "CONNECTOR" =>
               /\ state'["CONNECTOR"] = "WAIT"
               /\ Head(reqQ'["CONNECTOR"][cur'["CONNECTOR"]]).term = acmpQueue'[i].term
        BY <1>1, <1>10, <4>2 DEF OneConnect
      <4>7. \A l \in inflight' : l.cmd = "connect" =>
               /\ state'["CONNECTOR"] = "WAIT"
               /\ Head(reqQ'["CONNECTOR"][cur'["CONNECTOR"]]).term = l.term
        BY <1>1, <1>10, <4>3 DEF OneConnect
      <4>8. \A l, j \in inflight' : l.cmd = "connect" /\ j.cmd = "connect" => l = j
        BY <1>1, <4>3 DEF OneConnect
      <4> QED
        BY <4>4, <4>5, <4>6, <4>7, <4>8 DEF OneConnect, ConnectorWaitsFor
    <3> QED
      BY <3>2, <3>3
  <2> QED
    BY <1>6, <2>1, <2>2
<1> QED
  BY <1>8, <1>9, <1>11

LEMMA ConcludeChannels ==
  ASSUME IInv, NEW k \in inflight, NEW o \in Outcomes, Conclude(k, o)
  PROVE  ListsAgree'
<1>1. /\ TypeOK /\ CountsAgree /\ ChannelsHeld /\ TalkersApart /\ AcksAhead /\ UnitsKept
      /\ TalkerOnOneChannel
  BY UnitsAre DEF IInv, MachinesKept, ListsAgree
<1>2. /\ notifying = <<>> /\ inflight' = inflight \ {k}
      /\ notifying' = <<[k |-> k, outcome |-> o]>>
      /\ recent' = IF o = "success" THEN recent \cup {k.term} ELSE recent
      /\ acked' = Acknowledged(k, o)
      /\ UNCHANGED channelVars
  BY DEF Conclude
<1>3. Ending = {} /\ ToSet(notifying) = {}
  BY <1>2 DEF Ending, ToSet
<1> DEFINE n == [k |-> k, outcome |-> o]
<1>4. n.k = k /\ n.outcome = o /\ notifying' = <<n>>
  BY <1>2
<1> HIDE DEF n
<1>5. DOMAIN notifying' = {1} /\ notifying'[1] = n
  BY <1>4
<1>6. Ending' = {k} /\ ToSet(notifying') = {n}
  BY <1>4, <1>5 DEF Ending, ToSet
<1>7. InUse' = InUse /\ Recorded' = Recorded /\ tarker' = tarker
  BY <1>2 DEF InUse, Recorded, channelVars
<1>8. \A t : IsConnected(t)' <=> IsConnected(t)
  BY <1>7 DEF IsConnected
<1>9. CountsAgree'
  BY <1>1, <1>2, <1>7 DEF CountsAgree, channelVars
<1>10. ChannelsHeld'
  <2>1. inflight' \cup Ending' = inflight \cup Ending /\ inflight' \cap Ending' = {}
    BY <1>2, <1>3, <1>6
  <2> QED
    BY <1>1, <1>2, <1>7, <2>1 DEF ChannelsHeld, channelVars
<1>11. TalkersApart'
  <2>1. ASSUME NEW j \in ToRecord'
        PROVE  j \in ToRecord /\ (j \in inflight' \/ j.term \in recent')
    <3>1. CASE j \in inflight'
      <4>1. j \in inflight
        BY <1>2, <3>1
      <4>2. j.cmd = "connect"
        BY <2>1, <1>4, <1>6, <3>1 DEF ToRecord, Connects
      <4> QED
        BY <3>1, <4>1, <4>2 DEF ToRecord
    <3>2. CASE j \notin inflight'
      <4>1. j = k /\ k.cmd = "connect" /\ o = "success"
        BY <2>1, <1>4, <1>6, <3>2 DEF ToRecord, Connects
      <4> QED
        BY <1>2, <4>1 DEF ToRecord
    <3> QED
      BY <3>1, <3>2
  <2> QED
    BY <1>1, <1>8, <2>1 DEF TalkersApart
<1>12. AcksAhead'
  <2>1. Recorded \subseteq acked
    BY <1>1, <1>3 DEF AcksAhead
  <2>2. k.chan \in Channels /\ (k.cmd = "connect" <=> k.chan \notin InUse) /\ k.cmd \in {"connect", "disconnect"}
    BY <1>1, CommandIs DEF ChannelsHeld, TypeOK
  <2>3. CASE o = "success" /\ k.cmd = "connect"
    <3>1. acked' = {s \in acked : s[2] # k.chan} \cup {<<k.term, k.chan>>}
      BY <1>2, <2>3 DEF Acknowledged
    <3>2. \A s \in Recorded : s[2] # k.chan
      BY <2>2, <2>3, RecordedIs
    <3>3. Recorded' \ acked' = {}
      BY <1>7, <2>1, <3>1, <3>2
    <3> QED
      BY <1>4, <1>6, <3>1, <3>3 DEF AcksAhead
  <2>4. CASE o = "success" /\ k.cmd = "disconnect"
    <3>1. acked' = {s \in acked : s[2] # k.chan}
      BY <1>2, <2>4 DEF Acknowledged
    <3>2. \A s \in Recorded' \ acked' : k.chan = s[2]
      BY <1>7, <2>1, <3>1
    <3> QED
      BY <1>4, <1>6, <2>4, <3>2 DEF AcksAhead, Connects
  <2>5. CASE o # "success"
    <3>1. acked' = acked
      BY <1>2, <2>5 DEF Acknowledged
    <3> QED
      BY <1>4, <1>6, <1>7, <2>1, <2>5, <3>1 DEF AcksAhead, Connects
  <2> QED
    BY <2>2, <2>3, <2>4, <2>5
<1>13. TalkerOnOneChannel'
  BY <1>1, <1>7 DEF TalkerOnOneChannel
<1> QED
  BY <1>9, <1>10, <1>11, <1>12, <1>13 DEF ListsAgree

(* ... and then the receive unit.                                          *)
LEMMA UpdateChannelsStep ==
  ASSUME IInv, UpdateChannels
  PROVE  IInv'
<1>1. /\ TypeOK /\ OneConnect /\ ChannelsHeld /\ TalkersApart /\ AcksAhead /\ UnitsKept
      /\ TalkerOnOneChannel /\ NoteTypes
  <2>1. /\ TypeOK /\ OneConnect /\ ChannelsHeld /\ TalkersApart /\ AcksAhead /\ UnitsKept
        /\ TalkerOnOneChannel
    BY UnitsAre DEF IInv, MachinesKept, ListsAgree
  <2> QED
    BY <2>1, TypesApart
<1>2. /\ notifying # <<>> /\ notifying' = <<>>
      /\ RecordOutcome(Head(notifying).k.cmd, Head(notifying).outcome,
                       Head(notifying).k.term, Head(notifying).k.chan)
      /\ UNCHANGED <<state, cur, reqQ, acmpQueue, recvPc, sysState, inflight, recent,
                     accepted, resolved, direct, errors, acked>>
  BY DEF UpdateChannels
<1>3. PICK k \in Commands, o \in Outcomes :
        /\ Ending = {k} /\ ToSet(notifying) = {[k |-> k, outcome |-> o]}
        /\ Head(notifying).k = k /\ Head(notifying).outcome = o
  BY <1>1, <1>2, NoteIs
<1>4. PICK n \in ToSet(notifying) : n.k = k /\ n.outcome = o /\ ToSet(notifying) = {n}
  BY <1>3
<1>5. k.term \in Terminals /\ k.chan \in Channels /\ k.cmd \in {"connect", "disconnect"}
  BY CommandIs
<1>6. PICK c \in Channels, t \in Terminals : c = k.chan /\ t = k.term
  BY <1>5
<1>7. RecordOutcome(k.cmd, o, t, c)
  BY <1>2, <1>3, <1>6
<1>8. k.cmd = "connect" <=> c \notin InUse
  BY <1>1, <1>3, <1>6 DEF ChannelsHeld
<1>9. /\ UnitsKept'
      /\ \/ /\ UNCHANGED channelVars /\ InUse' = InUse
            /\ (o = "timeout" \/ ConnectFlag(k.cmd, o) \/ c \notin InUse)
         \/ /\ o = "success" /\ k.cmd = "connect"
            /\ c \notin InUse /\ InUse' = InUse \cup {c}
            /\ tarker' = [tarker EXCEPT ![c] = t] /\ handling' = handling \ {c}
         \/ /\ c \notin InUse /\ InUse' = InUse
            /\ tarker' = [tarker EXCEPT ![c] = NoTerminal] /\ handling' = handling \ {c}
         \/ /\ c \in InUse /\ InUse' = InUse \ {c}
            /\ tarker' = [tarker EXCEPT ![c] = NoTerminal] /\ handling' = handling \ {c}
  BY <1>1, <1>7, RecordOutcomeIs
<1>10. tarker \in [Channels -> Terminals \cup {NoTerminal}] /\ InUse \subseteq Channels
  BY <1>1, InUseIs DEF UnitsKept, ChannelsTypeOK
<1>11. /\ \A d \in Channels : d # c => /\ d \in InUse' <=> d \in InUse
                                       /\ tarker'[d] = tarker[d]
       /\ \A d \in handling : d # c => d \in handling'
       /\ InUse' \subseteq Channels
  <2>1. CASE UNCHANGED channelVars /\ InUse' = InUse
    BY <1>10, <2>1 DEF channelVars
  <2>2. CASE /\ c \notin InUse /\ InUse' = InUse \cup {c}
             /\ tarker' = [tarker EXCEPT ![c] = t] /\ handling' = handling \ {c}
    BY <1>10, <2>2
  <2>3. CASE /\ c \notin InUse /\ InUse' = InUse
             /\ tarker' = [tarker EXCEPT ![c] = NoTerminal] /\ handling' = handling \ {c}
    BY <1>10, <2>3
  <2>4. CASE /\ c \in InUse /\ InUse' = InUse \ {c}
             /\ tarker' = [tarker EXCEPT ![c] = NoTerminal] /\ handling' = handling \ {c}
    BY <1>10, <2>4
  <2> QED
    BY <1>9, <2>1, <2>2, <2>3, <2>4
<1>12. c \in InUse' => \/ k.cmd = "connect" /\ o = "success" /\ tarker'[c] = t
                       \/ c \in InUse /\ tarker'[c] = tarker[c] /\ o = "timeout"
  <2>1. CASE /\ UNCHANGED channelVars /\ InUse' = InUse
             /\ (o = "timeout" \/ ConnectFlag(k.cmd, o) \/ c \notin InUse)
    BY <1>8, <2>1 DEF ConnectFlag, channelVars
  <2>2. CASE /\ o = "success" /\ k.cmd = "connect"
             /\ tarker' = [tarker EXCEPT ![c] = t]
    BY <1>10, <2>2
  <2>3. CASE c \notin InUse /\ InUse' = InUse
    BY <2>3
  <2>4. CASE InUse' = InUse \ {c}
    BY <2>4
  <2> QED
    BY <1>9, <2>1, <2>2, <2>3, <2>4
<1>13. /\ \A l \in inflight : l.chan \in Channels /\ l.chan # c /\ l # k
       /\ k \notin inflight
  <2>1. \A l \in inflight : l \in Commands /\ l.chan \in Channels
    BY <1>1, CommandIs DEF TypeOK
  <2>2. k \in Ending /\ inflight \cap Ending = {}
    BY <1>1, <1>3 DEF ChannelsHeld
  <2> QED
    BY <1>1, <1>6, <2>1, <2>2 DEF ChannelsHeld
<1>14. Ending' = {} /\ ToSet(notifying') = {}
  BY <1>2 DEF Ending, ToSet
<1>15. ChannelsHeld'
  <2>1. ASSUME NEW l \in inflight
        PROVE  l.chan \in handling' /\ (l.cmd = "connect" <=> l.chan \notin InUse')
    <3>1. l.chan \in handling /\ (l.cmd = "connect" <=> l.chan \notin InUse)
      BY <1>1 DEF ChannelsHeld
    <3> QED
      BY <1>11, <1>13, <3>1
  <2>2. \A l, j \in inflight : l.chan = j.chan => l = j
    BY <1>1 DEF ChannelsHeld
  <2>3. \A u \in Units \ SearchedUnits : connected'[u] = <<>>
    BY <1>9 DEF UnitsKept
  <2>4. ASSUME NEW d \in InUse' PROVE tarker'[d] # NoTerminal
    <3>1. \A b \in InUse : tarker[b] # NoTerminal
      BY <1>1 DEF ChannelsHeld
    <3>2. t # NoTerminal
      BY RecieveUnitAssumption
    <3> QED
      BY <1>11, <1>12, <3>1, <3>2
  <2>5. inflight' \cup Ending' = inflight /\ inflight' \cap Ending' = {}
    BY <1>2, <1>14
  <2> QED
    BY <2>1, <2>2, <2>3, <2>4, <2>5 DEF ChannelsHeld
<1>16. \A s \in Recorded' : s[2] \in InUse' /\ s = <<tarker'[s[2]], s[2]>>
  BY DEF Recorded
<1>17. TalkersApart'
  <2>1. ToRecord' = {l \in inflight : l.cmd = "connect"}
    BY <1>2, <1>14 DEF ToRecord
  <2>2. ToRecord' \subseteq ToRecord
    BY <2>1 DEF ToRecord
  <2>3. ASSUME NEW l \in ToRecord', IsConnected(l.term)' PROVE FALSE
    <3>1. PICK d \in InUse' : tarker'[d] = l.term
      <4>1. PICK b \in Channels : <<l.term, b>> \in Recorded'
        BY <2>3 DEF IsConnected
      <4> QED
        BY <1>16, <4>1
    <3>2. ~\E b \in InUse : tarker[b] = l.term
      BY <1>1, <2>2, ConnectedIs DEF TalkersApart
    <3>3. d = c /\ k.cmd = "connect" /\ o = "success" /\ l.term = t
      BY <1>11, <1>12, <3>1, <3>2
    <3>4. k \in ToRecord
      BY <1>4, <3>3 DEF ToRecord, Connects
    <3>5. l = k
      BY <1>1, <1>6, <2>2, <3>3, <3>4 DEF TalkersApart
    <3> QED
      BY <1>13, <2>1, <3>5
  <2>4. \A l \in ToRecord' : l \in inflight'
    BY <1>2, <2>1
  <2> QED
    BY <1>1, <2>2, <2>3, <2>4 DEF TalkersApart
<1>18. AcksAhead'
  <2>1. ASSUME NEW s \in Recorded' PROVE s \in acked
    <3>1. PICK d \in Channels : d = s[2] /\ d \in InUse' /\ s = <<tarker'[d], d>>
      BY <1>11, <1>16
    <3>2. CASE d # c
      <4>1. d \in InUse /\ s = <<tarker[d], d>>
        BY <1>11, <3>1, <3>2
      <4>2. s \in Recorded
        BY <4>1, RecordedIs
      <4>3. s \notin acked => c = s[2]
        BY <1>1, <1>4, <1>6, <4>2 DEF AcksAhead
      <4> QED
        BY <3>1, <3>2, <4>3
    <3>3. CASE d = c /\ k.cmd = "connect" /\ o = "success" /\ tarker'[c] = t
      <4>1. <<t, c>> \in acked
        BY <1>1, <1>4, <1>6, <3>3 DEF AcksAhead, Connects
      <4> QED
        BY <3>1, <3>3, <4>1
    <3>4. CASE d = c /\ c \in InUse /\ tarker'[c] = tarker[c] /\ o = "timeout"
      <4>1. s \in Recorded
        BY <3>1, <3>4, RecordedIs
      <4> QED
        BY <1>1, <1>4, <3>4, <4>1 DEF AcksAhead
    <3> QED
      BY <1>12, <3>1, <3>2, <3>3, <3>4
  <2> QED
    BY <1>2, <1>14, <2>1 DEF AcksAhead
<1>19. TypeOK'
  <2>1. NoteTypes'
    <3>1. \A S : notifying' \in {<<>>} \cup S
      BY <1>2
    <3> QED
      BY <3>1 DEF NoteTypes
  <2>2. ChannelsTypeOK'
    BY <1>9 DEF UnitsKept
  <2> QED
    BY <1>1, <1>2, <2>1, <2>2, TypesApart, TypesTogether
<1>20. WaitHoldsHead' /\ OneConnect'
  <2>1. MachinesKept
    BY DEF IInv
  <2> QED
    BY <1>2, <2>1, HeadsStay
<1>21. RequestsAccounted'
  BY <1>2 DEF IInv, MachinesKept, RequestsAccounted
<1>22. TalkerOnOneChannel'
  <2> SUFFICES ASSUME NEW a \in Recorded', NEW b \in Recorded', a[1] = b[1] PROVE a = b
    BY DEF TalkerOnOneChannel
  <2>1. PICK d \in Channels : d \in InUse' /\ a = <<tarker'[d], d>>
    BY <1>11, <1>16
  <2>2. PICK e \in Channels : e \in InUse' /\ b = <<tarker'[e], e>>
    BY <1>11, <1>16
  <2>3. tarker'[d] = tarker'[e]
    BY <2>1, <2>2
  <2>4. \A f, g \in InUse : tarker[f] = tarker[g] => f = g
    <3> TAKE f, g \in InUse
    <3>1. <<tarker[f], f>> \in Recorded /\ <<tarker[g], g>> \in Recorded
      BY RecordedIs
    <3>2. tarker[f] = tarker[g] => <<tarker[f], f>> = <<tarker[g], g>>
      BY <1>1, <3>1 DEF TalkerOnOneChannel
    <3> QED
      BY <3>2
  <2>5. CASE c \in InUse' /\ k.cmd = "connect" /\ o = "success" /\ tarker'[c] = t
    <3>1. k \in ToRecord
      BY <1>4, <2>5 DEF ToRecord, Connects
    <3>2. \A f \in InUse : tarker[f] # t
      BY <1>1, <1>6, <3>1, ConnectedIs DEF TalkersApart
    <3>3. \A f \in Channels : f \in InUse' /\ f # c => f \in InUse /\ tarker'[f] = tarker[f]
      BY <1>11
    <3>4. d = e
      BY <2>1, <2>2, <2>3, <2>4, <2>5, <3>2, <3>3
    <3> QED
      BY <2>1, <2>2, <3>4
  <2>6. CASE c \in InUse' => c \in InUse /\ tarker'[c] = tarker[c]
    <3>1. \A f \in Channels : f \in InUse' => f \in InUse /\ tarker'[f] = tarker[f]
      BY <1>11, <2>6
    <3>2. d = e
      BY <2>1, <2>2, <2>3, <2>4, <3>1
    <3> QED
      BY <2>1, <2>2, <3>2
  <2> QED
    BY <1>12, <2>5, <2>6
<1> QED
  BY <1>9, <1>15, <1>17, <1>18, <1>19, <1>20, <1>21, <1>22
  DEF IInv, MachinesKept, ListsAgree, UnitsKept

-----------------------------------------------------------------------------
(* The theorems *)

(* Every step of the three threads keeps the invariant.                    *)
LEMMA NextKept ==
  ASSUME IInv, [Next]_vars
  PROVE  IInv'
<1>1. CASE UNCHANGED vars
  <2>1. /\ recvPc' \in Managers \cup {"idle"} /\ sysState' \in SysStates
    BY <1>1 DEF vars, micVars, IInv, MachinesKept, TypeOK
  <2> QED
    BY <1>1, <2>1, QuietStep DEF vars, micVars
<1>2. ASSUME NEW m \in Managers, NEW t \in Terminals, NEW perm \in Permissions,
             Request(m, t, perm)
      PROVE  IInv'
  BY <1>2, RequestStep
<1>3. ASSUME NEW m \in Managers, NEW t \in Terminals, CancelTask(m, t) PROVE IInv'
  BY <1>3, CancelTaskStep
<1>4. CASE CancelAllTask
  BY <1>4, CancelAllTaskStep
<1>5. ASSUME NEW s \in SysStates, SetSysState(s) PROVE IInv'
  BY <1>5, SetSysStateStep
<1>6. ASSUME NEW t \in Terminals, DirectDisconnect(t) PROVE IInv'
  BY <1>6, DirectDisconnectStep
<1>7. ASSUME NEW t \in Terminals, ProtectionExpires(t) PROVE IInv'
  BY <1>7, ProtectionExpiresStep
<1>8. CASE ReceiveEvent
  BY <1>8, ReceiveEventStep
<1>9. CASE Tick
  BY <1>9, TickStep
<1>10. ASSUME NEW m \in Managers, Pass(m) PROVE IInv'
  BY <1>10, PassStep
<1>11. ASSUME NEW k \in inflight, NEW o \in Outcomes, Conclude(k, o) PROVE IInv'
  BY <1>11, ConcludeMachines, ConcludeChannels DEF IInv, MachinesKept
<1>12. CASE UpdateChannels
  BY <1>12, UpdateChannelsStep
<1> QED
  BY <1>1, <1>2, <1>3, <1>4, <1>5, <1>6, <1>7, <1>8, <1>9, <1>10, <1>11, <1>12
  DEF Next, ReceiveStep, EpollStep

LEMMA Kept == Spec => []IInv
<1>1. Init => IInv
  BY InitKept
<1>2. IInv /\ [Next]_vars => IInv'
  BY NextKept
<1> QED
  BY <1>1, <1>2, PTL DEF Spec

(* The machines and their queues agree, whatever the other threads do: no  *)
(* accepted request is lost or ended twice, and a machine finds the        *)
(* request it waits for where it left it.                                  *)
THEOREM RequestsCorrect == Spec => []RequestsKept
<1>1. IInv => RequestsKept
  BY DEF IInv, MachinesKept, RequestsKept
<1> QED
  BY <1>1, Kept, PTL

(* The outcome the connector takes is that of its own command, although    *)
(* the dispatch never looks at the talker of an event.                     *)
THEOREM ConnectOutcomeCorrect == Spec => []ConnectOutcomeIsOwn
<1>1. ASSUME IInv PROVE ConnectOutcomeIsOwn
  <2>1. OneConnect
    BY <1>1 DEF IInv, MachinesKept
  <2>2. ASSUME NEW x \in ConnectTalkers
        PROVE  \/ \E k \in inflight : k.cmd = "connect" /\ x = <<"command", k.term, k.chan>>
               \/ \E i \in DOMAIN acmpQueue :
                     acmpQueue[i].mgr = "CONNECTOR" /\ x = <<"event", acmpQueue[i].term, i>>
    BY DEF ConnectTalkers
  <2>3. \A x, y \in ConnectTalkers : x = y
    BY <2>1, <2>2 DEF OneConnect
  <2>4. Cardinality(ConnectTalkers) <= 1
    <3>1. CASE ConnectTalkers = {}
      BY <3>1, FS_EmptySet
    <3>2. CASE ConnectTalkers # {}
      <4>1. PICK x : ConnectTalkers = {x}
        BY <2>3, <3>2
      <4> QED
        BY <4>1, FS_Singleton
    <3> QED
      BY <3>1, <3>2
  <2>5. ASSUME NEW x \in ConnectTalkers PROVE ConnectorWaitsFor(x[2])
    BY <2>1, <2>2 DEF OneConnect
  <2> QED
    BY <2>4, <2>5 DEF ConnectOutcomeIsOwn, ConnectorWaitsFor
<1> QED
  BY <1>1, Kept, PTL

(* The receive unit's lists, counters and talkers agree, and a talker is   *)
(* heard through one channel only.                                         *)
THEOREM ListsCorrect == Spec => []ListsAgree
<1>1. IInv => ListsAgree
  BY DEF IInv
<1> QED
  BY <1>1, Kept, PTL

(* The host never believes in a stream the listener did not acknowledge.   *)
THEOREM AcknowledgedCorrect == Spec => []RecordedIsAcknowledged
<1>1. ASSUME IInv PROVE RecordedIsAcknowledged
  <2> SUFFICES ASSUME notifying = <<>> PROVE Recorded \subseteq acked
    BY DEF RecordedIsAcknowledged
  <2>1. ToSet(notifying) = {}
    BY DEF ToSet
  <2> QED
    BY <1>1, <2>1 DEF IInv, ListsAgree, AcksAhead
<1> QED
  BY <1>1, Kept, PTL
=============================================================================
