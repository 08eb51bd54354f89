-------------------------- MODULE Discussion_proofs --------------------------
(* Proofs about Discussion: the types, that what a microphone shows and    *)
(* what is heard agree, and that the lists of speakers and of applicants   *)
(* may be relied on, for every value of the constants.                     *)
EXTENDS Discussion, FiniteSetTheorems, SequenceTheorems, WellFoundedInduction, TLAPS

(* The requests of priority p are of terminals of that type. *)
Vips == {t \in Terminals : PriorOf[t] = 1}
Of(p) == {e \in Elements : PriorOf[e.term] = p}

Conf ==
    [edis_mode : Modes, limit_num : Limits,
     speak_addr_list : [Slots -> Common \cup {NoAddr}], speak_limit_num : Slots,
     vipSpeakList : [Slots -> Vips \cup {NoAddr}], vipSpkNum : Slots,
     apply_addr_list : [ApplySlots -> Common \cup {NoAddr}],
     apply_num : 0 .. ApplyLimit, currect_first_index : 0 .. MaxApply,
     mic_state : [Terminals -> MicStates], micSetPro : BOOLEAN,
     fSpkQueue : [Priors -> Seq(Elements)],
     reqQueues : [Managers -> [Priors -> Seq(Elements)]]]

QueuesOK(s) ==
    \A p \in Priors :
        /\ s.fSpkQueue[p] \in Seq(Of(p)) /\ Len(s.fSpkQueue[p]) < FsQueueSize[p]
        /\ \A g \in Managers : s.reqQueues[g][p] \in Seq(Of(p))

(* The places in use hold terminals; the others that an index outside the  *)
(* list can reach hold none.                                               *)
ApplicantsOK(s) ==
    /\ \A i \in 0 .. (s.apply_num - 1) : s.apply_addr_list[i] \in Common
    /\ \A i \in ApplySlots : i >= ApplyLimit => s.apply_addr_list[i] = NoAddr
    /\ s.currect_first_index >= s.apply_num => CurrentApplicant(s) = NoAddr

ConfOK(s) == s \in Conf /\ QueuesOK(s) /\ ApplicantsOK(s)

InList(s) ==
    s.edis_mode = "LIMIT" /\ s.apply_num > 0 =>
        s.currect_first_index < s.apply_num

Served(g) == Head(conf.reqQueues[g][machine[g][1]]).term

(* A machine at work has its request at the head of the queue, and one     *)
(* event at most is under way to it.                                       *)
Working ==
    /\ \A g \in Managers :
          machine[g] # <<>> => conf.reqQueues[g][machine[g][1]] # <<>>
    /\ ~past =>
         /\ direct = {}
         /\ \A i \in DOMAIN acmpQueue :
               \E p \in Priors : machine[acmpQueue[i].mgr] = <<p, "WAIT">>
         /\ \A i, j \in DOMAIN acmpQueue :
               acmpQueue[i].mgr = acmpQueue[j].mgr => i = j

(* What an event reports is so, or the other machine has undone it since.  *)
EventsTrue ==
    ~past => \A i \in DOMAIN acmpQueue :
        LET g == acmpQueue[i].mgr IN
        acmpQueue[i].ok =>
            \/ Done(g, Served(g))
            \/ \E j \in DOMAIN acmpQueue :
                  /\ j > i /\ acmpQueue[j].ok /\ acmpQueue[j].mgr # g
                  /\ Served(acmpQueue[j].mgr) = Served(g)

Asked(s, g, t) == Queued(s.reqQueues[g][PriorOf[t]], t) # {}
First(s, t) == Queued(s.fSpkQueue[PriorOf[t]], t) # {}

(* A microphone shown open is heard or about to be closed, one heard is    *)
(* shown open or about to be; and a terminal that never was opened twice,  *)
(* nor a speaker and an applicant, is only asked to open while it is not   *)
(* heard, and as a listed applicant only while it is not opened yet.       *)
MicOK(t) ==
    /\ conf.mic_state[t] = "OPEN" => t \in streams \/ Asked(conf, "DISCONNECTOR", t)
    /\ t \notin overlap =>
         /\ t \in streams /\ conf.mic_state[t] # "OPEN" => Asked(conf, "CONNECTOR", t)
         /\ First(conf, t) => t \notin streams
         /\ t \in Applicants(conf) \cap streams => BeingOpened(conf, t) > 0
         /\ Openings(conf, t) <= 1

Listed(s, t) == Places(s.speak_addr_list, s.speak_limit_num, t) # {}

(* A common terminal that is heard is in the list of speakers or about to  *)
(* be, one in the list is heard or about to be closed.                     *)
ListOK(t) ==
    t \in Common \ overlap /\ ~WasFull(conf) =>
        /\ t \in streams => Listed(conf, t) \/ Asked(conf, "CONNECTOR", t)
        /\ Listed(conf, t) => t \in streams \/ Asked(conf, "DISCONNECTOR", t)

Opened == ~past => \A t \in Terminals : MicOK(t) /\ ListOK(t)

(* The types of the variables but conf. *)
VarsOK ==
    /\ machine \in [Managers -> {<<>>} \cup {<<p, st>> : p \in Priors,
                                             st \in {"WAIT", "FAILED"}}]
    /\ acmpQueue \in Seq([mgr : Managers, ok : BOOLEAN])
    /\ streams \subseteq Terminals /\ direct \subseteq Terminals
    /\ keyPc \in {<<>>} \cup {<<[term |-> t, down |-> b]>> :
                                  t \in Terminals, b \in BOOLEAN}
    /\ ops \in 0 .. MaxOps /\ errors \in 0 .. MaxErrors
    /\ past \in BOOLEAN /\ overlap \subseteq Terminals

MicInv ==
    /\ VarsOK /\ ConfOK(conf) /\ InList(conf)
    /\ Working /\ EventsTrue /\ Opened

-----------------------------------------------------------------------------
SameMode(s, r) == r.edis_mode = s.edis_mode /\ r.limit_num = s.limit_num
SameSpeakers(s, r) ==
    /\ r.speak_addr_list = s.speak_addr_list /\ r.speak_limit_num = s.speak_limit_num
    /\ r.vipSpeakList = s.vipSpeakList /\ r.vipSpkNum = s.vipSpkNum
SameList(s, r) == r.apply_addr_list = s.apply_addr_list /\ r.apply_num = s.apply_num
SameQueues(s, r) == r.fSpkQueue = s.fSpkQueue /\ r.reqQueues = s.reqQueues

(* From s to r the requests to the manager stay, with their terminals, and *)
(* others may follow.  First-speak requests are added of terminals of      *)
(* K.asked only; microphones are opened of terminals of K.opened only, and *)
(* get another state of terminals of K.shown only; and likewise speakers   *)
(* are listed and taken from the list.                                     *)
Extends(s, r) ==
    \A g \in Managers, p \in Priors :
        /\ Len(s.reqQueues[g][p]) <= Len(r.reqQueues[g][p])
        /\ \A i \in 1 .. Len(s.reqQueues[g][p]) :
              r.reqQueues[g][p][i].term = s.reqQueues[g][p][i].term
Shown(s, r, K) ==
    \A t \in Terminals :
        \/ r.mic_state[t] = s.mic_state[t]
        \/ r.mic_state[t] = "OPEN" /\ t \in K.opened
        \/ r.mic_state[t] # "OPEN" /\ t \in K.shown
FirstOnly(s, r, K) == \A t \in Terminals : First(r, t) => First(s, t) \/ t \in K.asked
Listing(s, r, K) ==
    ~WasFull(r) =>
        /\ ~WasFull(s)
        /\ \A t \in Common :
              \/ Listed(r, t) <=> Listed(s, t)
              \/ Listed(r, t) /\ t \in K.opened
              \/ ~Listed(r, t) /\ t \in K.shown
Moves(s, r, K) ==
    Extends(s, r) /\ Shown(s, r, K) /\ FirstOnly(s, r, K) /\ Listing(s, r, K)

LEMMA SameListing ==
  ASSUME NEW s, NEW r, NEW K, r.speak_addr_list = s.speak_addr_list,
         r.speak_limit_num = s.speak_limit_num
  PROVE  Listing(s, r, K) /\ (WasFull(r) <=> WasFull(s))
         /\ \A t : Listed(r, t) <=> Listed(s, t)
BY DEF Listing, Listed, WasFull

LEMMA MovesTrans ==
  ASSUME NEW s \in Conf, NEW r \in Conf, NEW q \in Conf, NEW K,
         Moves(s, r, K), Moves(r, q, K)
  PROVE  Moves(s, q, K)
<1>1. Extends(s, q)
  <2>1. ASSUME NEW g \in Managers, NEW p \in Priors
        PROVE  /\ Len(s.reqQueues[g][p]) <= Len(q.reqQueues[g][p])
               /\ \A i \in 1 .. Len(s.reqQueues[g][p]) :
                     q.reqQueues[g][p][i].term = s.reqQueues[g][p][i].term
    <3> DEFINE a == s.reqQueues[g][p]
               b == r.reqQueues[g][p]
               c == q.reqQueues[g][p]
    <3>1. a \in Seq(Elements) /\ b \in Seq(Elements) /\ c \in Seq(Elements)
      BY DEF Conf
    <3>2. /\ Len(a) <= Len(b) /\ \A i \in 1 .. Len(a) : b[i].term = a[i].term
          /\ Len(b) <= Len(c) /\ \A i \in 1 .. Len(b) : c[i].term = b[i].term
      BY DEF Moves, Extends
    <3> HIDE DEF a, b, c
    <3>3. Len(a) \in Nat /\ Len(b) \in Nat /\ Len(c) \in Nat
      BY <3>1, LenProperties
    <3>4. Len(a) <= Len(c) /\ \A i \in 1 .. Len(a) : c[i].term = a[i].term
      BY <3>2, <3>3
    <3> QED
      BY <3>4 DEF a, c
  <2> QED
    BY <2>1 DEF Extends
<1>2. Shown(s, q, K)
  BY DEF Moves, Shown
<1>3. FirstOnly(s, q, K)
  BY DEF Moves, FirstOnly
<1>4. Listing(s, q, K)
  BY DEF Moves, Listing
<1> QED
  BY <1>1, <1>2, <1>3, <1>4 DEF Moves

(* A step that leaves the requests alone. *)
LEMMA MovesByMic ==
  ASSUME NEW s \in Conf, NEW r \in Conf, NEW K,
         SameQueues(s, r), Shown(s, r, K), SameSpeakers(s, r) \/ Listing(s, r, K)
  PROVE  Moves(s, r, K)
<1>1. \A g \in Managers, p \in Priors : Len(s.reqQueues[g][p]) \in Nat
  BY LenProperties DEF Conf
<1>2. Extends(s, r)
  BY <1>1 DEF Extends, SameQueues
<1>3. FirstOnly(s, r, K)
  BY DEF FirstOnly, First, SameQueues
<1>4. Listing(s, r, K)
  BY SameListing DEF SameSpeakers
<1> QED
  BY <1>2, <1>3, <1>4 DEF Moves

LEMMA FrameOK ==
  ASSUME NEW s, ConfOK(s), NEW r \in Conf, SameQueues(s, r), SameList(s, r),
         \/ r.currect_first_index = s.currect_first_index
         \/ r.currect_first_index < r.apply_num
         \/ CurrentApplicant(r) = NoAddr
  PROVE  ConfOK(r) /\ Applicants(r) = Applicants(s)
<1>1. QueuesOK(r)
  BY DEF ConfOK, QueuesOK, SameQueues
<1>2. ApplicantsOK(r)
  BY DiscussionAssumption DEF ConfOK, ApplicantsOK, SameList, CurrentApplicant, ApplicantAt,
     ApplySlots, Conf, DiscussionAssumption
<1> QED
  BY <1>1, <1>2 DEF ConfOK, Applicants, SameList

LEMMA SetMicFields ==
  ASSUME NEW s \in Conf, NEW t \in Terminals, NEW mic \in MicStates
  PROVE  LET r == SetMic(s, t, mic)
         IN /\ r \in Conf
            /\ SameMode(s, r) /\ SameSpeakers(s, r) /\ SameList(s, r) /\ SameQueues(s, r)
            /\ r.currect_first_index = s.currect_first_index
            /\ r.micSetPro = s.micSetPro
            /\ r.mic_state = [s.mic_state EXCEPT ![t] = mic]
<1>1. t # NoAddr
  BY DiscussionAssumption DEF DiscussionAssumption
<1>2. SetMic(s, t, mic) = [s EXCEPT !.mic_state[t] = mic]
  BY <1>1 DEF SetMic
<1>3. [s EXCEPT !.mic_state[t] = mic] \in Conf
  BY DEF Conf
<1> QED
  BY <1>2, <1>3 DEF Conf, SameMode, SameSpeakers, SameList, SameQueues

Kept(s, r) ==
    SameMode(s, r) /\ SameSpeakers(s, r) /\ SameList(s, r) /\ SameQueues(s, r)

(* An applicant is a common terminal. *)
LEMMA ApplicantFacts ==
  ASSUME NEW s, ConfOK(s)
  PROVE  /\ Applicants(s) \subseteq Common /\ Common \subseteq Terminals
         /\ NoAddr \notin Terminals
         /\ s.apply_num \in Nat /\ s.currect_first_index \in Nat
         /\ CurrentApplicant(s) \in Applicants(s) \cup {NoAddr}
         /\ s.currect_first_index < s.apply_num => CurrentApplicant(s) \in Applicants(s)
<1>1. /\ NoAddr \notin Terminals /\ MaxApply \in Nat /\ ApplyLimit \in Nat
      /\ ApplyLimit <= MaxApply
  BY DiscussionAssumption DEF DiscussionAssumption
<1>2. s.apply_num \in 0 .. ApplyLimit /\ s.currect_first_index \in 0 .. MaxApply
  BY DEF ConfOK, Conf
<1>3. \A i \in 0 .. (s.apply_num - 1) : s.apply_addr_list[i] \in Common
  BY DEF ConfOK, ApplicantsOK
<1>4. Applicants(s) \subseteq Common
  BY <1>3 DEF Applicants
<1>5. s.currect_first_index >= s.apply_num => CurrentApplicant(s) = NoAddr
  BY DEF ConfOK, ApplicantsOK
<1>6. s.currect_first_index < s.apply_num => CurrentApplicant(s) \in Applicants(s)
  BY <1>1, <1>2 DEF CurrentApplicant, ApplicantAt, Applicants, ApplySlots
<1> QED
  BY <1>1, <1>2, <1>4, <1>5, <1>6 DEF Common

LEMMA SetMicOK ==
  ASSUME NEW s, ConfOK(s), NEW t \in Terminals \cup {NoAddr},
         NEW mic \in MicStates \ {"OPEN"}, NEW K, t = NoAddr \/ t \in K.shown
  PROVE  LET r == SetMic(s, t, mic)
         IN /\ ConfOK(r) /\ Kept(s, r) /\ Moves(s, r, K)
            /\ r.currect_first_index = s.currect_first_index
            /\ r.micSetPro = s.micSetPro
            /\ \A u \in Terminals :
                  r.mic_state[u] = IF u = t THEN mic ELSE s.mic_state[u]
<1> DEFINE r == SetMic(s, t, mic)
<1>1. s \in Conf /\ \A u \in Terminals : s.mic_state[u] \in MicStates
  BY DEF ConfOK, Conf
<1>2. CASE t = NoAddr
  <2>1. r = s
    BY <1>2 DEF SetMic
  <2>2. NoAddr \notin Terminals
    BY ApplicantFacts
  <2>3. Kept(s, s) /\ Shown(s, s, K)
    BY DEF Kept, SameMode, SameSpeakers, SameList, SameQueues, Shown
  <2> QED
    BY <1>1, <1>2, <2>1, <2>2, <2>3, MovesByMic DEF Kept
<1>3. CASE t \in Terminals
  <2>1. /\ r \in Conf /\ Kept(s, r)
        /\ r.currect_first_index = s.currect_first_index
        /\ r.micSetPro = s.micSetPro
        /\ r.mic_state = [s.mic_state EXCEPT ![t] = mic]
    BY <1>1, <1>3, SetMicFields DEF Kept
  <2>2. t \in K.shown /\ s.mic_state \in [Terminals -> MicStates]
    BY <1>1, <1>3, ApplicantFacts DEF Conf
  <2>3. \A u \in Terminals :
            r.mic_state[u] = IF u = t THEN mic ELSE s.mic_state[u]
    BY <1>3, <2>1, <2>2
  <2> HIDE DEF r
  <2>4. Shown(s, r, K)
    BY <2>2, <2>3 DEF Shown
  <2>5. ConfOK(r) /\ Moves(s, r, K)
    BY <1>1, <2>1, <2>4, MovesByMic, FrameOK DEF Kept
  <2> QED
    BY <2>1, <2>3, <2>5 DEF r
<1> QED
  BY <1>2, <1>3

LEMMA SetMicAfterOK ==
  ASSUME NEW s, ConfOK(s), NEW t \in Terminals \cup {NoAddr},
         NEW mic \in MicStates \ {"OPEN"}, NEW K, t = NoAddr \/ t \in K.shown
  PROVE  LET r == SetMicAfterTime(s, t, mic)
         IN /\ ConfOK(r) /\ Kept(s, r) /\ Moves(s, r, K)
            /\ r.currect_first_index = s.currect_first_index
<1> DEFINE q == SetMic(s, t, mic)
           r == [q EXCEPT !.micSetPro = TRUE]
<1>1. /\ ConfOK(q) /\ Kept(s, q) /\ Moves(s, q, K)
      /\ q.currect_first_index = s.currect_first_index
  BY SetMicOK
<1>2. CASE s.micSetPro
  <2>1. Kept(s, s) /\ Shown(s, s, K) /\ s \in Conf
    BY DEF Kept, SameMode, SameSpeakers, SameList, SameQueues, Shown, ConfOK
  <2> QED
    BY <1>2, <2>1, MovesByMic DEF SetMicAfterTime, Kept
<1>3. CASE ~s.micSetPro
  <2>1. q \in Conf /\ s \in Conf
    BY <1>1 DEF ConfOK
  <2> HIDE DEF q
  <2>2. /\ r \in Conf /\ Kept(q, r) /\ r.mic_state = q.mic_state
        /\ r.currect_first_index = q.currect_first_index
    BY <2>1 DEF Conf, Kept, SameMode, SameSpeakers, SameList, SameQueues
  <2> HIDE DEF r
  <2>3. ConfOK(r) /\ Moves(q, r, K)
    BY <1>1, <2>1, <2>2, MovesByMic, FrameOK DEF Kept, Shown
  <2>4. Moves(s, r, K)
    BY <1>1, <2>1, <2>2, <2>3, MovesTrans
  <2>5. Kept(s, r)
    BY <1>1, <2>2 DEF Kept, SameMode, SameSpeakers, SameList, SameQueues
  <2>6. SetMicAfterTime(s, t, mic) = r
    BY <1>3 DEF SetMicAfterTime, r, q
  <2> QED
    BY <1>1, <2>2, <2>3, <2>4, <2>5, <2>6
<1> QED
  BY <1>2, <1>3

LEMMA KeptTrans ==
  ASSUME NEW s, NEW r, NEW q, Kept(s, r), Kept(r, q)
  PROVE  Kept(s, q)
BY DEF Kept, SameMode, SameSpeakers, SameList, SameQueues

LEMMA WrappedOK ==
  ASSUME NEW s, ConfOK(s), s.apply_num > 0, NEW K
  PROVE  LET r == Wrapped(s)
         IN /\ ConfOK(r) /\ Kept(s, r) /\ Moves(s, r, K)
            /\ r.currect_first_index < r.apply_num
            /\ CurrentApplicant(r) \in Applicants(s)
            /\ r.mic_state = s.mic_state
<1> DEFINE r == Wrapped(s)
<1>1. /\ s \in Conf /\ MaxApply \in Nat /\ ApplyLimit \in Nat /\ ApplyLimit <= MaxApply
      /\ s.apply_num \in 1 .. ApplyLimit /\ s.currect_first_index \in 0 .. MaxApply
  BY DiscussionAssumption DEF DiscussionAssumption, ConfOK, Conf
<1>2. s.currect_first_index % s.apply_num \in 0 .. (s.apply_num - 1)
  BY <1>1
<1>3. s.currect_first_index % s.apply_num \in 0 .. MaxApply
  BY <1>1, <1>2
<1>4. /\ r \in Conf /\ Kept(s, r) /\ r.mic_state = s.mic_state
      /\ r.currect_first_index = s.currect_first_index % s.apply_num
  BY <1>1, <1>3 DEF Wrapped, Conf, Kept, SameMode, SameSpeakers, SameList, SameQueues
<1> HIDE DEF r
<1>5. r.apply_num = s.apply_num /\ r.currect_first_index < r.apply_num
  BY <1>1, <1>2, <1>4 DEF Kept, SameList
<1>6. ConfOK(r) /\ Applicants(r) = Applicants(s)
  BY <1>4, <1>5, FrameOK DEF Kept
<1>7. Moves(s, r, K)
  BY <1>1, <1>4, MovesByMic DEF Kept, Shown
<1> QED
  BY <1>4, <1>5, <1>6, <1>7, ApplicantFacts DEF r

(* The applicant that is shown as the first one is in the list. *)
LEMMA NextAfterOK ==
  ASSUME NEW s, ConfOK(s), NEW none \in {ApplyLimit, MaxApply},
         NEW K, Applicants(s) \subseteq K.shown
  PROVE  LET r == NextAfterTime(s, none)
         IN /\ ConfOK(r) /\ Kept(s, r) /\ Moves(s, r, K)
            /\ r.apply_num > 0 => r.currect_first_index < r.apply_num
            /\ r.apply_num = 0 => r.currect_first_index = none
<1> DEFINE w == Wrapped(s)
           r == SetMicAfterTime(w, CurrentApplicant(w), "FIRST_APPLY")
           e == [s EXCEPT !.currect_first_index = none]
<1>1. s \in Conf /\ s.apply_num \in Nat
  BY ApplicantFacts DEF ConfOK
<1>2. CASE s.apply_num > 0
  <2>1. /\ ConfOK(w) /\ Kept(s, w) /\ Moves(s, w, K)
        /\ w.currect_first_index < w.apply_num
        /\ CurrentApplicant(w) \in Applicants(s)
    BY <1>2, WrappedOK
  <2>2. NextAfterTime(s, none) = r
    BY <1>2 DEF NextAfterTime
  <2> HIDE DEF w
  <2>3. CurrentApplicant(w) \in Terminals /\ "FIRST_APPLY" \in MicStates \ {"OPEN"}
    BY <2>1, ApplicantFacts DEF MicStates
  <2>4. /\ ConfOK(r) /\ Kept(w, r) /\ Moves(w, r, K)
        /\ r.currect_first_index = w.currect_first_index
    BY <2>1, <2>3, SetMicAfterOK
  <2> HIDE DEF r
  <2>5. Moves(s, r, K) /\ Kept(s, r)
    BY <1>1, <2>1, <2>4, MovesTrans, KeptTrans DEF ConfOK
  <2>6. r.apply_num = s.apply_num /\ w.apply_num = s.apply_num
    BY <2>1, <2>5 DEF Kept, SameList
  <2> QED
    BY <1>2, <2>1, <2>2, <2>4, <2>5, <2>6
<1>3. CASE ~(s.apply_num > 0)
  <2>1. NextAfterTime(s, none) = e
    BY <1>3 DEF NextAfterTime
  <2>2. none \in 0 .. MaxApply
    BY DiscussionAssumption DEF DiscussionAssumption
  <2>3. /\ e \in Conf /\ Kept(s, e) /\ e.mic_state = s.mic_state
        /\ e.currect_first_index = none
    BY <1>1, <2>2 DEF Conf, Kept, SameMode, SameSpeakers, SameList, SameQueues
  <2> HIDE DEF e
  <2>4. CurrentApplicant(e) = NoAddr
    BY <2>2, <2>3, DiscussionAssumption
    DEF DiscussionAssumption, CurrentApplicant, ApplicantAt, ConfOK, ApplicantsOK, Kept,
        SameList, ApplySlots
  <2>5. ConfOK(e) /\ Moves(s, e, K)
    BY <1>1, <2>3, <2>4, FrameOK, MovesByMic DEF Kept, Shown
  <2>6. e.apply_num = 0
    BY <1>1, <1>3, <2>3 DEF Kept, SameList
  <2> QED
    BY <2>1, <2>3, <2>5, <2>6
<1> QED
  BY <1>2, <1>3

LEMMA ListFirstOK ==
  ASSUME NEW s, ConfOK(s), s.apply_num = 0 => s.apply_addr_list[0] = NoAddr,
         NEW K, Applicants(s) \subseteq K.shown
  PROVE  LET r == ListFirstSpeak(s)
         IN /\ ConfOK(r) /\ Kept(s, r) /\ Moves(s, r, K)
            /\ r.apply_num > 0 => r.currect_first_index < r.apply_num
            /\ r.currect_first_index \in Nat /\ r.currect_first_index < MaxApply
<1> DEFINE w == Wrapped(s)
           r == SetMic(w, CurrentApplicant(w), "FIRST_APPLY")
           e == [s EXCEPT !.currect_first_index = 0]
<1>1. s \in Conf /\ s.apply_num \in 0 .. ApplyLimit /\ ApplyLimit <= MaxApply
      /\ ApplyLimit \in Nat /\ MaxApply \in Nat \ {0}
  BY DiscussionAssumption DEF DiscussionAssumption, ConfOK, Conf
<1>2. CASE s.apply_num > 0
  <2>1. /\ ConfOK(w) /\ Kept(s, w) /\ Moves(s, w, K)
        /\ w.currect_first_index < w.apply_num
        /\ CurrentApplicant(w) \in Applicants(s)
    BY <1>2, WrappedOK
  <2>2. ListFirstSpeak(s) = r
    BY <1>2 DEF ListFirstSpeak
  <2> HIDE DEF w
  <2>3. CurrentApplicant(w) \in Terminals /\ "FIRST_APPLY" \in MicStates \ {"OPEN"}
    BY <2>1, ApplicantFacts DEF MicStates
  <2>4. /\ ConfOK(r) /\ Kept(w, r) /\ Moves(w, r, K)
        /\ r.currect_first_index = w.currect_first_index
    BY <2>1, <2>3, SetMicOK
  <2> HIDE DEF r
  <2>5. Moves(s, r, K) /\ Kept(s, r)
    BY <1>1, <2>1, <2>4, MovesTrans, KeptTrans DEF ConfOK
  <2>6. r.apply_num = s.apply_num /\ w.apply_num = s.apply_num
    BY <2>1, <2>5 DEF Kept, SameList
  <2>7. r.currect_first_index \in Nat
    BY <2>4, ApplicantFacts
  <2> QED
    BY <1>1, <1>2, <2>1, <2>2, <2>4, <2>5, <2>6, <2>7
<1>3. CASE ~(s.apply_num > 0)
  <2>1. ListFirstSpeak(s) = e
    BY <1>3 DEF ListFirstSpeak
  <2>2. /\ e \in Conf /\ Kept(s, e) /\ e.mic_state = s.mic_state
        /\ e.currect_first_index = 0
    <3>1. 0 \in 0 .. MaxApply
      BY <1>1
    <3> QED
      BY <1>1, <3>1 DEF Conf, Kept, SameMode, SameSpeakers, SameList, SameQueues
  <2> HIDE DEF e
  <2>3. CurrentApplicant(e) = NoAddr
    BY <1>1, <1>3, <2>2 DEF CurrentApplicant, ApplicantAt, Kept, SameList
  <2>4. ConfOK(e) /\ Moves(s, e, K)
    BY <1>1, <2>2, <2>3, FrameOK, MovesByMic DEF Kept, Shown
  <2>5. e.apply_num = 0
    BY <1>1, <1>3, <2>2 DEF Kept, SameList
  <2> QED
    BY <1>1, <2>1, <2>2, <2>4, <2>5
<1> QED
  BY <1>2, <1>3

(* The address list without the place i. *)
LEMMA DeletedFields ==
  ASSUME NEW l, DOMAIN l = ApplySlots, NEW n \in 1 .. MaxApply,
         NEW i \in 0 .. (n - 1)
  PROVE  LET d == DeletedAt(l, n, i)
         IN /\ d = [k \in ApplySlots |-> d[k]] /\ d[n - 1] = NoAddr
            /\ \A k \in ApplySlots :
                  /\ k < i => d[k] = l[k]
                  /\ i <= k /\ k < n - 1 => d[k] = l[k + 1]
                  /\ k >= n => d[k] = l[k]
<1>1. MaxApply \in Nat
  BY DiscussionAssumption DEF DiscussionAssumption
<1> QED
  BY <1>1 DEF DeletedAt, ApplySlots

Apart(s, r) == SameMode(s, r) /\ SameSpeakers(s, r) /\ SameQueues(s, r)

LEMMA DeleteAtOK ==
  ASSUME NEW s, ConfOK(s), NEW i \in Nat, NEW K
  PROVE  LET r == DeleteApplicantAt(s, i)
         IN /\ ConfOK(r) /\ Apart(s, r) /\ Moves(s, r, K)
            /\ r.mic_state = s.mic_state
            /\ r.currect_first_index = s.currect_first_index
            /\ Applicants(r) \subseteq Applicants(s)
            /\ Applicants(s) \subseteq Applicants(r) \cup {ApplicantAt(s, i)}
            /\ i >= s.apply_num => r = s
            /\ i < s.apply_num => /\ r.apply_num = s.apply_num - 1
                                  /\ r.apply_addr_list[r.apply_num] = NoAddr
<1> DEFINE l == s.apply_addr_list
           n == s.apply_num
           d == DeletedAt(l, n, i)
           r == [s EXCEPT !.apply_addr_list = d, !.apply_num = n - 1]
<1>1. /\ s \in Conf /\ n \in 0 .. ApplyLimit /\ ApplyLimit \in 1 .. MaxApply
      /\ MaxApply \in Nat \ {0} /\ l \in [ApplySlots -> Common \cup {NoAddr}]
      /\ s.currect_first_index \in 0 .. MaxApply
  BY DiscussionAssumption DEF DiscussionAssumption, ConfOK, Conf
<1>2. CASE i >= n
  <2>1. DeleteApplicantAt(s, i) = s
    BY <1>2 DEF DeleteApplicantAt
  <2>2. Apart(s, s) /\ Shown(s, s, K) /\ SameQueues(s, s)
    BY DEF Apart, SameMode, SameSpeakers, SameQueues, Shown
  <2>3. Moves(s, s, K)
    BY <1>1, <2>2, MovesByMic DEF Apart
  <2>4. ~(i < n)
    BY <1>1, <1>2
  <2> QED
    BY <2>1, <2>2, <2>3, <2>4
<1>3. CASE i < n
  <2>1. n \in 1 .. MaxApply /\ i \in 0 .. (n - 1)
    BY <1>1, <1>3
  <2>2. DeleteApplicantAt(s, i) = r
    BY <1>1, <1>3 DEF DeleteApplicantAt
  <2>3. /\ d = [k \in ApplySlots |-> d[k]] /\ d[n - 1] = NoAddr
        /\ \A k \in ApplySlots :
              /\ k < i => d[k] = l[k]
              /\ i <= k /\ k < n - 1 => d[k] = l[k + 1]
              /\ k >= n => d[k] = l[k]
    <3>1. DOMAIN l = ApplySlots
      BY <1>1
    <3> HIDE DEF l, n
    <3> QED
      BY <2>1, <3>1, DeletedFields
  <2> HIDE DEF d
  <2>4. d \in [ApplySlots -> Common \cup {NoAddr}]
    <3>1. \A k \in ApplySlots : d[k] \in Common \cup {NoAddr}
      <4> SUFFICES ASSUME NEW k \in ApplySlots PROVE d[k] \in Common \cup {NoAddr}
        OBVIOUS
      <4>1. \A j \in ApplySlots : l[j] \in Common \cup {NoAddr}
        BY <1>1
      <4> HIDE DEF l, n
      <4>2. k \in Nat /\ (k < n - 1 => k + 1 \in ApplySlots)
        BY <1>1, <2>1 DEF ApplySlots
      <4>3. k < i \/ (i <= k /\ k < n - 1) \/ k = n - 1 \/ k >= n
        BY <2>1, <4>2
      <4> QED
        BY <2>3, <4>1, <4>2, <4>3
    <3> HIDE DEF l, n
    <3> QED
      BY <2>3, <3>1
  <2>5. n - 1 \in 0 .. ApplyLimit
    BY <1>1, <2>1
  <2>6. /\ r \in Conf /\ Apart(s, r) /\ r.mic_state = s.mic_state
        /\ r.currect_first_index = s.currect_first_index
        /\ r.apply_addr_list = d /\ r.apply_num = n - 1
    BY <1>1, <2>4, <2>5 DEF Conf, Apart, SameMode, SameSpeakers, SameQueues
  <2> HIDE DEF r, l, n
  <2>7. \A k \in 0 .. (n - 1) : k \in ApplySlots /\ l[k] \in Common
    BY <1>1, <2>1 DEF ApplySlots, ConfOK, ApplicantsOK, l, n
  <2>8. /\ Applicants(s) = {l[k] : k \in 0 .. (n - 1)}
        /\ Applicants(r) = {d[k] : k \in 0 .. (n - 2)}
        /\ ApplicantAt(s, i) = l[i]
    BY <1>1, <2>1, <2>6, <2>7 DEF Applicants, l, n, ApplicantAt
  <2>9. ApplicantsOK(r)
    <3>1. \A k \in 0 .. (n - 2) : d[k] \in Common
      BY <2>1, <2>3, <2>7
    <3>2. \A k \in ApplySlots : k >= ApplyLimit => l[k] = NoAddr
      BY DEF ConfOK, ApplicantsOK, l
    <3>3. \A k \in ApplySlots : k >= ApplyLimit => d[k] = NoAddr
      BY <1>1, <2>1, <2>3, <3>2 DEF ApplySlots
    <3>4. \A k \in ApplySlots : k >= n /\ k = s.currect_first_index => l[k] = NoAddr
      BY <1>1 DEF ConfOK, ApplicantsOK, CurrentApplicant, ApplicantAt, l, n
    <3>5. r.currect_first_index >= n - 1 => CurrentApplicant(r) = NoAddr
      <4> SUFFICES ASSUME s.currect_first_index >= n - 1, s.currect_first_index \in ApplySlots
                   PROVE  d[s.currect_first_index] = NoAddr
        BY <2>6 DEF CurrentApplicant, ApplicantAt
      <4> QED
        BY <1>1, <2>1, <2>3, <3>4
    <3> QED
      BY <1>1, <2>1, <2>6, <3>1, <3>3, <3>5 DEF ApplicantsOK
  <2>10. QueuesOK(r)
    BY <2>6 DEF Apart, SameQueues, ConfOK, QueuesOK
  <2>11. Moves(s, r, K)
    BY <1>1, <2>6, MovesByMic DEF Apart, Shown
  <2>12. Applicants(r) \subseteq Applicants(s)
    BY <1>1, <2>1, <2>3, <2>7, <2>8
  <2>13. Applicants(s) \subseteq Applicants(r) \cup {ApplicantAt(s, i)}
    <3>1. \A k \in 0 .. (n - 1) : k < i => d[k] = l[k] /\ k \in 0 .. (n - 2)
      BY <1>1, <2>1, <2>3, <2>7
    <3>2. \A k \in 0 .. (n - 1) : k > i => d[k - 1] = l[k] /\ k - 1 \in 0 .. (n - 2)
      BY <1>1, <2>1, <2>3, <2>7
    <3> QED
      BY <2>1, <2>8, <3>1, <3>2
  <2> QED
    BY <1>1, <1>3, <2>1, <2>2, <2>3, <2>6, <2>9, <2>10, <2>11, <2>12, <2>13 DEF ConfOK, n
<1> QED
  BY <1>1, <1>2, <1>3

(* A set of numbers has a least one. *)
LEMMA LeastNumber ==
  ASSUME NEW T, T \subseteq Nat, T # {}
  PROVE  Min(T) \in T /\ \A y \in T : Min(T) <= y
<1>1. PICK x \in T : \A y \in T : ~(<<y, x>> \in OpToRel(<, Nat))
  BY NatLessThanWellFounded, WFMin
<1>2. ASSUME NEW y \in T PROVE x <= y
  <2>1. x \in Nat /\ y \in Nat
    OBVIOUS
  <2>2. ~(y < x)
    BY <1>1, <2>1 DEF OpToRel
  <2> QED
    BY <2>1, <2>2
<1>3. \E z \in T : \A y \in T : z =< y
  BY <1>2
<1> QED
  BY <1>3 DEF Min

LEMMA DeleteOK ==
  ASSUME NEW s, ConfOK(s), NEW t, NEW K
  PROVE  LET r == DeleteApplicant(s, t)
         IN /\ ConfOK(r) /\ Apart(s, r) /\ Moves(s, r, K)
            /\ r.mic_state = s.mic_state
            /\ r.currect_first_index = s.currect_first_index
            /\ Applicants(r) \subseteq Applicants(s)
            /\ Applicants(s) \subseteq Applicants(r) \cup {t}
            /\ r = s \/ (t \in Applicants(s) /\ r.apply_addr_list[r.apply_num] = NoAddr)
            /\ t \in Applicants(s) => r.apply_num = s.apply_num - 1
<1> DEFINE at == Places(s.apply_addr_list, s.apply_num, t)
           r == DeleteApplicant(s, t)
<1>1. s.apply_num \in 0 .. ApplyLimit /\ ApplyLimit \in 1 .. MaxApply /\ MaxApply \in Nat
  BY DiscussionAssumption DEF DiscussionAssumption, ConfOK, Conf
<1>2. at = {} <=> t \notin Applicants(s)
  BY DEF Places, Applicants
<1>3. CASE at = {}
  <2>1. r = s
    BY <1>3 DEF DeleteApplicant
  <2>2. Apart(s, s) /\ Shown(s, s, K) /\ SameQueues(s, s)
    BY DEF Apart, SameMode, SameSpeakers, SameQueues, Shown
  <2>3. Moves(s, s, K)
    BY <2>2, MovesByMic DEF ConfOK, Apart
  <2> HIDE DEF r
  <2>4. /\ ConfOK(r) /\ Apart(s, r) /\ Moves(s, r, K) /\ t \notin Applicants(s)
    BY <1>2, <1>3, <2>1, <2>2, <2>3
  <2> QED
    BY <2>1, <2>4 DEF r
<1>4. CASE at # {}
  <2>1. at \subseteq Nat /\ at \subseteq 0 .. (s.apply_num - 1)
    BY <1>1 DEF Places
  <2>2. Min(at) \in at
    BY <1>4, <2>1, LeastNumber
  <2>3. /\ Min(at) \in Nat /\ Min(at) < s.apply_num
        /\ Min(at) \in 0 .. (s.apply_num - 1) /\ s.apply_addr_list[Min(at)] = t
    BY <1>1, <2>2 DEF Places
  <2>4. ApplicantAt(s, Min(at)) = t
    BY <1>1, <2>3 DEF ApplicantAt, ApplySlots
  <2>5. r = DeleteApplicantAt(s, Min(at))
    BY <1>4 DEF DeleteApplicant
  <2> HIDE DEF r
  <2>6. /\ ConfOK(r) /\ Apart(s, r) /\ Moves(s, r, K)
        /\ r.mic_state = s.mic_state
        /\ r.currect_first_index = s.currect_first_index
        /\ Applicants(r) \subseteq Applicants(s)
        /\ Applicants(s) \subseteq Applicants(r) \cup {t}
        /\ r.apply_num = s.apply_num - 1
        /\ r.apply_addr_list[r.apply_num] = NoAddr
    BY <2>3, <2>4, <2>5, DeleteAtOK
  <2> QED
    BY <1>2, <1>4, <2>6 DEF r
<1> QED
  BY <1>3, <1>4

LEMMA PostApplyOK ==
  ASSUME NEW s, ConfOK(s), NEW t \in Common, s.apply_num < ApplyLimit,
         NEW K, t \in K.shown
  PROVE  LET r == PostApply(s, t)
         IN /\ ConfOK(r) /\ Apart(s, r) /\ Moves(s, r, K)
            /\ Applicants(r) = Applicants(s) \cup {t}
            /\ InList(s) => InList(r)
<1> DEFINE n == s.apply_num
           l == [s.apply_addr_list EXCEPT ![n] = t]
           x == IF n = 0 THEN 0 ELSE s.currect_first_index
           mic == IF n = 0 THEN "FIRST_APPLY" ELSE "OTHER_APPLY"
           r == PostApply(s, t)
<1>1. /\ s \in Conf /\ n \in 0 .. ApplyLimit /\ ApplyLimit \in 1 .. MaxApply
      /\ MaxApply \in Nat \ {0} /\ s.apply_addr_list \in [ApplySlots -> Common \cup {NoAddr}]
      /\ s.currect_first_index \in 0 .. MaxApply /\ t \in Terminals
  BY DiscussionAssumption DEF DiscussionAssumption, ConfOK, Conf, Common
<1>2. /\ n \in ApplySlots /\ n + 1 \in 0 .. ApplyLimit /\ x \in 0 .. MaxApply
      /\ mic \in MicStates /\ mic # "OPEN"
  BY <1>1 DEF ApplySlots, MicStates
<1>3. r = [s EXCEPT !.apply_addr_list = l, !.apply_num = n + 1,
                    !.currect_first_index = x, !.mic_state = [s.mic_state EXCEPT ![t] = mic]]
  BY DEF PostApply
<1>4. l \in [ApplySlots -> Common \cup {NoAddr}]
  BY <1>1
<1> HIDE DEF r, l, x, mic
<1>5. /\ r \in Conf /\ Apart(s, r)
      /\ r.apply_addr_list = l /\ r.apply_num = n + 1 /\ r.currect_first_index = x
      /\ r.mic_state = [s.mic_state EXCEPT ![t] = mic]
  BY <1>1, <1>2, <1>3, <1>4 DEF Conf, Apart, SameMode, SameSpeakers, SameQueues
<1>6. Shown(s, r, K)
  BY <1>1, <1>2, <1>5 DEF Shown, Conf
<1>7. Moves(s, r, K)
  BY <1>1, <1>5, <1>6, MovesByMic DEF Apart
<1>8. \A k \in ApplySlots : l[k] = IF k = n THEN t ELSE s.apply_addr_list[k]
  BY <1>1 DEF l
<1>9. \A k \in 0 .. n : k \in ApplySlots
  BY <1>1, <1>2 DEF ApplySlots
<1>10. Applicants(r) = Applicants(s) \cup {t}
  <2>1. Applicants(r) = {l[k] : k \in 0 .. n}
    BY <1>1, <1>5 DEF Applicants
  <2>2. Applicants(s) = {s.apply_addr_list[k] : k \in 0 .. (n - 1)}
    BY DEF Applicants
  <2>3. \A k \in 0 .. (n - 1) : k \in 0 .. n /\ l[k] = s.apply_addr_list[k]
    BY <1>1, <1>8, <1>9
  <2>4. n \in 0 .. n /\ l[n] = t /\ \A k \in 0 .. n : k = n \/ k \in 0 .. (n - 1)
    BY <1>1, <1>2, <1>8
  <2> QED
    BY <2>1, <2>2, <2>3, <2>4
<1>11. ApplicantsOK(r)
  <2>1. \A k \in 0 .. (n - 1) : s.apply_addr_list[k] \in Common
    BY DEF ConfOK, ApplicantsOK
  <2>2. \A k \in 0 .. n : l[k] \in Common
    BY <1>1, <1>8, <1>9, <2>1
  <2>3. \A k \in ApplySlots : k >= ApplyLimit => l[k] = NoAddr
    BY <1>1, <1>8 DEF ConfOK, ApplicantsOK, ApplySlots
  <2>4. x >= n + 1 => CurrentApplicant(r) = NoAddr
    <3> SUFFICES ASSUME x >= n + 1, x \in ApplySlots PROVE l[x] = NoAddr
      BY <1>5 DEF CurrentApplicant, ApplicantAt
    <3>1. x = s.currect_first_index /\ x >= n /\ x # n
      BY <1>1 DEF x
    <3>2. s.apply_addr_list[x] = NoAddr
      BY <3>1 DEF ConfOK, ApplicantsOK, CurrentApplicant, ApplicantAt
    <3> QED
      BY <1>8, <3>1, <3>2
  <2> QED
    BY <1>1, <1>5, <2>2, <2>3, <2>4 DEF ApplicantsOK
<1>12. QueuesOK(r)
  BY <1>5 DEF Apart, SameQueues, ConfOK, QueuesOK
<1>13. InList(s) => InList(r)
  BY <1>1, <1>5 DEF InList, Apart, SameMode, x
<1> QED
  BY <1>5, <1>7, <1>10, <1>11, <1>12, <1>13 DEF ConfOK, r

LEMMA ApplyOK ==
  ASSUME NEW s, ConfOK(s), NEW t \in Common, NEW K, t \in K.shown
  PROVE  LET r == Apply(s, t)
         IN /\ ConfOK(r) /\ Apart(s, r) /\ Moves(s, r, K)
            /\ Applicants(s) \subseteq Applicants(r)
            /\ Applicants(r) \subseteq Applicants(s) \cup {t}
            /\ InList(s) => InList(r)
<1>1. CASE s.apply_num < ApplyLimit
  BY <1>1, PostApplyOK DEF Apply
<1>2. CASE ~(s.apply_num < ApplyLimit)
  <2>1. Apart(s, s) /\ Shown(s, s, K) /\ SameQueues(s, s) /\ s \in Conf
    BY DEF Apart, SameMode, SameSpeakers, SameQueues, Shown, ConfOK
  <2> QED
    BY <1>2, <2>1, MovesByMic DEF Apply, Apart
<1> QED
  BY <1>1, <1>2

-----------------------------------------------------------------------------
(* The queues of requests *)

LEMMA RequestFacts ==
  ASSUME NEW t \in Terminals, NEW perm \in Permissions
  PROVE  Request(t, perm) \in Of(PriorOf[t]) /\ Request(t, perm).term = t
BY DEF Request, Of, Elements

LEMMA OfFacts ==
  ASSUME NEW p \in Priors, NEW q \in Seq(Of(p))
  PROVE  /\ q \in Seq(Elements) /\ Len(q) \in Nat /\ DOMAIN q = 1 .. Len(q)
         /\ \A i \in 1 .. Len(q) : /\ q[i] \in Of(p) /\ q[i].term \in Terminals
                                   /\ PriorOf[q[i].term] = p
         /\ \A t : Queued(q, t) # {} <=> \E i \in 1 .. Len(q) : q[i].term = t
<1>1. Of(p) \subseteq Elements /\ \A e \in Of(p) : e.term \in Terminals /\ PriorOf[e.term] = p
  BY DEF Of, Elements
<1>2. /\ Len(q) \in Nat /\ DOMAIN q = 1 .. Len(q)
      /\ \A i \in 1 .. Len(q) : q[i] \in Of(p)
  BY LenProperties, ElementOfSeq
<1>3. q \in Seq(Elements)
  BY <1>1
<1> QED
  BY <1>1, <1>2, <1>3 DEF Queued

LEMMA AppendedFacts ==
  ASSUME NEW p \in Priors, NEW q \in Seq(Of(p)), NEW e \in Of(p)
  PROVE  LET a == Append(q, e)
         IN /\ a \in Seq(Of(p)) /\ Len(a) = Len(q) + 1
            /\ \A i \in 1 .. Len(q) : a[i] = q[i]
            /\ Queued(a, e.term) # {}
            /\ \A t : Queued(q, t) # {} => Queued(a, t) # {}
            /\ \A t : Queued(a, t) # {} => Queued(q, t) # {} \/ t = e.term
<1> DEFINE a == Append(q, e)
<1>1. /\ a \in Seq(Of(p)) /\ Len(a) = Len(q) + 1 /\ Len(q) \in Nat
      /\ \A i \in 1 .. Len(q) : a[i] = q[i]
      /\ a[Len(q) + 1] = e
  BY AppendProperties, LenProperties
<1> HIDE DEF a
<1>2. Len(q) + 1 \in 1 .. Len(a) /\ \A i \in 1 .. Len(q) : i \in 1 .. Len(a)
  BY <1>1
<1>3. \A i \in 1 .. Len(a) : i \in 1 .. Len(q) \/ i = Len(q) + 1
  BY <1>1
<1>4. /\ \A t : Queued(q, t) # {} <=> \E i \in 1 .. Len(q) : q[i].term = t
      /\ \A t : Queued(a, t) # {} <=> \E i \in 1 .. Len(a) : a[i].term = t
  <2>1. \A t : Queued(q, t) # {} <=> \E i \in 1 .. Len(q) : q[i].term = t
    BY OfFacts
  <2>2. \A t : Queued(a, t) # {} <=> \E i \in 1 .. Len(a) : a[i].term = t
    BY <1>1, OfFacts
  <2> QED
    BY <2>1, <2>2
<1>5. Queued(a, e.term) # {}
  BY <1>1, <1>2, <1>4
<1>6. \A t : Queued(q, t) # {} => Queued(a, t) # {}
  BY <1>1, <1>2, <1>4
<1>7. \A t : Queued(a, t) # {} => Queued(q, t) # {} \/ t = e.term
  BY <1>1, <1>3, <1>4
<1> QED
  BY <1>1, <1>5, <1>6, <1>7 DEF a

LEMMA TailFacts ==
  ASSUME NEW p \in Priors, NEW q \in Seq(Of(p)), q # <<>>
  PROVE  LET a == Tail(q)
         IN /\ a \in Seq(Of(p)) /\ Len(a) = Len(q) - 1
            /\ Head(q) \in Of(p) /\ Head(q) = q[1] /\ Queued(q, Head(q).term) # {}
            /\ \A t : Queued(a, t) # {} => Queued(q, t) # {}
            /\ \A t : Queued(q, t) # {} => Queued(a, t) # {} \/ t = Head(q).term
<1> DEFINE a == Tail(q)
<1>1. /\ a \in Seq(Of(p)) /\ Len(a) = Len(q) - 1 /\ Len(q) \in Nat \ {0}
      /\ Head(q) \in Of(p)
      /\ \A i \in 1 .. Len(a) : a[i] = q[i + 1]
  BY HeadTailProperties, LenProperties, EmptySeq
<1>2. Head(q) = q[1]
  BY HeadTailProperties
<1> HIDE DEF a
<1>3. /\ \A t : Queued(q, t) # {} <=> \E i \in 1 .. Len(q) : q[i].term = t
      /\ \A t : Queued(a, t) # {} <=> \E i \in 1 .. Len(a) : a[i].term = t
  <2>1. \A t : Queued(q, t) # {} <=> \E i \in 1 .. Len(q) : q[i].term = t
    BY OfFacts
  <2>2. \A t : Queued(a, t) # {} <=> \E i \in 1 .. Len(a) : a[i].term = t
    BY <1>1, OfFacts
  <2> QED
    BY <2>1, <2>2
<1>4. Queued(q, Head(q).term) # {}
  <2>1. 1 \in 1 .. Len(q) /\ Head(q).term = q[1].term
    BY <1>1, <1>2
  <2> QED
    BY <1>3, <2>1
<1>5. \A i \in 1 .. Len(a) : i + 1 \in 1 .. Len(q)
  BY <1>1
<1>6. \A i \in 1 .. Len(q) : i = 1 \/ (i - 1 \in 1 .. Len(a) /\ a[i - 1] = q[i])
  BY <1>1
<1>7. \A t : Queued(a, t) # {} => Queued(q, t) # {}
  BY <1>1, <1>3, <1>5
<1>8. \A t : Queued(q, t) # {} => Queued(a, t) # {} \/ t = Head(q).term
  BY <1>2, <1>3, <1>6
<1> QED
  BY <1>1, <1>2, <1>4, <1>7, <1>8 DEF a

LEMMA CancelledFacts ==
  ASSUME NEW p \in Priors, NEW q \in Seq(Of(p)), NEW t
  PROVE  LET a == Cancelled(q, t)
         IN /\ a \in Seq(Of(p)) /\ Len(a) = Len(q)
            /\ \A i \in 1 .. Len(q) : a[i].term = q[i].term
            /\ \A u : Queued(a, u) = Queued(q, u)
<1> DEFINE i == Min(Queued(q, t))
           a == Cancelled(q, t)
<1>1. Len(q) \in Nat /\ DOMAIN q = 1 .. Len(q) /\ \A k \in 1 .. Len(q) : q[k] \in Of(p)
  BY OfFacts
<1>2. CASE Queued(q, t) = {}
  BY <1>2 DEF Cancelled
<1>3. CASE Queued(q, t) # {}
  <2>1. i \in 1 .. Len(q)
    <3>1. Queued(q, t) \subseteq 1 .. Len(q)
      BY <1>1 DEF Queued
    <3>2. Queued(q, t) \subseteq Nat
      BY <3>1
    <3> QED
      BY <1>3, <3>1, <3>2, LeastNumber
  <2>2. a = [q EXCEPT ![i].permissions = {}]
    BY <1>3 DEF Cancelled
  <2> HIDE DEF i, a
  <2>3. q[i] \in Of(p)
    BY <1>1, <2>1
  <2>4. /\ [q[i] EXCEPT !.permissions = {}] \in Of(p)
        /\ [q[i] EXCEPT !.permissions = {}].term = q[i].term
    BY <2>3 DEF Of, Elements, Permissions
  <2>5. a = [q EXCEPT ![i] = [q[i] EXCEPT !.permissions = {}]]
    BY <2>2
  <2>6. /\ a \in Seq(Of(p)) /\ Len(a) = Len(q)
        /\ \A k \in 1 .. Len(q) : a[k] = IF k = i THEN [q[i] EXCEPT !.permissions = {}]
                                     ELSE q[k]
    <3> DEFINE e == [q[i] EXCEPT !.permissions = {}]
    <3>1. e \in Of(p) /\ a = [q EXCEPT ![i] = e]
      BY <2>4, <2>5
    <3> HIDE DEF e
    <3>2. /\ a \in Seq(Of(p)) /\ Len(a) = Len(q)
          /\ \A k \in 1 .. Len(q) : a[k] = IF k = i THEN e ELSE q[k]
      BY <2>1, <3>1, ExceptSeq
    <3> QED
      BY <3>2 DEF e
  <2>7. DOMAIN a = 1 .. Len(q) /\ \A k \in 1 .. Len(q) : a[k].term = q[k].term
    <3>1. DOMAIN a = 1 .. Len(q)
      BY <2>6, LenProperties
    <3> QED
      BY <2>4, <2>6, <3>1
  <2>8. \A u : Queued(a, u) = Queued(q, u)
    BY <1>1, <2>7 DEF Queued
  <2> QED
    BY <2>6, <2>7, <2>8 DEF a
<1> QED
  BY <1>2, <1>3

LEMMA FirstSpkOK ==
  ASSUME NEW s, ConfOK(s), NEW t \in Terminals, NEW perm \in Permissions,
         NEW K, t \in K.asked
  PROVE  LET r == FirstSpkRequest(s, t, PriorOf[t], perm)
         IN /\ ConfOK(r) /\ SameMode(s, r) /\ SameSpeakers(s, r) /\ SameList(s, r)
            /\ Moves(s, r, K)
            /\ r.currect_first_index = s.currect_first_index
            /\ r.mic_state = s.mic_state /\ r.reqQueues = s.reqQueues
            /\ FsRoom(s, PriorOf[t]) => First(r, t)
<1> DEFINE p == PriorOf[t]
           q == s.fSpkQueue[p]
           a == Append(q, Request(t, perm))
           f == [s.fSpkQueue EXCEPT ![p] = a]
           r == FirstSpkRequest(s, t, p, perm)
<1>1. /\ s \in Conf /\ p \in Priors /\ q \in Seq(Of(p)) /\ FsQueueSize[p] \in Nat
      /\ s.fSpkQueue \in [Priors -> Seq(Elements)]
      /\ Request(t, perm) \in Of(p) /\ Request(t, perm).term = t
  BY DiscussionAssumption, RequestFacts DEF DiscussionAssumption, ConfOK, Conf, QueuesOK
<1>2. CASE ~FsRoom(s, p)
  <2>1. r = s
    BY <1>2 DEF FirstSpkRequest
  <2>2. Kept(s, s) /\ Shown(s, s, K) /\ SameQueues(s, s)
    BY DEF Kept, SameMode, SameSpeakers, SameList, SameQueues, Shown
  <2>3. Moves(s, s, K)
    BY <1>1, <2>2, MovesByMic DEF Kept
  <2> QED
    BY <1>2, <2>1, <2>2, <2>3 DEF Kept
<1>3. CASE FsRoom(s, p)
  <2>1. r = [s EXCEPT !.fSpkQueue = f]
    BY <1>3 DEF FirstSpkRequest
  <2>2. /\ a \in Seq(Of(p)) /\ Len(a) = Len(q) + 1 /\ Queued(a, t) # {}
        /\ \A u : Queued(a, u) # {} => Queued(q, u) # {} \/ u = t
    <3> HIDE DEF p, q
    <3> DEFINE e == Request(t, perm)
    <3>1. e \in Of(p) /\ e.term = t
      BY <1>1
    <3> HIDE DEF e
    <3>2. LET b == Append(q, e)
          IN /\ b \in Seq(Of(p)) /\ Len(b) = Len(q) + 1 /\ Queued(b, t) # {}
             /\ \A u : Queued(b, u) # {} => Queued(q, u) # {} \/ u = t
      BY <1>1, <3>1, AppendedFacts
    <3> QED
      BY <3>2 DEF e
  <2> HIDE DEF a
  <2>3. a \in Seq(Elements) /\ Len(q) \in Nat
    BY <1>1, <2>2, OfFacts
  <2>4. /\ f \in [Priors -> Seq(Elements)]
        /\ \A h \in Priors : f[h] = IF h = p THEN a ELSE s.fSpkQueue[h]
    BY <1>1, <2>3
  <2> HIDE DEF f, r, q, p
  <2>5. /\ r \in Conf /\ SameMode(s, r) /\ SameSpeakers(s, r) /\ SameList(s, r)
        /\ r.fSpkQueue = f /\ r.reqQueues = s.reqQueues /\ r.mic_state = s.mic_state
        /\ r.currect_first_index = s.currect_first_index
    BY <1>1, <2>1, <2>4 DEF Conf, SameMode, SameSpeakers, SameList
  <2>6. QueuesOK(r)
    <3>1. Len(a) < FsQueueSize[p]
      BY <1>1, <1>3, <2>2, <2>3 DEF FsRoom, q
    <3> QED
      BY <2>2, <2>4, <2>5, <3>1 DEF ConfOK, QueuesOK
  <2>7. ApplicantsOK(r)
    BY <2>5 DEF ConfOK, ApplicantsOK, SameList, CurrentApplicant, ApplicantAt
  <2>8. Extends(s, r)
    <3>1. \A g \in Managers, h \in Priors : Len(s.reqQueues[g][h]) \in Nat
      BY <1>1, LenProperties DEF Conf
    <3> QED
      BY <2>5, <3>1 DEF Extends
  <2>9. First(r, t) /\ FirstOnly(s, r, K)
    <3>1. \A u \in Terminals : PriorOf[u] \in Priors
      BY DiscussionAssumption DEF DiscussionAssumption
    <3> QED
      BY <2>2, <2>4, <2>5, <3>1 DEF First, FirstOnly, p, q
  <2>10. Shown(s, r, K)
    BY <2>5 DEF Shown
  <2> QED
    BY <2>5, <2>6, <2>7, <2>8, <2>9, <2>10, SameListing DEF ConfOK, Moves, SameSpeakers, p, r
<1> QED
  BY <1>2, <1>3

LEMMA RequestManagerOK ==
  ASSUME NEW s, ConfOK(s), NEW g \in Managers, NEW t \in Terminals,
         NEW perm \in Permissions, NEW K
  PROVE  LET r == RequestManager(s, g, t, PriorOf[t], perm)
         IN /\ ConfOK(r) /\ SameMode(s, r) /\ SameSpeakers(s, r) /\ SameList(s, r)
            /\ Moves(s, r, K)
            /\ r.currect_first_index = s.currect_first_index
            /\ r.mic_state = s.mic_state /\ r.fSpkQueue = s.fSpkQueue
            /\ Asked(r, g, t)
<1> DEFINE p == PriorOf[t]
           q == s.reqQueues[g][p]
           a == Append(q, Request(t, perm))
           f == [s.reqQueues EXCEPT ![g] = [s.reqQueues[g] EXCEPT ![p] = a]]
           r == RequestManager(s, g, t, p, perm)
<1>1. /\ s \in Conf /\ p \in Priors /\ q \in Seq(Of(p))
      /\ s.reqQueues \in [Managers -> [Priors -> Seq(Elements)]]
      /\ Request(t, perm) \in Of(p) /\ Request(t, perm).term = t
  BY DiscussionAssumption, RequestFacts DEF DiscussionAssumption, ConfOK, Conf, QueuesOK
<1>2. r = [s EXCEPT !.reqQueues = f]
  BY DEF RequestManager
<1>3. /\ a \in Seq(Of(p)) /\ Len(a) = Len(q) + 1 /\ Queued(a, t) # {}
      /\ \A i \in 1 .. Len(q) : a[i] = q[i]
  <2> HIDE DEF p, q
  <2> DEFINE e == Request(t, perm)
  <2>1. e \in Of(p) /\ e.term = t
    BY <1>1
  <2> HIDE DEF e
  <2>2. LET b == Append(q, e)
        IN /\ b \in Seq(Of(p)) /\ Len(b) = Len(q) + 1 /\ Queued(b, t) # {}
           /\ \A i \in 1 .. Len(q) : b[i] = q[i]
    BY <1>1, <2>1, AppendedFacts
  <2> QED
    BY <2>2 DEF e
<1> HIDE DEF a
<1>4. a \in Seq(Elements)
  BY <1>1, <1>3, OfFacts
<1>5. /\ f \in [Managers -> [Priors -> Seq(Elements)]]
      /\ \A d \in Managers, h \in Priors :
            f[d][h] = IF d = g /\ h = p THEN a ELSE s.reqQueues[d][h]
  BY <1>1, <1>4
<1> HIDE DEF f, r, q, p
<1>6. /\ r \in Conf /\ SameMode(s, r) /\ SameSpeakers(s, r) /\ SameList(s, r)
      /\ r.reqQueues = f /\ r.fSpkQueue = s.fSpkQueue /\ r.mic_state = s.mic_state
      /\ r.currect_first_index = s.currect_first_index
  BY <1>1, <1>2, <1>5 DEF Conf, SameMode, SameSpeakers, SameList
<1>7. QueuesOK(r)
  BY <1>3, <1>5, <1>6 DEF ConfOK, QueuesOK
<1>8. ApplicantsOK(r)
  BY <1>6 DEF ConfOK, ApplicantsOK, SameList, CurrentApplicant, ApplicantAt
<1>9. Extends(s, r)
  <2>1. \A d \in Managers, h \in Priors : Len(s.reqQueues[d][h]) \in Nat
    BY <1>1, LenProperties
  <2>2. Len(q) <= Len(a)
    BY <1>1, <1>3, <2>1 DEF q
  <2>3. ASSUME NEW d \in Managers, NEW h \in Priors
        PROVE  /\ Len(s.reqQueues[d][h]) <= Len(r.reqQueues[d][h])
               /\ \A i \in 1 .. Len(s.reqQueues[d][h]) :
                     r.reqQueues[d][h][i].term = s.reqQueues[d][h][i].term
    <3>1. CASE d = g /\ h = p
      <4>1. r.reqQueues[d][h] = a /\ s.reqQueues[d][h] = q
        BY <1>5, <1>6, <3>1 DEF q
      <4> QED
        BY <1>3, <2>2, <4>1
    <3>2. CASE ~(d = g /\ h = p)
      <4>1. r.reqQueues[d][h] = s.reqQueues[d][h]
        BY <1>5, <1>6, <3>2
      <4> QED
        BY <2>1, <4>1
    <3> QED
      BY <3>1, <3>2
  <2> QED
    BY <2>3 DEF Extends
<1>10. Asked(r, g, t)
  BY <1>1, <1>3, <1>5, <1>6 DEF Asked, p
<1>11. Shown(s, r, K) /\ FirstOnly(s, r, K)
  BY <1>6 DEF Shown, FirstOnly, First
<1> QED
  BY <1>6, <1>7, <1>8, <1>9, <1>10, <1>11, SameListing DEF ConfOK, Moves, SameSpeakers, p, r

-----------------------------------------------------------------------------
(* The keys *)

(* No applicant of the limited mode is forgotten from s to r. *)
Remembered(s, r) ==
    s.edis_mode = "LIMIT" =>
        \A t \in Applicants(s) \ Applicants(r) :
            \/ First(r, t) \/ r.mic_state[t] = "CLOSE" \/ t \in streams
            \/ ~FsRoom(r, 2)

(* From s to r everything that has to hold of conf is kept. *)
Goes(s, r, K) ==
    /\ ConfOK(r) /\ Moves(s, r, K) /\ SameMode(s, r)
    /\ InList(s) => InList(r)
    /\ Remembered(s, r)

(* ... and no applicant leaves the list. *)
Adds(s, r, K) ==
    /\ ConfOK(r) /\ Moves(s, r, K) /\ SameMode(s, r)
    /\ InList(s) => InList(r)
    /\ Applicants(s) \subseteq Applicants(r)

LEMMA AddsGoes ==
  ASSUME NEW s, NEW r, NEW K, Adds(s, r, K)
  PROVE  Goes(s, r, K)
BY DEF Adds, Goes, Remembered

LEMMA AddsTrans ==
  ASSUME NEW s, ConfOK(s), NEW r, NEW q, NEW K, Adds(s, r, K), Adds(r, q, K)
  PROVE  Adds(s, q, K)
<1>1. Moves(s, q, K)
  BY MovesTrans DEF Adds, ConfOK
<1> QED
  BY <1>1 DEF Adds, SameMode

LEMMA AddsFrame ==
  ASSUME NEW s, NEW r, NEW K, ConfOK(r), SameMode(s, r), SameList(s, r), Moves(s, r, K),
         r.currect_first_index = s.currect_first_index
  PROVE  Adds(s, r, K)
BY DEF Adds, SameMode, SameList, InList, Applicants

LEMMA SelfAdds ==
  ASSUME NEW s, ConfOK(s), NEW K
  PROVE  Adds(s, s, K)
<1>1. Kept(s, s) /\ Shown(s, s, K)
  BY DEF Kept, SameMode, SameSpeakers, SameList, SameQueues, Shown
<1>2. Moves(s, s, K)
  BY <1>1, MovesByMic DEF Kept, ConfOK
<1> QED
  BY <1>1, <1>2, AddsFrame DEF Kept

LEMMA SpeakAdds ==
  ASSUME NEW s, ConfOK(s), NEW t \in Terminals, NEW K, t \in K.asked
  PROVE  Adds(s, Speak(s, t), K)
<1>1. {"COMMON_SPK"} \in Permissions
  BY DEF Permissions
<1> QED
  BY <1>1, FirstSpkOK, AddsFrame DEF Speak

LEMMA DisConnectAdds ==
  ASSUME NEW s, ConfOK(s), NEW t \in Terminals, NEW p, p = PriorOf[t], NEW K
  PROVE  Adds(s, RequestDisConnect(s, t, p), K)
<1>1. {"COMMON_SPK"} \in Permissions /\ "DISCONNECTOR" \in Managers
  BY DEF Permissions, Managers
<1> QED
  BY <1>1, RequestManagerOK, AddsFrame DEF RequestDisConnect

LEMMA OpenAdds ==
  ASSUME NEW s, ConfOK(s), NEW t \in Terminals, NEW K, t \in K.opened
  PROVE  LET r == SetMic(s, t, "OPEN")
         IN Adds(s, r, K) /\ Kept(s, r) /\ r.mic_state = [s.mic_state EXCEPT ![t] = "OPEN"]
<1> DEFINE r == SetMic(s, t, "OPEN")
<1>1. /\ r \in Conf /\ Kept(s, r) /\ r.currect_first_index = s.currect_first_index
      /\ r.mic_state = [s.mic_state EXCEPT ![t] = "OPEN"]
  BY SetMicFields DEF ConfOK, MicStates, Kept
<1> HIDE DEF r
<1>2. Shown(s, r, K)
  BY <1>1 DEF Shown, ConfOK, Conf
<1>3. Moves(s, r, K) /\ ConfOK(r)
  BY <1>1, <1>2, MovesByMic, FrameOK DEF Kept, ConfOK
<1> QED
  BY <1>1, <1>3, AddsFrame DEF Kept, r

(* A speaker that can be replaced is a terminal of its list. *)
LEMMA ReplaceableFacts ==
  ASSUME NEW s, NEW l, NEW S, \A i \in Slots : l[i] \in S \cup {NoAddr},
         NEW n \in Slots, NEW p, Replaceable(s, l, n, p) # {}
  PROVE  l[Min(Replaceable(s, l, n, p))] \in S
<1>1. Replaceable(s, l, n, p) \subseteq Nat
  BY DiscussionAssumption DEF DiscussionAssumption, Replaceable, Slots
<1>2. Min(Replaceable(s, l, n, p)) \in Replaceable(s, l, n, p)
  BY <1>1, LeastNumber
<1>3. \A i \in 0 .. (n - 1) : i \in Slots
  BY DiscussionAssumption DEF DiscussionAssumption, Slots
<1> QED
  BY <1>2, <1>3 DEF Replaceable

(* A speaker makes room for t. *)
LEMMA ReplaceAdds ==
  ASSUME NEW s, ConfOK(s), NEW t \in Terminals, NEW u \in Terminals, NEW p, p = PriorOf[u],
         NEW K, t \in K.asked
  PROVE  Adds(s, Speak(RequestDisConnect(s, u, p), t), K)
<1>1. Adds(s, RequestDisConnect(s, u, p), K)
  BY DisConnectAdds
<1>2. ConfOK(RequestDisConnect(s, u, p))
  BY <1>1 DEF Adds
<1>3. Adds(RequestDisConnect(s, u, p), Speak(RequestDisConnect(s, u, p), t), K)
  BY <1>2, SpeakAdds
<1> QED
  BY <1>1, <1>3, AddsTrans

(* What K has to hold for a key. *)
KeySets(K) ==
    /\ streams \subseteq K.opened
    /\ Terminals \ streams \subseteq K.shown /\ Terminals \ streams \subseteq K.asked

LEMMA CommonDownAdds ==
  ASSUME NEW s, ConfOK(s), NEW t \in Common, NEW K, KeySets(K)
  PROVE  Adds(s, CommonDown(s, t), K)
<1> DEFINE first == s.speak_addr_list[0]
<1>1. t \in Terminals /\ PriorOf[t] = 2 /\ 0 \in Slots
  BY DiscussionAssumption DEF Common, DiscussionAssumption, Slots
<1>2. CASE t \in streams
  <2>1. CommonDown(s, t) = SetMic(s, t, "OPEN")
    BY <1>2 DEF CommonDown
  <2>2. t \in K.opened
    BY <1>2 DEF KeySets
  <2>3. Adds(s, SetMic(s, t, "OPEN"), K)
    BY <1>1, <2>2, OpenAdds
  <2> QED
    BY <2>1, <2>3
<1>3. CASE t \notin streams
  <2>1. t \in K.shown /\ t \in K.asked
    BY <1>1, <1>3 DEF KeySets
  <2>2. Adds(s, Speak(s, t), K) /\ Adds(s, s, K) /\ Adds(s, Apply(s, t), K)
    BY <1>1, <2>1, SpeakAdds, SelfAdds, ApplyOK DEF Adds, Apart
  <2>3. CASE s.edis_mode = "PPT"
    <3>1. CommonDown(s, t) = IF StreamFree(s) THEN Speak(s, t) ELSE s
      BY <1>3, <2>3 DEF CommonDown
    <3> QED
      BY <2>2, <3>1
  <2>4. CASE s.edis_mode = "LIMIT"
    <3>1. CommonDown(s, t) \in {Speak(s, t), Apply(s, t), s}
      BY <1>3, <2>4 DEF CommonDown
    <3> QED
      BY <2>2, <3>1
  <2>5. CASE s.edis_mode = "FIFO"
    <3>1. CASE CommonDown(s, t) \in {Speak(s, t), s}
      BY <2>2, <3>1
    <3>2. CASE first # NoAddr /\ CommonDown(s, t) = Speak(RequestDisConnect(s, first, 2), t)
      <4>1. first \in Terminals /\ PriorOf[first] = 2
        BY <1>1, <3>2 DEF ConfOK, Conf, Common
      <4> QED
        BY <1>1, <2>1, <3>2, <4>1, ReplaceAdds
    <3>3. \/ CommonDown(s, t) \in {Speak(s, t), s}
          \/ first # NoAddr /\ CommonDown(s, t) = Speak(RequestDisConnect(s, first, 2), t)
      BY <1>3, <2>5 DEF CommonDown
    <3> QED
      BY <3>1, <3>2, <3>3
  <2>6. CASE s.edis_mode = "APPLY"
    <3>1. CommonDown(s, t) = Apply(s, t)
      BY <1>3, <2>6 DEF CommonDown
    <3> QED
      BY <2>2, <3>1
  <2>7. s.edis_mode \in {"PPT", "FIFO", "LIMIT", "APPLY"}
    BY DiscussionAssumption DEF DiscussionAssumption, ConfOK, Conf
  <2> QED
    BY <2>3, <2>4, <2>5, <2>6, <2>7
<1> QED
  BY <1>2, <1>3

LEMMA VipDownAdds ==
  ASSUME NEW s, ConfOK(s), NEW t \in Terminals, NEW K, KeySets(K)
  PROVE  Adds(s, VipDown(s, t), K)
<1> DEFINE at == Replaceable(s, s.speak_addr_list, s.speak_limit_num, 2)
           u == s.speak_addr_list[Min(at)]
<1>1. CASE t \in streams
  <2>1. t \in K.opened /\ VipDown(s, t) = SetMic(s, t, "OPEN")
    BY <1>1 DEF KeySets, VipDown
  <2>2. Adds(s, SetMic(s, t, "OPEN"), K)
    BY <2>1, OpenAdds
  <2> QED
    BY <2>1, <2>2
<1>2. CASE t \notin streams
  <2>1. t \in K.asked
    BY <1>2 DEF KeySets
  <2>2. CASE VipDown(s, t) \in {Speak(s, t), s}
    BY <2>1, <2>2, SpeakAdds, SelfAdds
  <2>3. CASE at # {} /\ VipDown(s, t) = Speak(RequestDisConnect(s, u, 2), t)
    <3>1. /\ \A i \in Slots : s.speak_addr_list[i] \in Common \cup {NoAddr}
          /\ s.speak_limit_num \in Slots
      BY DEF ConfOK, Conf
    <3>2. u \in Common
      BY <2>3, <3>1, ReplaceableFacts
    <3> HIDE DEF u
    <3>3. u \in Terminals /\ PriorOf[u] = 2
      BY <3>2 DEF Common
    <3> QED
      BY <2>1, <2>3, <3>3, ReplaceAdds
  <2> QED
    BY <1>2, <2>2, <2>3 DEF VipDown
<1> QED
  BY <1>1, <1>2

LEMMA ChairmanDownAdds ==
  ASSUME NEW s, ConfOK(s), NEW t \in Terminals, NEW K, KeySets(K),
         NEW r \in ChairmanDown(s, t)
  PROVE  Adds(s, r, K)
<1> DEFINE common == Replaceable(s, s.speak_addr_list, s.speak_limit_num, 2)
           vip == Replaceable(s, s.vipSpeakList, s.vipSpkNum, 1)
           u == s.speak_addr_list[Min(common)]
           v == s.vipSpeakList[Min(vip)]
<1>1. CASE t \in streams
  <2>1. t \in K.opened /\ r = SetMic(s, t, "OPEN")
    BY <1>1 DEF KeySets, ChairmanDown
  <2>2. Adds(s, SetMic(s, t, "OPEN"), K)
    BY <2>1, OpenAdds
  <2> QED
    BY <2>1, <2>2
<1>2. CASE t \notin streams
  <2>1. t \in K.asked
    BY <1>2 DEF KeySets
  <2>2. CASE r \in {Speak(s, t), s}
    BY <2>1, <2>2, SpeakAdds, SelfAdds
  <2>3. CASE common # {} /\ r = Speak(RequestDisConnect(s, u, 2), t)
    <3>1. /\ \A i \in Slots : s.speak_addr_list[i] \in Common \cup {NoAddr}
          /\ s.speak_limit_num \in Slots
      BY DEF ConfOK, Conf
    <3>2. u \in Common
      BY <2>3, <3>1, ReplaceableFacts
    <3> HIDE DEF u
    <3>3. u \in Terminals /\ PriorOf[u] = 2
      BY <3>2 DEF Common
    <3> QED
      BY <2>1, <2>3, <3>3, ReplaceAdds
  <2>4. CASE vip # {} /\ r = Speak(RequestDisConnect(s, v, 1), t)
    <3>1. /\ \A i \in Slots : s.vipSpeakList[i] \in Vips \cup {NoAddr}
          /\ s.vipSpkNum \in Slots
      BY DEF ConfOK, Conf
    <3>2. v \in Vips
      BY <2>4, <3>1, ReplaceableFacts
    <3> HIDE DEF v
    <3>3. v \in Terminals /\ PriorOf[v] = 1
      BY <3>2 DEF Vips
    <3> QED
      BY <2>1, <2>4, <3>3, ReplaceAdds
  <2> QED
    BY <1>2, <2>2, <2>3, <2>4 DEF ChairmanDown
<1> QED
  BY <1>1, <1>2

(* The applicant that is then shown as the first one is in the list. *)
LEMMA NextOK ==
  ASSUME NEW s, ConfOK(s), NEW K, Applicants(s) \subseteq K.shown
  PROVE  LET r == IF s.apply_num = 0 THEN s
                  ELSE SetMic(Wrapped(s), ApplicantAt(s, s.currect_first_index), "FIRST_APPLY")
         IN /\ ConfOK(r) /\ Kept(s, r) /\ Moves(s, r, K)
            /\ r.apply_num > 0 => r.currect_first_index < r.apply_num
            /\ \A u \in Terminals \ Applicants(s) : r.mic_state[u] = s.mic_state[u]
<1> DEFINE w == Wrapped(s)
           t == CurrentApplicant(s)
           r == SetMic(w, t, "FIRST_APPLY")
<1>1. /\ s.apply_num \in Nat /\ t \in Applicants(s) \cup {NoAddr}
      /\ Applicants(s) \subseteq Terminals /\ NoAddr \notin Terminals
  BY ApplicantFacts
<1>2. CASE s.apply_num = 0
  <2>1. Kept(s, s) /\ Shown(s, s, K)
    BY DEF Kept, SameMode, SameSpeakers, SameList, SameQueues, Shown
  <2>2. Moves(s, s, K)
    BY <2>1, MovesByMic DEF Kept, ConfOK
  <2> QED
    BY <1>1, <1>2, <2>1, <2>2
<1>3. CASE s.apply_num # 0
  <2>1. s.apply_num > 0
    BY <1>1, <1>3
  <2>2. /\ ConfOK(w) /\ Kept(s, w) /\ Moves(s, w, K)
        /\ w.currect_first_index < w.apply_num /\ w.mic_state = s.mic_state
    BY <2>1, WrappedOK
  <2>3. "FIRST_APPLY" \in MicStates \ {"OPEN"} /\ t \in Terminals \cup {NoAddr}
        /\ (t = NoAddr \/ t \in K.shown)
    BY <1>1 DEF MicStates
  <2> HIDE DEF w, t
  <2>4. /\ ConfOK(r) /\ Kept(w, r) /\ Moves(w, r, K)
        /\ r.currect_first_index = w.currect_first_index
        /\ \A u \in Terminals :
              r.mic_state[u] = IF u = t THEN "FIRST_APPLY" ELSE w.mic_state[u]
    BY <2>2, <2>3, SetMicOK
  <2> HIDE DEF r
  <2>5. Kept(s, r) /\ Moves(s, r, K)
    BY <2>2, <2>4, KeptTrans, MovesTrans DEF ConfOK
  <2>6. r.apply_num = w.apply_num
    BY <2>4 DEF Kept, SameList
  <2>7. \A u \in Terminals \ Applicants(s) : r.mic_state[u] = s.mic_state[u]
    BY <1>1, <2>2, <2>4
  <2> QED
    BY <1>3, <2>2, <2>4, <2>5, <2>6, <2>7 DEF r, w, t, CurrentApplicant
<1> QED
  BY <1>2, <1>3

LEMMA WithdrawGoes ==
  ASSUME NEW s, ConfOK(s), NEW t \in Common, t \notin streams, NEW K, KeySets(K),
         Applicants(s) \subseteq K.shown
  PROVE  Goes(s, Withdraw(SetMic(s, t, "CLOSE"), s, t), K)
<1> DEFINE c == SetMic(s, t, "CLOSE")
           stale == s.currect_first_index
           next(d) == IF d.apply_num = 0 THEN d
                      ELSE SetMic(Wrapped(d), ApplicantAt(d, stale), "FIRST_APPLY")
           d1 == DeleteApplicant(c, t)
           d2 == DeleteApplicant(d1, t)
           r == Withdraw(c, s, t)
<1>1. t \in Terminals /\ t \in K.shown /\ "CLOSE" \in MicStates \ {"OPEN"}
  BY DEF KeySets, Common, MicStates
<1>2. /\ ConfOK(c) /\ Kept(s, c) /\ Moves(s, c, K)
      /\ c.currect_first_index = stale /\ c.mic_state[t] = "CLOSE"
  BY <1>1, SetMicOK
<1>3. Applicants(c) = Applicants(s) /\ SameMode(s, c)
  BY <1>2 DEF Kept, SameList, Applicants
<1> HIDE DEF c, stale
<1>4. /\ ConfOK(d1) /\ Apart(c, d1) /\ Moves(c, d1, K)
      /\ d1.mic_state = c.mic_state
      /\ d1.currect_first_index = stale
      /\ Applicants(d1) \subseteq Applicants(c)
      /\ Applicants(c) \subseteq Applicants(d1) \cup {t}
  BY <1>2, DeleteOK
<1> HIDE DEF d1
<1>5. /\ ConfOK(d2) /\ Apart(d1, d2) /\ Moves(d1, d2, K)
      /\ d2.currect_first_index = stale
      /\ Applicants(d2) \subseteq Applicants(d1)
  BY <1>4, DeleteOK
<1> HIDE DEF d2
<1>6. Moves(s, d1, K) /\ Moves(s, d2, K)
  BY <1>2, <1>4, <1>5, MovesTrans DEF ConfOK
<1>7. SameMode(s, d1) /\ SameMode(s, d2)
  BY <1>3, <1>4, <1>5 DEF Apart, SameMode
<1>8. ASSUME NEW d \in {d1, d2}
      PROVE  LET q == next(d)
             IN /\ ConfOK(q) /\ Kept(d, q) /\ Moves(s, q, K) /\ SameMode(s, q)
                /\ q.apply_num > 0 => q.currect_first_index < q.apply_num
                /\ \A u \in Terminals \ Applicants(d) : q.mic_state[u] = d.mic_state[u]
  <2>1. /\ ConfOK(d) /\ Applicants(d) \subseteq K.shown /\ d.currect_first_index = stale
        /\ Moves(s, d, K) /\ SameMode(s, d)
    BY <1>3, <1>4, <1>5, <1>6, <1>7
  <2>2. next(d) = IF d.apply_num = 0 THEN d
                  ELSE SetMic(Wrapped(d), ApplicantAt(d, d.currect_first_index), "FIRST_APPLY")
    BY <2>1
  <2> DEFINE q == next(d)
  <2> HIDE DEF next
  <2>3. /\ ConfOK(q) /\ Kept(d, q) /\ Moves(d, q, K)
        /\ q.apply_num > 0 => q.currect_first_index < q.apply_num
        /\ \A u \in Terminals \ Applicants(d) : q.mic_state[u] = d.mic_state[u]
    BY <2>1, <2>2, NextOK
  <2> HIDE DEF q
  <2>4. Moves(s, q, K)
    BY <2>1, <2>3, MovesTrans DEF ConfOK
  <2>5. SameMode(s, q)
    BY <2>1, <2>3 DEF Kept, SameMode
  <2> QED
    BY <2>3, <2>4, <2>5 DEF q
<1> HIDE DEF next
<1> SUFFICES Goes(s, r, K)
  BY DEF c
<1>9. CASE s.edis_mode = "APPLY"
  <2>1. r \in {next(d2), d2}
    BY <1>9 DEF Withdraw, stale, d1, d2, next
  <2>2. ConfOK(r) /\ Moves(s, r, K) /\ SameMode(s, r)
    BY <1>5, <1>6, <1>7, <1>8, <2>1
  <2> QED
    BY <1>9, <2>2 DEF Goes, InList, Remembered, SameMode
<1>10. CASE s.edis_mode = "LIMIT"
  <2>1. r \in {next(d1), c}
    BY <1>10 DEF Withdraw, stale, d1, next
  <2>2. CASE r = c
    BY <1>2, <1>3, <2>2 DEF Goes, InList, Remembered, Kept, SameMode, SameList, stale
  <2>3. CASE r = next(d1)
    <3> DEFINE q == next(d1)
    <3>1. /\ ConfOK(q) /\ Kept(d1, q) /\ Moves(s, q, K) /\ SameMode(s, q)
          /\ q.apply_num > 0 => q.currect_first_index < q.apply_num
          /\ \A u \in Terminals \ Applicants(d1) : q.mic_state[u] = d1.mic_state[u]
      BY <1>8
    <3> HIDE DEF q
    <3>2. Applicants(q) = Applicants(d1)
      BY <3>1 DEF Kept, SameList, Applicants
    <3>3. \A u \in Applicants(s) \ Applicants(q) : q.mic_state[u] = "CLOSE"
      BY <1>1, <1>2, <1>3, <1>4, <3>1, <3>2
    <3>4. Goes(s, q, K)
      BY <3>1, <3>3 DEF Goes, InList, Remembered
    <3> QED
      BY <2>3, <3>4 DEF q
  <2> QED
    BY <2>1, <2>2, <2>3
<1>11. CASE s.edis_mode \notin {"APPLY", "LIMIT"}
  <2>1. r = c
    BY <1>11 DEF Withdraw
  <2> QED
    BY <1>2, <1>3, <1>11, <2>1 DEF Goes, InList, Remembered, SameMode
<1> QED
  BY <1>9, <1>10, <1>11

LEMMA KeyUpGoes ==
  ASSUME NEW s, ConfOK(s), NEW t \in Terminals, NEW K, KeySets(K),
         Applicants(s) \subseteq K.shown
  PROVE  Goes(s, KeyUp(s, t), K)
<1>1. CASE t \in streams
  BY <1>1, DisConnectAdds, AddsGoes DEF KeyUp
<1>2. CASE t \notin streams /\ t \in Common
  BY <1>2, WithdrawGoes DEF KeyUp
<1>3. CASE t \notin streams /\ t \notin Common
  <2> DEFINE r == SetMic(s, t, "CLOSE")
  <2>1. t \in K.shown /\ "CLOSE" \in MicStates \ {"OPEN"}
    BY <1>3 DEF KeySets, MicStates
  <2>2. /\ ConfOK(r) /\ Kept(s, r) /\ Moves(s, r, K)
        /\ r.currect_first_index = s.currect_first_index
    BY <2>1, SetMicOK
  <2>3. KeyUp(s, t) = r
    BY <1>3 DEF KeyUp
  <2> HIDE DEF r
  <2>4. Adds(s, r, K)
    BY <2>2, AddsFrame DEF Kept
  <2> QED
    BY <2>3, <2>4, AddsGoes
<1> QED
  BY <1>1, <1>2, <1>3

(* A key changes the record in one of the ways above. *)
LEMMA KeyGoes ==
  ASSUME NEW s, ConfOK(s), NEW t \in Terminals, NEW down \in BOOLEAN, NEW K, KeySets(K),
         Applicants(s) \subseteq K.shown, NEW r \in KeySpeakEffect(s, t, down)
  PROVE  Goes(s, r, K)
<1>1. PriorOf[t] \in 0 .. 2
  BY DiscussionAssumption DEF DiscussionAssumption, Priors
<1>2. CASE ~down
  <2>1. r = KeyUp(s, t)
    BY <1>2 DEF KeySpeakEffect
  <2> QED
    BY <2>1, KeyUpGoes
<1>3. CASE down /\ PriorOf[t] = 2
  <2>1. r = CommonDown(s, t) /\ t \in Common
    BY <1>3 DEF KeySpeakEffect, Common
  <2> QED
    BY <2>1, CommonDownAdds, AddsGoes
<1>4. CASE down /\ PriorOf[t] = 1
  <2>1. r = VipDown(s, t)
    BY <1>4 DEF KeySpeakEffect
  <2> QED
    BY <2>1, VipDownAdds, AddsGoes
<1>5. CASE down /\ PriorOf[t] = 0
  <2>1. r \in ChairmanDown(s, t)
    BY <1>5 DEF KeySpeakEffect
  <2> QED
    BY <2>1, ChairmanDownAdds, AddsGoes
<1> QED
  BY <1>1, <1>2, <1>3, <1>4, <1>5

-----------------------------------------------------------------------------
(* The callbacks of the manager *)

LEMMA LimitModeGoes ==
  ASSUME NEW s, ConfOK(s), NEW K, Applicants(s) \subseteq K.shown,
         Applicants(s) \subseteq K.asked, NEW r \in LimitModeApplyTSpeak(s)
  PROVE  Goes(s, r, K)
<1> DEFINE i == s.currect_first_index
           t == CurrentApplicant(s)
           rest == DeleteApplicantAt(s, i)
           ask == FirstSpkRequest(rest, t, 2, {"COMMON_SPK"})
           shut == SetMic(rest, t, "CLOSE")
<1>1. CASE r = s
  BY <1>1, SelfAdds, AddsGoes
<1>2. CASE r # s
  <2>1. /\ i < s.apply_num /\ i \in Nat /\ s.apply_num \in Nat
        /\ FsRoom(s, 2) => r = ListFirstSpeak(ask)
        /\ ~FsRoom(s, 2) => r \in {ListFirstSpeak(shut), ListFirstSpeak(rest)}
    <3>1. i \in Nat /\ s.apply_num \in Nat
      BY ApplicantFacts
    <3>2. ~(i >= s.apply_num)
      BY <1>2 DEF LimitModeApplyTSpeak
    <3>3. i < s.apply_num
      BY <3>1, <3>2
    <3> QED
      BY <1>2, <3>1, <3>3 DEF LimitModeApplyTSpeak
  <2>2. /\ t \in Applicants(s) /\ t \in Terminals /\ PriorOf[t] = 2
        /\ t \in K.shown /\ t \in K.asked
    BY <2>1, ApplicantFacts DEF Common
  <2>3. /\ ConfOK(rest) /\ Apart(s, rest) /\ Moves(s, rest, K)
        /\ Applicants(rest) \subseteq Applicants(s)
        /\ Applicants(s) \subseteq Applicants(rest) \cup {t}
        /\ rest.apply_addr_list[rest.apply_num] = NoAddr
    <3>1. ApplicantAt(s, i) = t
      BY DEF CurrentApplicant
    <3> HIDE DEF rest
    <3>2. LET d == DeleteApplicantAt(s, i)
          IN /\ ConfOK(d) /\ Apart(s, d) /\ Moves(s, d, K)
             /\ Applicants(d) \subseteq Applicants(s)
             /\ Applicants(s) \subseteq Applicants(d) \cup {ApplicantAt(s, i)}
             /\ d.apply_addr_list[d.apply_num] = NoAddr
      BY <2>1, DeleteAtOK
    <3> QED
      BY <3>1, <3>2 DEF rest
  <2> HIDE DEF t, rest, i
  <2>4. ASSUME NEW q, ConfOK(q), SameMode(rest, q), SameList(rest, q), Moves(rest, q, K),
               First(q, t) \/ ~FsRoom(q, 2)
        PROVE  Goes(s, ListFirstSpeak(q), K)
    <3> DEFINE e == ListFirstSpeak(q)
    <3>1. /\ Applicants(q) = Applicants(rest)
          /\ q.apply_addr_list[q.apply_num] = NoAddr
      BY <2>3, <2>4 DEF SameList, Applicants
    <3>2. /\ ConfOK(e) /\ Kept(q, e) /\ Moves(q, e, K)
          /\ e.apply_num > 0 => e.currect_first_index < e.apply_num
      BY <2>3, <2>4, <3>1, ListFirstOK
    <3> HIDE DEF e
    <3>3. Moves(s, q, K) /\ Moves(s, e, K)
      BY <2>3, <2>4, <3>2, MovesTrans DEF ConfOK
    <3>4. /\ SameMode(s, e) /\ Applicants(e) = Applicants(q)
          /\ e.fSpkQueue = q.fSpkQueue
      BY <2>3, <2>4, <3>2 DEF Apart, Kept, SameMode, SameList, Applicants, SameQueues
    <3>5. First(e, t) \/ ~FsRoom(e, 2)
      BY <2>4, <3>4 DEF First, FsRoom
    <3>6. Remembered(s, e)
      BY <2>3, <3>1, <3>4, <3>5 DEF Remembered
    <3>7. Goes(s, e, K)
      BY <3>2, <3>3, <3>4, <3>6 DEF Goes, InList
    <3> QED
      BY <3>7 DEF e
  <2>5. FsRoom(rest, 2) <=> FsRoom(s, 2)
    BY <2>3 DEF Apart, SameQueues, FsRoom
  <2>6. CASE FsRoom(s, 2)
    <3>1. {"COMMON_SPK"} \in Permissions
      BY DEF Permissions
    <3>2. /\ ConfOK(ask) /\ SameMode(rest, ask) /\ SameList(rest, ask)
          /\ Moves(rest, ask, K) /\ First(ask, t)
      BY <2>2, <2>3, <2>5, <2>6, <3>1, FirstSpkOK
    <3> HIDE DEF ask
    <3> QED
      BY <2>1, <2>4, <2>6, <3>2
  <2>7. CASE ~FsRoom(s, 2)
    <3>1. ConfOK(shut) /\ Kept(rest, shut) /\ Moves(rest, shut, K)
      <4>1. "CLOSE" \in MicStates \ {"OPEN"}
        BY DEF MicStates
      <4> QED
        BY <2>2, <2>3, <4>1, SetMicOK
    <3>2. Adds(rest, rest, K)
      BY <2>3, SelfAdds
    <3>3. SameList(rest, rest)
      BY DEF SameList
    <3> HIDE DEF shut
    <3>4. ~FsRoom(rest, 2) /\ ~FsRoom(shut, 2)
      BY <2>5, <2>7, <3>1 DEF Kept, SameQueues, FsRoom
    <3>5. Goes(s, ListFirstSpeak(shut), K) /\ Goes(s, ListFirstSpeak(rest), K)
      BY <2>3, <2>4, <3>1, <3>2, <3>3, <3>4 DEF Kept, Adds
    <3> QED
      BY <2>1, <2>7, <3>5
  <2> QED
    BY <2>6, <2>7
<1> QED
  BY <1>1, <1>2

(* A terminal speaks: only the lists of speakers and its microphone change. *)
LEMMA SpeakerAdds ==
  ASSUME NEW s, ConfOK(s), NEW t \in Terminals, NEW K, t \in K.opened, NEW r \in Conf,
         SameMode(s, r), SameList(s, r), SameQueues(s, r),
         r.currect_first_index = s.currect_first_index, Listing(s, r, K),
         r.mic_state = [s.mic_state EXCEPT ![t] = "OPEN"]
  PROVE  Adds(s, r, K)
<1>1. Shown(s, r, K)
  BY DEF Shown, ConfOK, Conf
<1>2. ConfOK(r) /\ Moves(s, r, K)
  BY <1>1, FrameOK, MovesByMic DEF ConfOK
<1> QED
  BY <1>2, AddsFrame

(* A terminal is listed at the next place: if it is the last one, the list *)
(* was full.                                                               *)
LEMMA SpeakerListed ==
  ASSUME NEW s, ConfOK(s), NEW t \in Common, NEW K, t \in K.opened, NEW r,
         r.speak_addr_list = [s.speak_addr_list EXCEPT ![s.speak_limit_num] = t],
         r.speak_limit_num = (s.speak_limit_num + 1) % MaxSpk
  PROVE  Listing(s, r, K) /\ (WasFull(r) \/ Listed(r, t))
<1> DEFINE n == s.speak_limit_num
           l == s.speak_addr_list
           m == r.speak_addr_list
<1>1. /\ MaxSpk \in Nat \ {0} /\ n \in 0 .. (MaxSpk - 1) /\ NoAddr \notin Terminals
      /\ l \in [0 .. (MaxSpk - 1) -> Common \cup {NoAddr}] /\ t # NoAddr
  BY DiscussionAssumption DEF DiscussionAssumption, ConfOK, Conf, Slots, Common
<1>2. \A k \in 0 .. (MaxSpk - 1) : m[k] = IF k = n THEN t ELSE l[k]
  BY <1>1
<1>3. r.speak_limit_num = (n + 1) % MaxSpk
  OBVIOUS
<1>4. /\ WasFull(s) <=> l[MaxSpk - 1] # NoAddr
      /\ WasFull(r) <=> m[MaxSpk - 1] # NoAddr
  BY DEF WasFull
<1> HIDE DEF n, m, l
<1>5. CASE n = MaxSpk - 1
  <2>1. WasFull(r)
    BY <1>1, <1>2, <1>4, <1>5
  <2> QED
    BY <2>1 DEF Listing
<1>6. CASE n # MaxSpk - 1
  <2>1. r.speak_limit_num = n + 1 /\ (WasFull(r) <=> WasFull(s))
    BY <1>1, <1>2, <1>3, <1>4, <1>6
  <2>2. /\ \A u : Listed(s, u) <=> \E k \in 0 .. (n - 1) : l[k] = u
        /\ \A u : Listed(r, u) <=> \E k \in 0 .. n : m[k] = u
    <3>1. r.speak_limit_num - 1 = n
      BY <1>1, <2>1
    <3> QED
      BY <3>1 DEF Listed, Places, n, l, m
  <2>3. /\ \A k \in 0 .. n : k = n \/ k \in 0 .. (n - 1)
        /\ \A k \in 0 .. (n - 1) : k # n /\ k \in 0 .. n
        /\ \A k \in 0 .. n : k \in 0 .. (MaxSpk - 1)
        /\ n \in 0 .. n
    BY <1>1
  <2>4. m[n] = t /\ \A k \in 0 .. (n - 1) : m[k] = l[k]
    BY <1>2, <2>3
  <2>5. Listed(r, t) /\ \A u \in Common : u # t => (Listed(r, u) <=> Listed(s, u))
    BY <2>2, <2>3, <2>4
  <2> QED
    BY <2>1, <2>5 DEF Listing
<1> QED
  BY <1>5, <1>6

LEMMA CommonOpenedGoes ==
  ASSUME NEW s, ConfOK(s), NEW t \in Common, NEW perm, NEW K, t \in K.opened,
         Applicants(s) \subseteq K.shown
  PROVE  LET r == CommonOpened(s, t, perm)
         IN /\ Goes(s, r, K) /\ (r.mic_state[t] = "OPEN" \/ t \in Applicants(r))
            /\ WasFull(r) \/ Listed(r, t)
<1> DEFINE n == s.speak_limit_num
           m == [s.mic_state EXCEPT ![t] = "OPEN"]
           l == [s.speak_addr_list EXCEPT ![n] = t]
           o == [s EXCEPT !.mic_state[t] = "OPEN", !.speak_addr_list[n] = t,
                          !.speak_limit_num = (@ + 1) % MaxSpk]
           d == DeleteApplicantAt(o, o.currect_first_index)
           e == NextAfterTime(d, ApplyLimit)
<1>1. /\ s \in Conf /\ t \in Terminals /\ n \in Slots /\ (n + 1) % MaxSpk \in Slots
      /\ m \in [Terminals -> MicStates] /\ l \in [Slots -> Common \cup {NoAddr}]
  <2>1. s \in Conf /\ t \in Terminals /\ n \in Slots /\ MaxSpk \in Nat \ {0}
    BY DiscussionAssumption DEF DiscussionAssumption, ConfOK, Conf, Common
  <2>2. (n + 1) % MaxSpk \in Slots
    BY <2>1 DEF Slots
  <2>3. m \in [Terminals -> MicStates] /\ l \in [Slots -> Common \cup {NoAddr}]
    BY <2>1 DEF Conf, MicStates
  <2> QED
    BY <2>1, <2>2, <2>3
<1>2. o = [s EXCEPT !.mic_state = m, !.speak_addr_list = l,
                    !.speak_limit_num = (n + 1) % MaxSpk]
  OBVIOUS
<1> HIDE DEF m, l
<1>3. /\ o \in Conf /\ SameMode(s, o) /\ SameList(s, o) /\ SameQueues(s, o)
      /\ o.currect_first_index = s.currect_first_index /\ o.mic_state = m
      /\ o.speak_addr_list = l /\ o.speak_limit_num = (n + 1) % MaxSpk
  BY <1>1, <1>2 DEF Conf, SameMode, SameList, SameQueues
<1> HIDE DEF o
<1>7. Listing(s, o, K) /\ (WasFull(o) \/ Listed(o, t))
  BY <1>1, <1>3, SpeakerListed DEF l, n
<1>4. Adds(s, o, K)
  BY <1>1, <1>3, <1>7, SpeakerAdds DEF m
<1>5. CASE s.edis_mode = "APPLY" /\ "APPLY_CB" \in perm
  <2>1. CommonOpened(s, t, perm) = e
    BY <1>5 DEF CommonOpened, o, n
  <2>2. ConfOK(o) /\ o.currect_first_index \in Nat /\ Moves(s, o, K)
        /\ Applicants(o) = Applicants(s)
    BY <1>3, <1>4, ApplicantFacts DEF Adds, SameList, Applicants
  <2>3. /\ ConfOK(d) /\ Apart(o, d) /\ Moves(o, d, K)
        /\ Applicants(d) \subseteq K.shown /\ d.mic_state = o.mic_state
    BY <2>2, DeleteAtOK
  <2> HIDE DEF d
  <2>4. ConfOK(e) /\ Kept(d, e) /\ Moves(d, e, K)
    BY <2>3, NextAfterOK
  <2>5. Moves(d, e, [opened |-> {}, shown |-> Applicants(d), asked |-> {}])
    <3> DEFINE K0 == [opened |-> {}, shown |-> Applicants(d), asked |-> {}]
    <3>1. Applicants(d) \subseteq K0.shown
      OBVIOUS
    <3> HIDE DEF K0
    <3>2. Moves(d, e, K0)
      BY <2>3, <3>1, NextAfterOK
    <3> QED
      BY <3>2 DEF K0
  <2> HIDE DEF e
  <2>6. e.mic_state[t] = "OPEN" \/ t \in Applicants(e)
    <3>1. d.mic_state[t] = "OPEN"
      BY <1>1, <1>3, <2>3 DEF m, Conf
    <3>2. Applicants(e) = Applicants(d)
      BY <2>4 DEF Kept, SameList, Applicants
    <3>3. e.mic_state[t] = d.mic_state[t] \/ t \in Applicants(d)
      BY <1>1, <2>5 DEF Moves, Shown
    <3> QED
      BY <3>1, <3>2, <3>3
  <2>7. Moves(s, d, K) /\ Moves(s, e, K)
    BY <2>2, <2>3, <2>4, MovesTrans DEF ConfOK
  <2>8. SameMode(s, e)
    BY <1>3, <2>3, <2>4 DEF Apart, Kept, SameMode
  <2>9. WasFull(e) \/ Listed(e, t)
    <3>1. e.speak_addr_list = o.speak_addr_list /\ e.speak_limit_num = o.speak_limit_num
      BY <2>3, <2>4 DEF Apart, Kept, SameSpeakers
    <3> QED
      BY <1>7, <3>1, SameListing
  <2> QED
    BY <1>5, <2>1, <2>4, <2>7, <2>8, <2>9, <2>6 DEF Goes, InList, Remembered, SameMode
<1>6. CASE ~(s.edis_mode = "APPLY" /\ "APPLY_CB" \in perm)
  <2>1. o.edis_mode = s.edis_mode
    BY <1>3 DEF SameMode
  <2>2. CommonOpened(s, t, perm) = o
    BY <1>6, <2>1 DEF CommonOpened, o, n
  <2>3. o.mic_state[t] = "OPEN"
    BY <1>1, <1>3 DEF m, Conf
  <2> QED
    BY <1>4, <1>7, <2>2, <2>3, AddsGoes
<1> QED
  BY <1>5, <1>6

LEMMA OpenMicGoes ==
  ASSUME NEW s, ConfOK(s), NEW t \in Terminals, NEW ok \in BOOLEAN, NEW perm, NEW K,
         ok => t \in K.opened, ~ok => t \in K.shown, Applicants(s) \subseteq K.shown
  PROVE  LET r == OpenMicCallback(s, t, ok, perm)
         IN /\ Goes(s, r, K) /\ (ok => r.mic_state[t] = "OPEN" \/ t \in Applicants(r))
            /\ ok /\ t \in Common => WasFull(r) \/ Listed(r, t)
<1>1. PriorOf[t] \in 0 .. 2
  BY DiscussionAssumption DEF DiscussionAssumption, Priors
<1>2. CASE ~ok
  <2>1. CASE PriorOf[t] = 2
    <3>1. OpenMicCallback(s, t, ok, perm) \in {Apply(s, t), s} /\ t \in Common
      BY <1>2, <2>1 DEF OpenMicCallback, CommonNotOpened, Common
    <3>2. Adds(s, s, K) /\ Adds(s, Apply(s, t), K)
      BY <1>2, <3>1, SelfAdds, ApplyOK DEF Adds, Apart
    <3> QED
      BY <1>2, <3>1, <3>2, AddsGoes
  <2>2. CASE PriorOf[t] # 2
    <3>1. OpenMicCallback(s, t, ok, perm) = s
      BY <1>2, <2>2 DEF OpenMicCallback
    <3> QED
      BY <1>2, <3>1, SelfAdds, AddsGoes
  <2> QED
    BY <2>1, <2>2
<1>3. CASE ok
  <2>1. CASE PriorOf[t] = 2
    <3>1. OpenMicCallback(s, t, ok, perm) = CommonOpened(s, t, perm) /\ t \in Common
      BY <1>3, <2>1 DEF OpenMicCallback, Common
    <3> QED
      BY <1>3, <3>1, CommonOpenedGoes
  <2>2. CASE PriorOf[t] = 1
    <3> DEFINE n == s.vipSpkNum
               m == [s.mic_state EXCEPT ![t] = "OPEN"]
               l == [s.vipSpeakList EXCEPT ![n] = t]
               o == [s EXCEPT !.mic_state[t] = "OPEN", !.vipSpeakList[n] = t,
                              !.vipSpkNum = (@ + 1) % MaxSpk]
    <3>1. s \in Conf /\ n \in Slots /\ MaxSpk \in Nat \ {0} /\ t \in Vips
      BY <2>2, DiscussionAssumption DEF DiscussionAssumption, ConfOK, Conf, Vips
    <3>2. (n + 1) % MaxSpk \in Slots
      BY <3>1 DEF Slots
    <3>3. m \in [Terminals -> MicStates] /\ l \in [Slots -> Vips \cup {NoAddr}]
      BY <3>1 DEF Conf, MicStates
    <3>4. o = [s EXCEPT !.mic_state = m, !.vipSpeakList = l, !.vipSpkNum = (n + 1) % MaxSpk]
      OBVIOUS
    <3>5. OpenMicCallback(s, t, ok, perm) = o
      BY <1>3, <2>2 DEF OpenMicCallback
    <3> HIDE DEF m, l
    <3>6. /\ o \in Conf /\ SameMode(s, o) /\ SameList(s, o) /\ SameQueues(s, o)
          /\ o.currect_first_index = s.currect_first_index /\ o.mic_state = m
          /\ o.speak_addr_list = s.speak_addr_list /\ o.speak_limit_num = s.speak_limit_num
      BY <3>1, <3>2, <3>3, <3>4 DEF Conf, SameMode, SameList, SameQueues
    <3> HIDE DEF o
    <3>7. Adds(s, o, K)
      <4>1. Listing(s, o, K)
        BY <3>6, SameListing
      <4> QED
        BY <1>3, <3>6, <4>1, SpeakerAdds DEF m
    <3>8. o.mic_state[t] = "OPEN"
      BY <3>1, <3>6 DEF m, Conf
    <3> QED
      BY <2>2, <3>5, <3>7, <3>8, AddsGoes DEF Common
  <2>3. CASE PriorOf[t] = 0
    <3>1. OpenMicCallback(s, t, ok, perm) = SetMic(s, t, "OPEN")
      BY <1>3, <2>3 DEF OpenMicCallback
    <3>2. /\ Adds(s, SetMic(s, t, "OPEN"), K)
          /\ SetMic(s, t, "OPEN").mic_state = [s.mic_state EXCEPT ![t] = "OPEN"]
      BY <1>3, OpenAdds
    <3>3. SetMic(s, t, "OPEN").mic_state[t] = "OPEN"
      BY <3>2 DEF ConfOK, Conf
    <3> QED
      BY <2>3, <3>1, <3>2, <3>3, AddsGoes DEF Common
  <2> QED
    BY <1>1, <2>1, <2>2, <2>3
<1> QED
  BY <1>2, <1>3

LEMMA DeletedSpeaker ==
  ASSUME NEW S, NEW l, l \in [Slots -> S], NoAddr \in S, NEW n \in Slots, NEW i
  PROVE  DeletedAt(l, n, i) \in [Slots -> S]
<1>1. MaxSpk \in Nat
  BY DiscussionAssumption DEF DiscussionAssumption
<1>2. \A k \in Slots : k \in i .. (n - 2) => k + 1 \in Slots
  BY <1>1 DEF Slots
<1> QED
  BY <1>2 DEF DeletedAt

(* A terminal is taken from the list of speakers, where it stands once. *)
LEMMA SpeakerUnlisted ==
  ASSUME NEW s, ConfOK(s), NEW t \in Common, NEW K, t \in K.shown, NEW m,
         m = Min(Places(s.speak_addr_list, s.speak_limit_num, t)), Listed(s, t), NEW r,
         r.speak_addr_list = DeletedAt(s.speak_addr_list, s.speak_limit_num, m),
         r.speak_limit_num = s.speak_limit_num - 1
  PROVE  /\ Listing(s, r, K)
         /\ Cardinality(Places(s.speak_addr_list, s.speak_limit_num, t)) <= 1 => ~Listed(r, t)
<1> DEFINE n == s.speak_limit_num
           l == s.speak_addr_list
           d == r.speak_addr_list
           at == Places(l, n, t)
<1>1. /\ MaxSpk \in Nat \ {0} /\ n \in 0 .. (MaxSpk - 1)
      /\ l \in [0 .. (MaxSpk - 1) -> Common \cup {NoAddr}]
  BY DiscussionAssumption DEF DiscussionAssumption, ConfOK, Conf, Slots
<1>2. m \in at /\ m \in 0 .. (n - 1) /\ l[m] = t
  <2>1. at \subseteq Nat /\ at # {}
    BY <1>1 DEF Places, Listed
  <2>2. m \in at
    BY <2>1, LeastNumber
  <2> QED
    BY <2>2 DEF Places
<1>3. \A k \in 0 .. (MaxSpk - 1) :
         d[k] = IF k = n - 1 THEN NoAddr ELSE IF k \in m .. (n - 2) THEN l[k + 1] ELSE l[k]
  BY <1>1 DEF DeletedAt
<1>4. /\ WasFull(s) <=> l[MaxSpk - 1] # NoAddr
      /\ WasFull(r) <=> d[MaxSpk - 1] # NoAddr
      /\ \A u : Listed(s, u) <=> \E k \in 0 .. (n - 1) : l[k] = u
      /\ \A u : Listed(r, u) <=> \E k \in 0 .. (n - 2) : d[k] = u
  <2>1. n - 1 - 1 = n - 2
    BY <1>1
  <2> QED
    BY <2>1 DEF WasFull, Listed, Places
<1>5. Cardinality(at) <= 1 => \A k \in 0 .. (n - 1) : l[k] = t => k = m
  <2> SUFFICES ASSUME Cardinality(at) <= 1, NEW k \in 0 .. (n - 1), l[k] = t PROVE k = m
    OBVIOUS
  <2>1. k \in at /\ at \subseteq 0 .. (n - 1) /\ 0 \in Int /\ n - 1 \in Int
    BY <1>1 DEF Places
  <2> HIDE DEF at, n
  <2>2. IsFiniteSet(at)
    BY <2>1, FS_Interval, FS_Subset
  <2>3. at \ {m} = {}
    <3>1. /\ IsFiniteSet(at \ {m}) /\ Cardinality(at \ {m}) = Cardinality(at) - 1
          /\ Cardinality(at) \in Nat /\ Cardinality(at \ {m}) \in Nat
      BY <1>2, <2>2, FS_RemoveElement, FS_CardinalityType
    <3> QED
      BY <3>1, FS_EmptySet
  <2> QED
    BY <2>1, <2>3
<1> HIDE DEF at, l, d, n
<1>6. WasFull(r) <=> WasFull(s)
  BY <1>1, <1>2, <1>3, <1>4
<1>7. \A k \in 0 .. (n - 2) : \E j \in 0 .. (n - 1) : j # m /\ l[j] = d[k]
  <2> SUFFICES ASSUME NEW k \in 0 .. (n - 2)
               PROVE  \E j \in 0 .. (n - 1) : j # m /\ l[j] = d[k]
    OBVIOUS
  <2>1. k \in 0 .. (n - 1) /\ k + 1 \in 0 .. (n - 1) /\ k \in 0 .. (MaxSpk - 1) /\ k # n - 1
    BY <1>1
  <2>2. CASE k < m
    BY <1>1, <1>2, <1>3, <2>1, <2>2
  <2>3. CASE k >= m
    BY <1>1, <1>2, <1>3, <2>1, <2>3
  <2> QED
    BY <1>2, <2>1, <2>2, <2>3
<1>8. \A j \in 0 .. (n - 1) : j # m => \E k \in 0 .. (n - 2) : d[k] = l[j]
  <2> SUFFICES ASSUME NEW j \in 0 .. (n - 1), j # m
               PROVE  \E k \in 0 .. (n - 2) : d[k] = l[j]
    OBVIOUS
  <2>1. CASE j < m
    <3>1. j \in 0 .. (n - 2) /\ j \in 0 .. (MaxSpk - 1) /\ d[j] = l[j]
      BY <1>1, <1>2, <1>3, <2>1
    <3> QED
      BY <3>1
  <2>2. CASE j > m
    <3>1. /\ j - 1 \in 0 .. (n - 2) /\ j - 1 \in 0 .. (MaxSpk - 1)
          /\ j - 1 \in m .. (n - 2) /\ j - 1 # n - 1 /\ (j - 1) + 1 = j
      BY <1>1, <1>2, <2>2
    <3>2. d[j - 1] = l[j]
      BY <1>3, <3>1
    <3> QED
      BY <3>1, <3>2
  <2> QED
    BY <1>2, <2>1, <2>2
<1>9. \A u \in Common : u # t => (Listed(r, u) <=> Listed(s, u))
  BY <1>2, <1>4, <1>7, <1>8
<1>10. Listing(s, r, K)
  BY <1>6, <1>9 DEF Listing
<1>11. Cardinality(Places(s.speak_addr_list, s.speak_limit_num, t)) <= 1 => ~Listed(r, t)
  <2> SUFFICES ASSUME Cardinality(at) <= 1, Listed(r, t) PROVE FALSE
    BY DEF at, l, n
  <2> QED
    BY <1>4, <1>5, <1>7
<1> QED
  BY <1>10, <1>11

LEMMA SpeakerDeletedOK ==
  ASSUME NEW s, ConfOK(s), NEW t \in Terminals, NEW K, t \in K.shown
  PROVE  LET r == SpeakerDeleted(s, t)
         IN /\ ConfOK(r) /\ SameMode(s, r) /\ SameList(s, r) /\ SameQueues(s, r)
            /\ r.currect_first_index = s.currect_first_index
            /\ r.mic_state = s.mic_state /\ Moves(s, r, K)
            /\ /\ t \in Common
               /\ Cardinality(Places(s.speak_addr_list, s.speak_limit_num, t)) <= 1
               => ~Listed(r, t)
<1> DEFINE common == Places(s.speak_addr_list, s.speak_limit_num, t)
           vip == Places(s.vipSpeakList, s.vipSpkNum, t)
           cl == DeletedAt(s.speak_addr_list, s.speak_limit_num, Min(common))
           vl == DeletedAt(s.vipSpeakList, s.vipSpkNum, Min(vip))
           r1 == [s EXCEPT !.speak_addr_list = cl, !.speak_limit_num = @ - 1]
           r2 == [s EXCEPT !.vipSpeakList = vl, !.vipSpkNum = @ - 1]
           r == SpeakerDeleted(s, t)
<1>1. /\ s \in Conf /\ s.speak_limit_num \in Slots /\ s.vipSpkNum \in Slots
      /\ s.speak_addr_list \in [Slots -> Common \cup {NoAddr}]
      /\ s.vipSpeakList \in [Slots -> Vips \cup {NoAddr}] /\ MaxSpk \in Nat
  BY DiscussionAssumption DEF DiscussionAssumption, ConfOK, Conf
<1>2. cl \in [Slots -> Common \cup {NoAddr}] /\ vl \in [Slots -> Vips \cup {NoAddr}]
  <2>1. NoAddr \in Common \cup {NoAddr} /\ NoAddr \in Vips \cup {NoAddr}
    OBVIOUS
  <2> HIDE DEF common, vip
  <2> QED
    BY <1>1, <2>1, DeletedSpeaker
<1>3. /\ common # {} => s.speak_limit_num - 1 \in Slots
      /\ vip # {} => s.vipSpkNum - 1 \in Slots
  BY <1>1 DEF Places, Slots
<1> HIDE DEF cl, vl
<1>4. \/ r = s /\ (t \in Common => common = {})
      \/ r = r1 /\ common # {} /\ t \in Common
      \/ r = r2 /\ vip # {} /\ t \notin Common
  BY DEF SpeakerDeleted, Common, cl, vl
<1>8. /\ Listing(s, r, K)
      /\ /\ t \in Common
         /\ Cardinality(Places(s.speak_addr_list, s.speak_limit_num, t)) <= 1
         => ~Listed(r, t)
  <2> HIDE DEF r
  <2>1. CASE r = s /\ (t \in Common => common = {})
    BY <2>1, SameListing DEF Listed
  <2>2. CASE r = r1 /\ common # {} /\ t \in Common
    <3> DEFINE m == Min(common)
    <3>1. r.speak_addr_list = cl /\ r.speak_limit_num = s.speak_limit_num - 1
      BY <1>1, <2>2 DEF Conf
    <3>2. Listed(s, t) /\ t \in Common
      BY <2>2 DEF Listed
    <3> QED
      BY <3>1, <3>2, SpeakerUnlisted DEF cl
  <2>3. CASE r = r2 /\ vip # {} /\ t \notin Common
    <3>1. r.speak_addr_list = s.speak_addr_list /\ r.speak_limit_num = s.speak_limit_num
      BY <1>1, <2>3 DEF Conf
    <3> QED
      BY <2>3, <3>1, SameListing
  <2> QED
    BY <1>4, <2>1, <2>2, <2>3
<1>5. /\ r \in Conf /\ SameMode(s, r) /\ SameList(s, r) /\ SameQueues(s, r)
      /\ r.currect_first_index = s.currect_first_index
      /\ r.mic_state = s.mic_state
  <2> HIDE DEF r, common, vip
  <2>1. CASE r = s
    BY <1>1, <2>1 DEF SameMode, SameList, SameQueues
  <2>2. CASE r = r1 /\ common # {}
    BY <1>1, <1>2, <1>3, <2>2 DEF Conf, SameMode, SameList, SameQueues
  <2>3. CASE r = r2 /\ vip # {}
    BY <1>1, <1>2, <1>3, <2>3 DEF Conf, SameMode, SameList, SameQueues
  <2> QED
    BY <1>4, <2>1, <2>2, <2>3
<1> HIDE DEF r
<1>6. Shown(s, r, K)
  BY <1>5 DEF Shown
<1>7. ConfOK(r) /\ Moves(s, r, K)
  BY <1>1, <1>5, <1>6, <1>8, FrameOK, MovesByMic
<1> QED
  BY <1>5, <1>7, <1>8 DEF r

LEMMA CloseMicGoes ==
  ASSUME NEW s, ConfOK(s), NEW t \in Terminals, NEW ok \in BOOLEAN, NEW K,
         ok => t \in K.shown, Applicants(s) \subseteq K.shown, Applicants(s) \subseteq K.asked,
         NEW r \in CloseMicCallback(s, t, ok)
  PROVE  /\ Goes(s, r, K) /\ (ok => r.mic_state[t] # "OPEN")
         /\ /\ ok /\ t \in Common
            /\ Cardinality(Places(s.speak_addr_list, s.speak_limit_num, t)) <= 1
            => WasFull(r) \/ ~Listed(r, t)
<1> DEFINE m == SetMic(s, t, "CLOSE")
           c == SpeakerDeleted(m, t)
<1>1. CASE ~ok
  <2>1. r = s
    BY <1>1 DEF CloseMicCallback
  <2> QED
    BY <1>1, <2>1, SelfAdds, AddsGoes
<1>2. CASE ok
  <2>1. "CLOSE" \in MicStates \ {"OPEN"}
    BY DEF MicStates
  <2>2. /\ ConfOK(m) /\ Kept(s, m) /\ Moves(s, m, K)
        /\ m.currect_first_index = s.currect_first_index
        /\ m.mic_state[t] = "CLOSE"
    BY <1>2, <2>1, SetMicOK
  <2> HIDE DEF m
  <2>3. /\ ConfOK(c) /\ SameMode(m, c) /\ SameList(m, c) /\ SameQueues(m, c)
        /\ c.currect_first_index = m.currect_first_index
        /\ Moves(m, c, K) /\ c.mic_state[t] = "CLOSE"
        /\ /\ t \in Common
           /\ Cardinality(Places(m.speak_addr_list, m.speak_limit_num, t)) <= 1
           => ~Listed(c, t)
    BY <1>2, <2>2, SpeakerDeletedOK
  <2> HIDE DEF c
  <2>10. /\ t \in Common
         /\ Cardinality(Places(s.speak_addr_list, s.speak_limit_num, t)) <= 1
         => ~Listed(c, t)
    BY <2>2, <2>3 DEF Kept, SameSpeakers
  <2>4. Moves(s, c, K)
    BY <2>2, <2>3, MovesTrans DEF ConfOK
  <2>5. /\ SameMode(s, c) /\ SameList(s, c)
        /\ c.currect_first_index = s.currect_first_index
        /\ Applicants(c) = Applicants(s)
    BY <2>2, <2>3 DEF Kept, SameMode, SameList, Applicants
  <2>6. Adds(s, c, K)
    BY <2>3, <2>4, <2>5, AddsFrame
  <2>7. r \in LimitModeApplyTSpeak(c) \/ r = c
    BY <1>2 DEF CloseMicCallback, c, m
  <2>8. CASE r = c
    BY <2>3, <2>6, <2>8, <2>10, AddsGoes
  <2>9. CASE r \in LimitModeApplyTSpeak(c)
    <3>1. Goes(c, r, K)
      BY <2>3, <2>5, <2>9, LimitModeGoes
    <3>2. Moves(s, r, K)
      BY <2>3, <2>4, <3>1, MovesTrans DEF ConfOK, Goes
    <3>3. Remembered(s, r) /\ SameMode(s, r) /\ (InList(s) => InList(r))
      BY <2>5, <2>6, <3>1 DEF Goes, Remembered, SameMode, Adds
    <3>4. r.mic_state[t] # "OPEN" /\ (t \in Common /\ ~WasFull(r) => ~Listed(r, t) \/ Listed(c, t))
      <4> DEFINE K0 == [opened |-> {}, shown |-> Applicants(c), asked |-> Applicants(c)]
      <4>1. /\ Applicants(c) \subseteq K0.shown /\ Applicants(c) \subseteq K0.asked
            /\ K0.opened = {}
        OBVIOUS
      <4> HIDE DEF K0
      <4>2. Goes(c, r, K0)
        BY <2>3, <2>9, <4>1, LimitModeGoes
      <4> QED
        BY <2>3, <4>1, <4>2 DEF Goes, Moves, Shown, Listing
    <3> QED
      BY <2>10, <3>1, <3>2, <3>3, <3>4 DEF Goes
  <2> QED
    BY <2>7, <2>8, <2>9
<1> QED
  BY <1>1, <1>2

LEMMA CallbackGoes ==
  ASSUME NEW s, ConfOK(s), NEW g \in Managers, NEW t \in Terminals, NEW ok \in BOOLEAN,
         NEW perm, NEW K,
         ok /\ g = "CONNECTOR" => t \in K.opened,
         ok # (g = "CONNECTOR") => t \in K.shown,
         Applicants(s) \subseteq K.shown,
         g = "DISCONNECTOR" => Applicants(s) \subseteq K.asked,
         NEW r \in Callback(s, g, t, ok, perm)
  PROVE  /\ Goes(s, r, K)
         /\ ok /\ g = "CONNECTOR" => r.mic_state[t] = "OPEN" \/ t \in Applicants(r)
         /\ ok /\ g = "DISCONNECTOR" => r.mic_state[t] # "OPEN"
         /\ ok /\ t \in Common /\ ~WasFull(r) =>
               /\ g = "CONNECTOR" => Listed(r, t)
               /\ /\ g = "DISCONNECTOR"
                  /\ Cardinality(Places(s.speak_addr_list, s.speak_limit_num, t)) <= 1
                  => ~Listed(r, t)
<1>1. CASE g = "CONNECTOR"
  <2>1. r = OpenMicCallback(s, t, ok, perm)
    BY <1>1 DEF Callback
  <2> QED
    BY <1>1, <2>1, OpenMicGoes
<1>2. CASE g = "DISCONNECTOR"
  <2>1. r \in CloseMicCallback(s, t, ok)
    BY <1>2 DEF Callback
  <2> QED
    BY <1>2, <2>1, CloseMicGoes
<1> QED
  BY <1>1, <1>2 DEF Managers

-----------------------------------------------------------------------------
(* The actions, as changes of the record *)

LEMMA CancelAdds ==
  ASSUME NEW s, ConfOK(s), NEW g \in Managers, NEW t \in Terminals, NEW K
  PROVE  Adds(s, [s EXCEPT !.reqQueues[g][PriorOf[t]] = Cancelled(@, t),
                           !.fSpkQueue[PriorOf[t]] = Cancelled(@, t)], K)
<1> DEFINE p == PriorOf[t]
           q == s.reqQueues[g][p]
           f == s.fSpkQueue[p]
           cq == Cancelled(q, t)
           cf == Cancelled(f, t)
           rq == [s.reqQueues EXCEPT ![g] = [s.reqQueues[g] EXCEPT ![p] = cq]]
           rf == [s.fSpkQueue EXCEPT ![p] = cf]
           r == [s EXCEPT !.reqQueues[g][p] = Cancelled(@, t), !.fSpkQueue[p] = Cancelled(@, t)]
<1>1. /\ s \in Conf /\ p \in Priors /\ q \in Seq(Of(p)) /\ f \in Seq(Of(p))
      /\ s.fSpkQueue \in [Priors -> Seq(Elements)]
      /\ s.reqQueues \in [Managers -> [Priors -> Seq(Elements)]]
  BY DiscussionAssumption DEF DiscussionAssumption, ConfOK, Conf, QueuesOK
<1>2. r = [s EXCEPT !.reqQueues = rq, !.fSpkQueue = rf]
  OBVIOUS
<1> HIDE DEF p, q, f
<1>3. /\ cq \in Seq(Of(p)) /\ Len(cq) = Len(q) /\ cq \in Seq(Elements)
      /\ \A i \in 1 .. Len(q) : cq[i].term = q[i].term
  BY <1>1, CancelledFacts, OfFacts
<1>4. /\ cf \in Seq(Of(p)) /\ Len(cf) = Len(f) /\ cf \in Seq(Elements)
      /\ \A u : Queued(cf, u) = Queued(f, u)
  BY <1>1, CancelledFacts, OfFacts
<1> HIDE DEF cq, cf
<1>5. /\ rq \in [Managers -> [Priors -> Seq(Elements)]]
      /\ \A d \in Managers, h \in Priors :
            rq[d][h] = IF d = g /\ h = p THEN cq ELSE s.reqQueues[d][h]
      /\ rf \in [Priors -> Seq(Elements)]
      /\ \A h \in Priors : rf[h] = IF h = p THEN cf ELSE s.fSpkQueue[h]
  BY <1>1, <1>3, <1>4
<1> HIDE DEF rq, rf, r
<1>6. /\ r \in Conf /\ SameMode(s, r) /\ SameSpeakers(s, r) /\ SameList(s, r)
      /\ r.fSpkQueue = rf /\ r.reqQueues = rq /\ r.mic_state = s.mic_state
      /\ r.currect_first_index = s.currect_first_index
  BY <1>1, <1>2, <1>5 DEF Conf, SameMode, SameSpeakers, SameList
<1>7. QueuesOK(r)
  BY <1>3, <1>4, <1>5, <1>6 DEF ConfOK, QueuesOK, f
<1>8. ApplicantsOK(r)
  BY <1>6 DEF ConfOK, ApplicantsOK, SameList, CurrentApplicant, ApplicantAt
<1>9. Extends(s, r)
  <2>1. \A d \in Managers, h \in Priors : Len(s.reqQueues[d][h]) \in Nat
    BY <1>1, LenProperties
  <2>2. ASSUME NEW d \in Managers, NEW h \in Priors
        PROVE  /\ Len(s.reqQueues[d][h]) <= Len(r.reqQueues[d][h])
               /\ \A i \in 1 .. Len(s.reqQueues[d][h]) :
                     r.reqQueues[d][h][i].term = s.reqQueues[d][h][i].term
    <3>1. CASE d = g /\ h = p
      <4>1. r.reqQueues[d][h] = cq /\ s.reqQueues[d][h] = q
        BY <1>5, <1>6, <3>1 DEF q
      <4> QED
        BY <1>3, <2>1, <4>1
    <3>2. CASE ~(d = g /\ h = p)
      <4>1. r.reqQueues[d][h] = s.reqQueues[d][h]
        BY <1>5, <1>6, <3>2
      <4> QED
        BY <2>1, <4>1
    <3> QED
      BY <3>1, <3>2
  <2> QED
    BY <2>2 DEF Extends
<1>10. FirstOnly(s, r, K)
  <2>1. \A u \in Terminals : PriorOf[u] \in Priors
    BY DiscussionAssumption DEF DiscussionAssumption
  <2> QED
    BY <1>4, <1>5, <1>6, <2>1 DEF First, FirstOnly, f
<1>11. Shown(s, r, K)
  BY <1>6 DEF Shown
<1>12. Adds(s, r, K)
  <2>1. Listing(s, r, K)
    BY <1>6, SameListing DEF SameSpeakers
  <2> QED
    BY <1>6, <1>7, <1>8, <1>9, <1>10, <1>11, <2>1, AddsFrame DEF ConfOK, Moves
<1> QED
  BY <1>12 DEF r, p

(* The request at the head of a first-speak queue is taken. *)
LEMMA FirstTakenAdds ==
  ASSUME NEW s, ConfOK(s), NEW p \in Priors, s.fSpkQueue[p] # <<>>, NEW K
  PROVE  Adds(s, [s EXCEPT !.fSpkQueue[p] = Tail(@)], K)
<1> DEFINE q == s.fSpkQueue[p]
           a == Tail(q)
           f == [s.fSpkQueue EXCEPT ![p] = a]
           r == [s EXCEPT !.fSpkQueue = f]
<1>1. /\ s \in Conf /\ q \in Seq(Of(p)) /\ s.fSpkQueue \in [Priors -> Seq(Elements)]
      /\ Len(q) \in Nat /\ Len(q) < FsQueueSize[p] /\ FsQueueSize[p] \in Nat
  BY DiscussionAssumption, OfFacts DEF DiscussionAssumption, ConfOK, Conf, QueuesOK
<1>2. /\ a \in Seq(Of(p)) /\ Len(a) = Len(q) - 1 /\ a \in Seq(Elements)
      /\ \A u : Queued(a, u) # {} => Queued(q, u) # {}
  <2>1. q # <<>>
    OBVIOUS
  <2> HIDE DEF q
  <2>2. /\ a \in Seq(Of(p)) /\ Len(a) = Len(q) - 1
        /\ \A u : Queued(a, u) # {} => Queued(q, u) # {}
    BY <1>1, <2>1, TailFacts
  <2> QED
    BY <2>2, OfFacts
<1> HIDE DEF a
<1>3. /\ f \in [Priors -> Seq(Elements)]
      /\ \A h \in Priors : f[h] = IF h = p THEN a ELSE s.fSpkQueue[h]
  BY <1>1, <1>2
<1> HIDE DEF f
<1>4. /\ r \in Conf /\ SameMode(s, r) /\ SameSpeakers(s, r) /\ SameList(s, r)
      /\ r.fSpkQueue = f /\ r.reqQueues = s.reqQueues /\ r.mic_state = s.mic_state
      /\ r.currect_first_index = s.currect_first_index
  BY <1>1, <1>3 DEF Conf, SameMode, SameSpeakers, SameList
<1> HIDE DEF r
<1>5. QueuesOK(r)
  <2>1. Len(a) < FsQueueSize[p]
    BY <1>1, <1>2
  <2> QED
    BY <1>2, <1>3, <1>4, <2>1 DEF ConfOK, QueuesOK
<1>6. ApplicantsOK(r)
  BY <1>4 DEF ConfOK, ApplicantsOK, SameList, CurrentApplicant, ApplicantAt
<1>7. Extends(s, r)
  <2>1. \A d \in Managers, h \in Priors : Len(s.reqQueues[d][h]) \in Nat
    BY <1>1, LenProperties DEF Conf
  <2> QED
    BY <1>4, <2>1 DEF Extends
<1>8. FirstOnly(s, r, K)
  <2>1. \A u \in Terminals : PriorOf[u] \in Priors
    BY DiscussionAssumption DEF DiscussionAssumption
  <2> QED
    BY <1>2, <1>3, <1>4, <2>1 DEF First, FirstOnly
<1>9. Shown(s, r, K)
  BY <1>4 DEF Shown
<1>10. Adds(s, r, K)
  <2>1. Listing(s, r, K)
    BY <1>4, SameListing DEF SameSpeakers
  <2> QED
    BY <1>4, <1>5, <1>6, <1>7, <1>8, <1>9, <2>1, AddsFrame DEF ConfOK, Moves
<1> QED
  BY <1>10 DEF r, f, a

LEMMA FirstServedAdds ==
  ASSUME NEW s, ConfOK(s), NEW p \in Priors, s.fSpkQueue[p] # <<>>, NEW K
  PROVE  Adds(s, RequestManager([s EXCEPT !.fSpkQueue[p] = Tail(@)], "CONNECTOR",
                                Head(s.fSpkQueue[p]).term, p,
                                Head(s.fSpkQueue[p]).permissions), K)
<1> DEFINE d == [s EXCEPT !.fSpkQueue[p] = Tail(@)]
           e == Head(s.fSpkQueue[p])
<1>1. e \in Of(p)
  BY TailFacts DEF ConfOK, QueuesOK
<1>2. e.term \in Terminals /\ PriorOf[e.term] = p /\ e.permissions \in Permissions
  BY <1>1 DEF Of, Elements
<1>3. Adds(s, d, K)
  BY FirstTakenAdds
<1> HIDE DEF d, e
<1>4. ConfOK(d) /\ "CONNECTOR" \in Managers
  BY <1>3 DEF Adds, Managers
<1>5. Adds(d, RequestManager(d, "CONNECTOR", e.term, p, e.permissions), K)
  BY <1>2, <1>4, RequestManagerOK, AddsFrame
<1>6. Adds(s, RequestManager(d, "CONNECTOR", e.term, p, e.permissions), K)
  BY <1>3, <1>5, AddsTrans
<1> QED
  BY <1>6 DEF d, e

LEMMA RefuseGoes ==
  ASSUME NEW s, ConfOK(s), NEW t, t = CurrentApplicant(s),
         Places(s.apply_addr_list, s.apply_num, t) # {},
         NEW K, Applicants(s) \subseteq K.shown
  PROVE  Goes(s, NextAfterTime(SetMic(DeleteApplicant(s, t), t, "CLOSE"), MaxApply), K)
<1> DEFINE d == DeleteApplicant(s, t)
           c == SetMic(d, t, "CLOSE")
           r == NextAfterTime(c, MaxApply)
           K0 == [opened |-> {}, shown |-> Applicants(c), asked |-> {}]
<1>1. t \in Applicants(s) /\ t \in Terminals /\ t \in K.shown
  <2>1. t \in Applicants(s)
    BY DEF Places, Applicants
  <2> QED
    BY <2>1, ApplicantFacts
<1>2. /\ ConfOK(d) /\ Apart(s, d) /\ Moves(s, d, K)
      /\ Applicants(d) \subseteq Applicants(s)
      /\ Applicants(s) \subseteq Applicants(d) \cup {t}
  BY DeleteOK
<1> HIDE DEF d
<1>3. /\ ConfOK(c) /\ Kept(d, c) /\ Moves(d, c, K) /\ c.mic_state[t] = "CLOSE"
  <2>1. "CLOSE" \in MicStates \ {"OPEN"}
    BY DEF MicStates
  <2> QED
    BY <1>1, <1>2, <2>1, SetMicOK
<1>4. Applicants(c) = Applicants(d)
  BY <1>3 DEF Kept, SameList, Applicants
<1> HIDE DEF c
<1>5. Applicants(c) \subseteq K.shown /\ Applicants(c) \subseteq K0.shown
  BY <1>2, <1>4
<1>6. K0.shown = Applicants(c) /\ K0.opened = {}
  OBVIOUS
<1> HIDE DEF K0
<1>7. /\ ConfOK(r) /\ Kept(c, r) /\ Moves(c, r, K) /\ Moves(c, r, K0)
      /\ r.apply_num > 0 => r.currect_first_index < r.apply_num
  BY <1>3, <1>5, NextAfterOK
<1> HIDE DEF r
<1>8. Moves(s, r, K)
  BY <1>2, <1>3, <1>7, MovesTrans DEF ConfOK
<1>9. Applicants(r) = Applicants(d)
  BY <1>4, <1>7 DEF Kept, SameList, Applicants
<1>10. Remembered(s, r)
  <2> SUFFICES ASSUME NEW u \in Applicants(s) \ Applicants(r)
               PROVE  r.mic_state[u] = "CLOSE"
    BY DEF Remembered
  <2>1. u = t /\ t \notin Applicants(c)
    BY <1>2, <1>4, <1>9
  <2>2. r.mic_state[t] = c.mic_state[t]
    BY <1>1, <1>6, <1>7, <2>1 DEF Moves, Shown
  <2> QED
    BY <1>3, <2>1, <2>2
<1>11. SameMode(s, r) /\ InList(r)
  BY <1>2, <1>3, <1>7 DEF Apart, Kept, SameMode, InList
<1>12. Goes(s, r, K)
  BY <1>7, <1>8, <1>10, <1>11 DEF Goes
<1> QED
  BY <1>12 DEF r, c, d

LEMMA NextApplicantGoes ==
  ASSUME NEW s, ConfOK(s), s.apply_num > 1, CurrentApplicant(s) # NoAddr,
         NEW K, Applicants(s) \subseteq K.shown
  PROVE  LET waits == SetMic(s, CurrentApplicant(s), "OTHER_APPLY")
             next == Wrapped([waits EXCEPT !.currect_first_index = @ + 1])
         IN Goes(s, SetMicAfterTime(next, CurrentApplicant(next), "FIRST_APPLY"), K)
<1> DEFINE t == CurrentApplicant(s)
           waits == SetMic(s, t, "OTHER_APPLY")
           x == (waits.currect_first_index + 1) % waits.apply_num
           next == [waits EXCEPT !.currect_first_index = x]
           u == CurrentApplicant(next)
           r == SetMicAfterTime(next, u, "FIRST_APPLY")
<1>1. t \in Applicants(s) /\ t \in Terminals /\ t \in K.shown
  BY ApplicantFacts
<1>2. {"OTHER_APPLY", "FIRST_APPLY"} \subseteq MicStates \ {"OPEN"}
  BY DEF MicStates
<1> HIDE DEF t
<1>3. /\ ConfOK(waits) /\ Kept(s, waits) /\ Moves(s, waits, K)
      /\ waits.currect_first_index = s.currect_first_index
  BY <1>1, <1>2, SetMicOK
<1> HIDE DEF waits
<1>4. /\ waits \in Conf /\ waits.apply_num > 1 /\ waits.apply_num \in 0 .. ApplyLimit
      /\ waits.currect_first_index \in 0 .. MaxApply
      /\ ApplyLimit \in 1 .. MaxApply /\ MaxApply \in Nat
      /\ Applicants(waits) = Applicants(s)
  BY <1>3, DiscussionAssumption DEF DiscussionAssumption, ConfOK, Conf, Kept, SameList, Applicants
<1>5. x \in 0 .. (waits.apply_num - 1)
  BY <1>4
<1>6. x \in 0 .. MaxApply
  BY <1>4, <1>5
<1>7. Wrapped([waits EXCEPT !.currect_first_index = @ + 1]) = next
  BY <1>4 DEF Wrapped, Conf
<1> HIDE DEF x
<1>8. /\ next \in Conf /\ Kept(waits, next) /\ next.mic_state = waits.mic_state
      /\ next.currect_first_index = x
  BY <1>4, <1>6 DEF Conf, Kept, SameMode, SameSpeakers, SameList, SameQueues
<1> HIDE DEF next
<1>9. next.currect_first_index < next.apply_num
  BY <1>4, <1>5, <1>8 DEF Kept, SameList
<1>10. ConfOK(next) /\ Applicants(next) = Applicants(s) /\ Moves(waits, next, K)
  BY <1>3, <1>4, <1>8, <1>9, FrameOK, MovesByMic DEF Kept, Shown
<1>11. u \in Applicants(s) /\ u \in Terminals /\ u \in K.shown
  BY <1>9, <1>10, ApplicantFacts
<1> HIDE DEF u
<1>12. /\ ConfOK(r) /\ Kept(next, r) /\ Moves(next, r, K)
       /\ r.currect_first_index = next.currect_first_index
  BY <1>2, <1>10, <1>11, SetMicAfterOK
<1> HIDE DEF r
<1>13. Moves(s, r, K) /\ Kept(s, r)
  BY <1>3, <1>4, <1>8, <1>10, <1>12, MovesTrans, KeptTrans DEF ConfOK
<1>14. InList(r)
  BY <1>9, <1>12 DEF InList, Kept, SameList
<1>15. Adds(s, r, K)
  BY <1>12, <1>13, <1>14 DEF Adds, Kept, SameList, Applicants
<1>16. Goes(s, r, K)
  BY <1>15, AddsGoes
<1> QED
  BY <1>7, <1>16 DEF r, u, waits, t

LEMMA ApproveAdds ==
  ASSUME NEW s, ConfOK(s), s.currect_first_index < s.apply_num,
         NEW K, Applicants(s) \subseteq K.asked
  PROVE  Adds(s, FirstSpkRequest(s, CurrentApplicant(s), 2, {"COMMON_SPK", "APPLY_CB"}), K)
<1>1. /\ CurrentApplicant(s) \in Terminals /\ PriorOf[CurrentApplicant(s)] = 2
      /\ CurrentApplicant(s) \in K.asked
  BY ApplicantFacts DEF Common
<1>2. {"COMMON_SPK", "APPLY_CB"} \in Permissions
  BY DEF Permissions
<1> QED
  BY <1>1, <1>2, FirstSpkOK, AddsFrame

LEMMA SelectAdds ==
  ASSUME NEW s, ConfOK(s), NEW t \in Terminals, CurrentApplicant(s) # NoAddr,
         NEW K, Applicants(s) \subseteq K.shown
  PROVE  LET waits == SetMic(s, CurrentApplicant(s), "OTHER_APPLY")
         IN Adds(s, IF Places(s.apply_addr_list, s.apply_num, t) # {}
                    THEN SetMic(waits, t, "FIRST_APPLY") ELSE waits, K)
<1> DEFINE u == CurrentApplicant(s)
           waits == SetMic(s, u, "OTHER_APPLY")
           r == SetMic(waits, t, "FIRST_APPLY")
<1>1. u \in Terminals /\ u \in K.shown
  BY ApplicantFacts
<1>2. {"OTHER_APPLY", "FIRST_APPLY"} \subseteq MicStates \ {"OPEN"}
  BY DEF MicStates
<1> HIDE DEF u
<1>3. /\ ConfOK(waits) /\ Kept(s, waits) /\ Moves(s, waits, K)
      /\ waits.currect_first_index = s.currect_first_index
  BY <1>1, <1>2, SetMicOK
<1> HIDE DEF waits
<1>4. Adds(s, waits, K)
  BY <1>3, AddsFrame DEF Kept
<1>5. ASSUME Places(s.apply_addr_list, s.apply_num, t) # {}
      PROVE  Adds(s, r, K)
  <2>1. t \in K.shown
    BY <1>5 DEF Places, Applicants
  <2>2. /\ ConfOK(r) /\ Kept(waits, r) /\ Moves(waits, r, K)
        /\ r.currect_first_index = waits.currect_first_index
    BY <1>2, <1>3, <2>1, SetMicOK
  <2> HIDE DEF r
  <2>3. Adds(waits, r, K)
    BY <2>2, AddsFrame DEF Kept
  <2> QED
    BY <1>4, <2>3, AddsTrans
<1> QED
  BY <1>4, <1>5 DEF waits, u

(* What a step that does not end a request keeps, whatever it sets. *)
Steps(s, r, K) == ConfOK(r) /\ Moves(s, r, K) /\ (InList(s) => InList(r))

LEMMA ConcatFacts ==
  ASSUME NEW p \in Priors, NEW q \in Seq(Of(p)), NEW w \in Seq(Of(p))
  PROVE  LET c == q \o w
         IN /\ c \in Seq(Of(p)) /\ Len(c) = Len(q) + Len(w)
            /\ \A i \in 1 .. Len(q) : c[i] = q[i]
            /\ \A t : Queued(c, t) # {} => Queued(q, t) # {} \/ Queued(w, t) # {}
            /\ \A t : Queued(w, t) # {} => Queued(c, t) # {}
<1> DEFINE c == q \o w
<1>1. /\ c \in Seq(Of(p)) /\ Len(c) = Len(q) + Len(w)
      /\ \A i \in 1 .. (Len(q) + Len(w)) : c[i] = IF i <= Len(q) THEN q[i] ELSE w[i - Len(q)]
      /\ Len(q) \in Nat /\ Len(w) \in Nat
  BY ConcatProperties, LenProperties
<1> HIDE DEF c
<1>2. \A i \in 1 .. Len(q) : i \in 1 .. Len(c) /\ c[i] = q[i]
  BY <1>1
<1>3. \A i \in 1 .. Len(w) : /\ i + Len(q) \in 1 .. Len(c) /\ ~(i + Len(q) <= Len(q))
                             /\ i + Len(q) - Len(q) = i
  BY <1>1
<1>4. \A i \in 1 .. Len(w) : i + Len(q) \in 1 .. Len(c) /\ c[i + Len(q)] = w[i]
  BY <1>1, <1>3
<1>5. \A i \in 1 .. Len(c) : \/ i \in 1 .. Len(q)
                             \/ i - Len(q) \in 1 .. Len(w) /\ c[i] = w[i - Len(q)]
  BY <1>1
<1>6. \A t : Queued(q, t) # {} <=> \E i \in 1 .. Len(q) : q[i].term = t
  BY OfFacts
<1>7. \A t : Queued(w, t) # {} <=> \E i \in 1 .. Len(w) : w[i].term = t
  BY OfFacts
<1>8. \A t : Queued(c, t) # {} <=> \E i \in 1 .. Len(c) : c[i].term = t
  BY <1>1, OfFacts
<1>9. \A t : Queued(c, t) # {} => Queued(q, t) # {} \/ Queued(w, t) # {}
  BY <1>2, <1>5, <1>6, <1>7, <1>8
<1>10. \A t : Queued(w, t) # {} => Queued(c, t) # {}
  BY <1>4, <1>7, <1>8
<1> QED
  BY <1>1, <1>2, <1>9, <1>10 DEF c

LEMMA ModeSteps ==
  ASSUME NEW s, ConfOK(s), NEW m \in Modes, NEW K,
         NEW asked, \A p \in Priors : asked[p + 1] \in Seq({t \in Terminals : PriorOf[t] = p})
  PROVE  LET r == ModeSet(s, m, asked)
         IN Steps(s, r, K) /\ r.currect_first_index = MaxApply
<1> DEFINE W(p) == [i \in DOMAIN asked[p + 1] |-> Request(asked[p + 1][i], {"COMMON_SPK"})]
           a == [p \in Priors |-> s.reqQueues["DISCONNECTOR"][p] \o W(p)]
           f == [s.reqQueues EXCEPT !["DISCONNECTOR"] = a]
           r == ModeSet(s, m, asked)
<1>1. ASSUME NEW p \in Priors PROVE W(p) \in Seq(Of(p))
  <2> DEFINE y == asked[p + 1]
             S == {t \in Terminals : PriorOf[t] = p}
  <2>1. y \in Seq(S)
    OBVIOUS
  <2> HIDE DEF y, S
  <2>2. Len(y) \in Nat /\ DOMAIN y = 1 .. Len(y) /\ \A i \in 1 .. Len(y) : y[i] \in S
    BY <2>1, LenProperties, ElementOfSeq
  <2>3. {"COMMON_SPK"} \in Permissions
    BY DEF Permissions
  <2>4. \A i \in 1 .. Len(y) : Request(y[i], {"COMMON_SPK"}) \in Of(p)
    BY <2>2, <2>3, RequestFacts DEF S
  <2>5. [i \in DOMAIN y |-> Request(y[i], {"COMMON_SPK"})] \in [1 .. Len(y) -> Of(p)]
    BY <2>2, <2>4
  <2>6. [i \in DOMAIN y |-> Request(y[i], {"COMMON_SPK"})] \in Seq(Of(p))
    BY <2>2, <2>5
  <2> QED
    BY <2>6 DEF y
<1>2. /\ s \in Conf /\ "DISCONNECTOR" \in Managers
      /\ s.reqQueues \in [Managers -> [Priors -> Seq(Elements)]]
      /\ \A g \in Managers, p \in Priors : s.reqQueues[g][p] \in Seq(Of(p))
      /\ MaxApply \in Nat /\ ApplyLimit \in Nat
  BY DiscussionAssumption DEF DiscussionAssumption, ConfOK, Conf, QueuesOK, Managers
<1>3. \A p \in Priors :
        /\ a[p] \in Seq(Of(p)) /\ a[p] \in Seq(Elements)
        /\ Len(s.reqQueues["DISCONNECTOR"][p]) <= Len(a[p])
        /\ \A i \in 1 .. Len(s.reqQueues["DISCONNECTOR"][p]) :
              a[p][i] = s.reqQueues["DISCONNECTOR"][p][i]
  <2> TAKE p \in Priors
  <2> DEFINE q == s.reqQueues["DISCONNECTOR"][p]
             w == W(p)
             c == q \o w
  <2>1. q \in Seq(Of(p)) /\ w \in Seq(Of(p)) /\ a[p] = c
    BY <1>1, <1>2
  <2> HIDE DEF q, w
  <2>2. /\ c \in Seq(Of(p)) /\ Len(c) = Len(q) + Len(w)
        /\ \A i \in 1 .. Len(q) : c[i] = q[i]
    BY <2>1, ConcatFacts
  <2>3. Len(q) \in Nat /\ Len(w) \in Nat /\ c \in Seq(Elements)
    BY <2>1, <2>2, OfFacts
  <2> HIDE DEF c
  <2>4. Len(q) <= Len(c)
    BY <2>2, <2>3
  <2> QED
    BY <2>1, <2>2, <2>3, <2>4 DEF q
<1>4. r = [s EXCEPT !.edis_mode = m, !.currect_first_index = MaxApply,
                    !.apply_num = 0, !.reqQueues = f]
  BY <1>2 DEF Conf, ModeSet
<1>5. a \in [Priors -> Seq(Elements)]
  BY <1>3
<1> HIDE DEF a, r
<1>6. /\ f \in [Managers -> [Priors -> Seq(Elements)]]
      /\ \A g \in Managers : f[g] = IF g = "DISCONNECTOR" THEN a ELSE s.reqQueues[g]
  BY <1>2, <1>5
<1> HIDE DEF f
<1>7. /\ r \in Conf /\ r.reqQueues = f /\ r.fSpkQueue = s.fSpkQueue
      /\ r.speak_addr_list = s.speak_addr_list /\ r.speak_limit_num = s.speak_limit_num
      /\ r.apply_num = 0 /\ r.currect_first_index = MaxApply
      /\ r.apply_addr_list = s.apply_addr_list /\ r.mic_state = s.mic_state
  <2>1. MaxApply \in 0 .. MaxApply /\ 0 \in 0 .. ApplyLimit
    BY <1>2
  <2> QED
    BY <1>2, <1>4, <1>6, <2>1 DEF Conf
<1>8. QueuesOK(r)
  BY <1>2, <1>3, <1>6, <1>7 DEF ConfOK, QueuesOK
<1>9. ApplicantsOK(r)
  BY <1>2, <1>7 DEF ConfOK, ApplicantsOK, CurrentApplicant, ApplicantAt, ApplySlots
<1>10. Extends(s, r)
  <2>1. \A g \in Managers, p \in Priors : Len(s.reqQueues[g][p]) \in Nat
    BY <1>2, LenProperties
  <2>2. ASSUME NEW g \in Managers, NEW p \in Priors
        PROVE  /\ Len(s.reqQueues[g][p]) <= Len(r.reqQueues[g][p])
               /\ \A i \in 1 .. Len(s.reqQueues[g][p]) :
                     r.reqQueues[g][p][i].term = s.reqQueues[g][p][i].term
    <3>1. CASE g = "DISCONNECTOR"
      <4>1. r.reqQueues[g][p] = a[p]
        BY <1>6, <1>7, <3>1
      <4> QED
        BY <1>3, <3>1, <4>1
    <3>2. CASE g # "DISCONNECTOR"
      <4>1. r.reqQueues[g][p] = s.reqQueues[g][p]
        BY <1>6, <1>7, <3>2
      <4> QED
        BY <2>1, <4>1
    <3> QED
      BY <3>1, <3>2
  <2> QED
    BY <2>2 DEF Extends
<1>11. FirstOnly(s, r, K) /\ Shown(s, r, K) /\ InList(r)
  BY <1>7 DEF FirstOnly, First, Shown, InList
<1> QED
  BY <1>7, <1>8, <1>9, <1>10, <1>11, SameListing DEF Steps, Moves, ConfOK, r

LEMMA LimitSteps ==
  ASSUME NEW s, ConfOK(s), NEW n \in Limits, NEW K
  PROVE  Steps(s, [s EXCEPT !.limit_num = n], K) /\ Remembered(s, [s EXCEPT !.limit_num = n])
<1> DEFINE r == [s EXCEPT !.limit_num = n]
<1>1. s \in Conf
  BY DEF ConfOK
<1>2. /\ r \in Conf /\ SameQueues(s, r) /\ SameList(s, r) /\ r.edis_mode = s.edis_mode
      /\ SameSpeakers(s, r)
      /\ r.currect_first_index = s.currect_first_index /\ r.mic_state = s.mic_state
  BY <1>1 DEF Conf, SameQueues, SameList, SameSpeakers
<1> HIDE DEF r
<1>3. ConfOK(r) /\ Moves(s, r, K) /\ Applicants(r) = Applicants(s)
  BY <1>1, <1>2, FrameOK, MovesByMic DEF Shown
<1>4. Steps(s, r, K) /\ Remembered(s, r)
  BY <1>2, <1>3 DEF Steps, InList, SameList, Remembered
<1> QED
  BY <1>4 DEF r

(* The applicants that are asked are terminals without a stream; when the  *)
(* queue has room for all of them, all are.                                *)
LEMMA AskSteps ==
  ASSUME NEW s, ConfOK(s), NEW n \in Limits, NEW K, Terminals \ streams \subseteq K.asked,
         NEW num, num = s.apply_num, num > 0, NEW first,
         NEW asked, asked = {i \in 0 .. (num - 1) : s.apply_addr_list[i] \notin streams},
         NEW room, room = FsQueueSize[2] - 1 - Len(s.fSpkQueue[2]),
         NEW order \in SeqOf(asked, Min({room, num})),
         InTurn(order, asked, first, num, room)
  PROVE  LET r == [AskApplicants(s, order) EXCEPT !.limit_num = n]
         IN Steps(s, r, K) /\ Remembered(s, r)
<1> DEFINE l == [i \in ApplySlots |-> IF i < s.apply_num THEN NoAddr ELSE s.apply_addr_list[i]]
           w == [j \in DOMAIN order |-> Request(s.apply_addr_list[order[j]], {"COMMON_SPK"})]
           q == s.fSpkQueue[2]
           c == q \o w
           f == [s.fSpkQueue EXCEPT ![2] = c]
           r == [AskApplicants(s, order) EXCEPT !.limit_num = n]
<1>1. /\ s \in Conf /\ 2 \in Priors /\ q \in Seq(Of(2)) /\ Len(q) \in Nat
      /\ s.fSpkQueue \in [Priors -> Seq(Elements)]
      /\ Len(q) < FsQueueSize[2] /\ FsQueueSize[2] \in Nat /\ room \in Nat
      /\ num \in 1 .. ApplyLimit /\ ApplyLimit \in 1 .. MaxApply /\ MaxApply \in Nat
      /\ {"COMMON_SPK"} \in Permissions
  <2>1. 2 \in Priors
    BY DEF Priors
  <2>2. q \in Seq(Of(2)) /\ Len(q) < FsQueueSize[2]
    BY <2>1 DEF ConfOK, QueuesOK
  <2>3. Len(q) \in Nat /\ FsQueueSize[2] \in Nat
    BY <2>1, <2>2, OfFacts, DiscussionAssumption DEF DiscussionAssumption
  <2>4. room \in Nat
    BY <2>2, <2>3
  <2>5. /\ s \in Conf /\ s.fSpkQueue \in [Priors -> Seq(Elements)] /\ {"COMMON_SPK"} \in Permissions
        /\ num \in 1 .. ApplyLimit /\ ApplyLimit \in 1 .. MaxApply /\ MaxApply \in Nat
    BY DiscussionAssumption DEF DiscussionAssumption, ConfOK, Conf, Permissions
  <2> QED
    BY <2>1, <2>2, <2>3, <2>4, <2>5
<1>2. /\ order \in Seq(asked) /\ Len(order) \in Nat /\ Len(order) <= room
      /\ DOMAIN order = 1 .. Len(order) /\ \A j \in 1 .. Len(order) : order[j] \in asked
  <2>1. Min({room, num}) \in Nat /\ Min({room, num}) <= room
    <3> DEFINE T == {room, num}
    <3>1. T \subseteq Nat /\ T # {} /\ room \in T
      BY <1>1
    <3> HIDE DEF T
    <3>2. Min(T) \in T /\ \A y \in T : Min(T) <= y
      BY <3>1, LeastNumber
    <3>3. Min(T) \in Nat /\ Min(T) <= room
      BY <3>1, <3>2
    <3> QED
      BY <3>3 DEF T
  <2>2. PICK k \in 0 .. Min({room, num}) : order \in [1 .. k -> asked]
    BY DEF SeqOf
  <2>3. order \in Seq(asked) /\ Len(order) = k /\ k \in Nat
    BY <2>1, <2>2
  <2> QED
    BY <1>1, <2>1, <2>2, <2>3
<1>3. \A i \in asked : /\ s.apply_addr_list[i] \in Common
                       /\ s.apply_addr_list[i] \in Terminals \ streams
                       /\ PriorOf[s.apply_addr_list[i]] = 2
  BY DEF ConfOK, ApplicantsOK, Common
<1>4. \A j \in 1 .. Len(order) :
         /\ Request(s.apply_addr_list[order[j]], {"COMMON_SPK"}) \in Of(2)
         /\ Request(s.apply_addr_list[order[j]], {"COMMON_SPK"}).term = s.apply_addr_list[order[j]]
  BY <1>1, <1>2, <1>3, RequestFacts
<1>5. /\ w \in Seq(Of(2)) /\ Len(w) = Len(order)
      /\ \A j \in 1 .. Len(order) : w[j].term = s.apply_addr_list[order[j]]
  <2>1. w \in [1 .. Len(order) -> Of(2)]
    BY <1>2, <1>4
  <2> QED
    BY <1>2, <1>4, <2>1
<1>6. /\ c \in Seq(Of(2)) /\ c \in Seq(Elements) /\ Len(c) = Len(q) + Len(order)
      /\ \A t : Queued(c, t) # {} => Queued(q, t) # {} \/ Queued(w, t) # {}
      /\ \A t : Queued(w, t) # {} => Queued(c, t) # {}
  <2> HIDE DEF w, q
  <2>1. /\ c \in Seq(Of(2)) /\ Len(c) = Len(q) + Len(w)
        /\ \A t : Queued(c, t) # {} => Queued(q, t) # {} \/ Queued(w, t) # {}
        /\ \A t : Queued(w, t) # {} => Queued(c, t) # {}
    BY <1>1, <1>5, ConcatFacts
  <2> QED
    BY <1>1, <1>5, <2>1, OfFacts
<1>7. /\ \A t : Queued(w, t) # {} <=> \E j \in 1 .. Len(order) : s.apply_addr_list[order[j]] = t
  <2> HIDE DEF w
  <2>1. \A t : Queued(w, t) # {} <=> \E j \in 1 .. Len(w) : w[j].term = t
    BY <1>1, <1>5, OfFacts
  <2> QED
    BY <1>5, <2>1
<1> HIDE DEF w, c
<1>8. l \in [ApplySlots -> Common \cup {NoAddr}]
  BY <1>1 DEF Conf
<1>9. /\ f \in [Priors -> Seq(Elements)]
      /\ \A h \in Priors : f[h] = IF h = 2 THEN c ELSE s.fSpkQueue[h]
  BY <1>1, <1>6
<1>10. r = [s EXCEPT !.apply_addr_list = l, !.apply_num = 0, !.currect_first_index = 0,
                     !.fSpkQueue = f, !.limit_num = n]
  BY <1>1 DEF AskApplicants, Conf, c, w
<1> HIDE DEF l, f, r
<1>11. /\ r \in Conf /\ r.reqQueues = s.reqQueues /\ r.fSpkQueue = f
       /\ r.speak_addr_list = s.speak_addr_list /\ r.speak_limit_num = s.speak_limit_num
       /\ r.apply_num = 0 /\ r.currect_first_index = 0 /\ r.apply_addr_list = l
       /\ r.mic_state = s.mic_state
  <2>1. 0 \in 0 .. MaxApply /\ 0 \in 0 .. ApplyLimit
    BY <1>1
  <2> QED
    BY <1>1, <1>8, <1>9, <1>10, <2>1 DEF Conf
<1>12. QueuesOK(r)
  <2>1. Len(c) < FsQueueSize[2]
    BY <1>1, <1>2, <1>6
  <2> QED
    BY <1>6, <1>9, <1>11, <2>1 DEF ConfOK, QueuesOK
<1>13. ApplicantsOK(r)
  <2>1. \A i \in ApplySlots : i >= ApplyLimit => l[i] = NoAddr
    BY DEF l, ConfOK, ApplicantsOK
  <2>2. 0 \in ApplySlots /\ l[0] = NoAddr
    BY <1>1 DEF l, ApplySlots
  <2> QED
    BY <1>11, <2>1, <2>2 DEF ApplicantsOK, CurrentApplicant, ApplicantAt
<1>14. Extends(s, r)
  <2>1. \A g \in Managers, h \in Priors : Len(s.reqQueues[g][h]) \in Nat
    BY <1>1, LenProperties DEF Conf
  <2> QED
    BY <1>11, <2>1 DEF Extends
<1>15. FirstOnly(s, r, K)
  <2> SUFFICES ASSUME NEW t \in Terminals, First(r, t), ~First(s, t) PROVE t \in K.asked
    BY DEF FirstOnly
  <2>1. PriorOf[t] \in Priors
    BY DiscussionAssumption DEF DiscussionAssumption
  <2>2. PriorOf[t] = 2 /\ Queued(c, t) # {} /\ Queued(q, t) = {}
    BY <1>9, <1>11, <2>1 DEF First
  <2>3. PICK j \in 1 .. Len(order) : s.apply_addr_list[order[j]] = t
    BY <1>6, <1>7, <2>2
  <2> QED
    BY <1>2, <1>3, <2>3
<1>16. Shown(s, r, K) /\ InList(r)
  BY <1>11 DEF Shown, InList
<1>17. Remembered(s, r)
  <2> SUFFICES ASSUME NEW t \in Applicants(s), t \notin streams
               PROVE  First(r, t) \/ ~FsRoom(r, 2)
    BY DEF Remembered
  <2>1. PICK i \in 0 .. (num - 1) : s.apply_addr_list[i] = t
    BY DEF Applicants
  <2>2. i \in asked
    BY <2>1
  <2>3. PriorOf[t] = 2
    BY <1>3, <2>1, <2>2
  <2>4. CASE i \in Range(order)
    <3>1. PICK j \in 1 .. Len(order) : order[j] = i
      BY <1>2, <2>4 DEF Range
    <3>2. Queued(c, t) # {}
      BY <1>6, <1>7, <2>1, <3>1
    <3> QED
      BY <1>1, <1>9, <1>11, <2>3, <3>2 DEF First
  <2>5. CASE i \notin Range(order)
    <3>1. Len(order) = room
      BY <2>2, <2>5 DEF InTurn
    <3>2. Len(c) = FsQueueSize[2] - 1
      BY <1>1, <1>2, <1>6, <3>1
    <3>3. r.fSpkQueue[2] = c
      BY <1>1, <1>9, <1>11
    <3> QED
      BY <1>1, <3>2, <3>3 DEF FsRoom
  <2> QED
    BY <2>4, <2>5
<1> QED
  BY <1>11, <1>12, <1>13, <1>14, <1>15, <1>16, <1>17, SameListing DEF Steps, Moves, ConfOK, r

-----------------------------------------------------------------------------
(* The steps *)

StepK == [opened |-> streams,
          shown |-> (Terminals \ streams) \cup Applicants(conf),
          asked |-> (Terminals \ streams) \cup Applicants(conf)]

(* A step of the discussion that ends no request to the manager. *)
Plain ==
    /\ Becomes(conf') /\ Steps(conf, conf', StepK)
    /\ Remembered(conf, conf') \/ conf'.currect_first_index = MaxApply

LEMMA StepKFacts ==
  /\ StepK.opened = streams
  /\ KeySets(StepK)
  /\ Applicants(conf) \subseteq StepK.shown /\ Applicants(conf) \subseteq StepK.asked
  /\ Terminals \ streams \subseteq StepK.asked
BY DEF StepK, KeySets

LEMMA GoesPlain ==
  ASSUME NEW r, Goes(conf, r, StepK), Becomes(r)
  PROVE  Plain
BY DEF Goes, Becomes, Steps, Plain

LEMMA AddsPlain ==
  ASSUME NEW r, Adds(conf, r, StepK), Becomes(r)
  PROVE  Plain
BY AddsGoes, GoesPlain

LEMMA KeyOfBusyPlain ==
  ASSUME ConfOK(conf), NEW t \in Terminals, NEW down \in BOOLEAN, KeyOfBusy(t, down)
  PROVE  Plain
<1> DEFINE g == IF down THEN "DISCONNECTOR" ELSE "CONNECTOR"
           r == [conf EXCEPT !.reqQueues[g][PriorOf[t]] = Cancelled(@, t),
                             !.fSpkQueue[PriorOf[t]] = Cancelled(@, t)]
<1>1. Becomes(IF down = (t \in streams) THEN r ELSE conf)
  BY DEF KeyOfBusy
<1>2. g \in Managers
  BY DEF Managers
<1> HIDE DEF g
<1>3. Adds(conf, r, StepK) /\ Adds(conf, conf, StepK)
  BY <1>2, CancelAdds, SelfAdds
<1> HIDE DEF r
<1>4. CASE down = (t \in streams)
  BY <1>1, <1>3, <1>4, AddsPlain
<1>5. CASE down # (t \in streams)
  BY <1>1, <1>3, <1>5, AddsPlain
<1> QED
  BY <1>4, <1>5

LEMMA KeySpeakPlain ==
  ASSUME ConfOK(conf), KeySpeak, keyPc[1].term \in Terminals, keyPc[1].down \in BOOLEAN
  PROVE  Plain
<1>1. PICK r \in KeySpeakEffect(conf, keyPc[1].term, keyPc[1].down) : Becomes(r)
  BY DEF KeySpeak
<1>2. Goes(conf, r, StepK)
  BY <1>1, KeyGoes, StepKFacts
<1> QED
  BY <1>1, <1>2, GoesPlain

LEMMA ServePlain ==
  ASSUME ConfOK(conf), NEW p \in Priors, ServeFirstSpeak(p)
  PROVE  Plain
<1> DEFINE q == conf.fSpkQueue[p]
           d == [conf EXCEPT !.fSpkQueue[p] = Tail(@)]
           r == RequestManager(d, "CONNECTOR", Head(q).term, p, Head(q).permissions)
<1>1. q # <<>> /\ (Becomes(d) \/ Becomes(r))
  BY DEF ServeFirstSpeak
<1>2. Adds(conf, d, StepK) /\ Adds(conf, r, StepK)
  BY <1>1, FirstTakenAdds, FirstServedAdds
<1> HIDE DEF d, r
<1> QED
  BY <1>1, <1>2, AddsPlain

LEMMA ExaminePlain ==
  ASSUME ConfOK(conf), RefuseApply \/ NextApply \/ ApproveApply
  PROVE  Plain
<1>1. CASE RefuseApply
  <2> DEFINE t == CurrentApplicant(conf)
             r == NextAfterTime(SetMic(DeleteApplicant(conf, t), t, "CLOSE"), MaxApply)
  <2>1. Places(conf.apply_addr_list, conf.apply_num, t) # {} /\ Becomes(r)
    BY <1>1 DEF RefuseApply, Examine
  <2>2. Goes(conf, r, StepK)
    BY <2>1, RefuseGoes, StepKFacts
  <2> QED
    BY <2>1, <2>2, GoesPlain
<1>2. CASE NextApply
  <2> DEFINE waits == SetMic(conf, CurrentApplicant(conf), "OTHER_APPLY")
             next == Wrapped([waits EXCEPT !.currect_first_index = @ + 1])
             r == SetMicAfterTime(next, CurrentApplicant(next), "FIRST_APPLY")
  <2>1. conf.apply_num > 1 /\ CurrentApplicant(conf) # NoAddr /\ Becomes(r)
    BY <1>2 DEF NextApply, Examine
  <2>2. Goes(conf, r, StepK)
    BY <2>1, NextApplicantGoes, StepKFacts
  <2> QED
    BY <2>1, <2>2, GoesPlain
<1>3. CASE ApproveApply
  <2> DEFINE r == FirstSpkRequest(conf, CurrentApplicant(conf), 2, {"COMMON_SPK", "APPLY_CB"})
  <2>1. conf.currect_first_index < conf.apply_num /\ Becomes(r)
    BY <1>3 DEF ApproveApply, Command
  <2>2. Adds(conf, r, StepK)
    BY <2>1, ApproveAdds, StepKFacts
  <2> QED
    BY <2>1, <2>2, AddsPlain
<1> QED
  BY <1>1, <1>2, <1>3

LEMMA SelectPlain ==
  ASSUME ConfOK(conf), NEW t \in Terminals, SelectApply(t)
  PROVE  Plain
<1> DEFINE waits == SetMic(conf, CurrentApplicant(conf), "OTHER_APPLY")
           r == IF Places(conf.apply_addr_list, conf.apply_num, t) # {}
                THEN SetMic(waits, t, "FIRST_APPLY") ELSE waits
<1>1. CurrentApplicant(conf) # NoAddr /\ Becomes(r)
  BY DEF SelectApply, Examine
<1>2. Adds(conf, r, StepK)
  BY <1>1, SelectAdds, StepKFacts
<1> QED
  BY <1>1, <1>2, AddsPlain

LEMMA SetLimitPlain ==
  ASSUME ConfOK(conf), NEW n \in Limits, SetSpeakLimit(n)
  PROVE  Plain
<1> DEFINE num == conf.apply_num
           first == IF conf.currect_first_index < num
                    THEN conf.currect_first_index ELSE 0
           asked == {i \in 0 .. (num - 1) : conf.apply_addr_list[i] \notin streams}
           room == FsQueueSize[2] - 1 - Len(conf.fSpkQueue[2])
           opened(order) == [AskApplicants(conf, order) EXCEPT !.limit_num = n]
<1>1. \/ num > 0 /\ \E order \in SeqOf(asked, Min({room, num})) :
                       InTurn(order, asked, first, num, room) /\ Becomes(opened(order))
      \/ Becomes([conf EXCEPT !.limit_num = n])
  BY DEF SetSpeakLimit, Command
<1>2. CASE num > 0 /\ \E order \in SeqOf(asked, Min({room, num})) :
                         InTurn(order, asked, first, num, room) /\ Becomes(opened(order))
  <2>1. PICK order \in SeqOf(asked, Min({room, num})) :
                InTurn(order, asked, first, num, room) /\ Becomes(opened(order))
    BY <1>2
  <2> HIDE DEF first
  <2>2. Steps(conf, opened(order), StepK) /\ Remembered(conf, opened(order))
    BY <1>2, <2>1, AskSteps, StepKFacts
  <2> QED
    BY <2>1, <2>2 DEF Plain, Becomes
<1>3. CASE Becomes([conf EXCEPT !.limit_num = n])
  BY <1>3, LimitSteps DEF Plain, Becomes
<1> QED
  BY <1>1, <1>2, <1>3

LEMMA MicSetAfterPlain ==
  ASSUME ConfOK(conf), MicSetAfter
  PROVE  Plain
<1> DEFINE r == [conf EXCEPT !.micSetPro = FALSE]
<1>1. Becomes(r)
  BY DEF MicSetAfter
<1>2. conf \in Conf
  BY DEF ConfOK
<1>3. /\ r \in Conf /\ Kept(conf, r) /\ r.mic_state = conf.mic_state
      /\ r.currect_first_index = conf.currect_first_index
  BY <1>2 DEF Conf, Kept, SameMode, SameSpeakers, SameList, SameQueues
<1> HIDE DEF r
<1>4. ConfOK(r) /\ Moves(conf, r, StepK)
  BY <1>2, <1>3, FrameOK, MovesByMic DEF Kept, Shown
<1> QED
  BY <1>1, <1>3, <1>4, AddsFrame, AddsPlain DEF Kept

LEMMA SetModePlain ==
  ASSUME ConfOK(conf), streams \subseteq Terminals, NEW m \in Modes, SetDiscussMode(m)
  PROVE  Plain
<1> DEFINE S(p) == {t \in Terminals : PriorOf[t] = p}
           connected(p) == {t \in streams : PriorOf[t] = p}
           x(a, b, c) == <<a, b, c>>
<1>1. PICK a \in SetToSeqs(connected(0)), b \in SetToSeqs(connected(1)),
           c \in SetToSeqs(connected(2)) : Becomes(ModeSet(conf, m, x(a, b, c)))
  BY DEF SetDiscussMode, Command
<1>2. ASSUME NEW p \in Priors, NEW y \in SetToSeqs(connected(p))
      PROVE  y \in Seq(S(p))
  <2> DEFINE T == connected(p)
  <2>1. T \subseteq Terminals /\ IsFiniteSet(Terminals) /\ T \subseteq S(p)
    BY DiscussionAssumption DEF DiscussionAssumption
  <2> HIDE DEF T
  <2>2. Cardinality(T) \in Nat
    BY <2>1, FS_Subset, FS_CardinalityType
  <2>3. y \in [1 .. Cardinality(T) -> T]
    BY <1>2 DEF SetToSeqs, T
  <2>4. y \in Seq(T)
    BY <2>2, <2>3
  <2> QED
    BY <2>1, <2>4
<1>3. a \in Seq(S(0)) /\ b \in Seq(S(1)) /\ c \in Seq(S(2))
  BY <1>2 DEF Priors
<1>4. x(a, b, c)[0 + 1] = a /\ x(a, b, c)[1 + 1] = b /\ x(a, b, c)[2 + 1] = c
  OBVIOUS
<1>5. \A p \in Priors : x(a, b, c)[p + 1] \in Seq(S(p))
  <2> HIDE DEF x, S
  <2>1. \A p \in Priors : p = 0 \/ p = 1 \/ p = 2
    BY DEF Priors
  <2> QED
    BY <1>3, <1>4, <2>1
<1> HIDE DEF x
<1>6. LET r == ModeSet(conf, m, x(a, b, c))
      IN Steps(conf, r, StepK) /\ r.currect_first_index = MaxApply
  BY <1>5, ModeSteps
<1> QED
  BY <1>1, <1>6 DEF Plain, Becomes

-----------------------------------------------------------------------------
(* What the steps keep of the requests *)

LEMMA OpeningFacts ==
  ASSUME NEW s, ConfOK(s), NEW t \in Terminals
  PROVE  /\ BeingOpened(s, t) \in Nat /\ Openings(s, t) \in Nat
         /\ BeingOpened(s, t) > 0 <=> First(s, t) \/ Asked(s, "CONNECTOR", t)
         /\ First(s, t) /\ Asked(s, "CONNECTOR", t) => Openings(s, t) > 1
<1> DEFINE f == Queued(s.fSpkQueue[PriorOf[t]], t)
           c == Queued(s.reqQueues["CONNECTOR"][PriorOf[t]], t)
           a == Places(s.speak_addr_list, s.speak_limit_num, t)
           v == Places(s.vipSpeakList, s.vipSpkNum, t)
<1>1. /\ PriorOf[t] \in Priors /\ "CONNECTOR" \in Managers
      /\ s.speak_limit_num \in Nat /\ s.vipSpkNum \in Nat
  BY DiscussionAssumption DEF DiscussionAssumption, Managers, ConfOK, Conf, Slots
<1>2. /\ s.fSpkQueue[PriorOf[t]] \in Seq(Of(PriorOf[t]))
      /\ s.reqQueues["CONNECTOR"][PriorOf[t]] \in Seq(Of(PriorOf[t]))
  BY <1>1 DEF ConfOK, QueuesOK
<1>3. ASSUME NEW q \in Seq(Of(PriorOf[t]))
      PROVE  IsFiniteSet(Queued(q, t))
  <2>1. Len(q) \in Nat /\ DOMAIN q = 1 .. Len(q)
    BY <1>1, OfFacts
  <2>2. Queued(q, t) \subseteq 1 .. Len(q)
    BY <2>1 DEF Queued
  <2>3. 1 \in Int /\ Len(q) \in Int
    BY <2>1
  <2>4. IsFiniteSet(1 .. Len(q))
    BY <2>3, FS_Interval
  <2> QED
    BY <2>2, <2>4, FS_Subset
<1>4. ASSUME NEW l, NEW n \in Nat
      PROVE  IsFiniteSet(Places(l, n, t))
  <2>1. Places(l, n, t) \subseteq 0 .. (n - 1)
    BY DEF Places
  <2>2. 0 \in Int /\ n - 1 \in Int
    OBVIOUS
  <2> QED
    BY <2>1, <2>2, FS_Interval, FS_Subset
<1>5. IsFiniteSet(f) /\ IsFiniteSet(c) /\ IsFiniteSet(a) /\ IsFiniteSet(v)
  BY <1>1, <1>2, <1>3, <1>4
<1> HIDE DEF f, c, a, v
<1>6. /\ Cardinality(f) \in Nat /\ Cardinality(c) \in Nat
      /\ Cardinality(a) \in Nat /\ Cardinality(v) \in Nat
      /\ (Cardinality(f) = 0 <=> f = {}) /\ (Cardinality(c) = 0 <=> c = {})
  BY <1>5, FS_CardinalityType, FS_EmptySet
<1>7. /\ BeingOpened(s, t) = Cardinality(f) + Cardinality(c)
      /\ Openings(s, t) = BeingOpened(s, t) + Cardinality(a) + Cardinality(v)
      /\ First(s, t) <=> f # {}
      /\ Asked(s, "CONNECTOR", t) <=> c # {}
  BY DEF BeingOpened, Openings, First, Asked, f, c, a, v
<1> QED
  BY <1>6, <1>7

(* The places of a terminal count among the times it was opened. *)
LEMMA PlacesFacts ==
  ASSUME NEW s, ConfOK(s), NEW t \in Terminals
  PROVE  LET n == Cardinality(Places(s.speak_addr_list, s.speak_limit_num, t))
         IN /\ n \in Nat /\ n <= Openings(s, t)
            /\ Listed(s, t) <=> n # 0
<1> DEFINE at == Places(s.speak_addr_list, s.speak_limit_num, t)
           vip == Places(s.vipSpeakList, s.vipSpkNum, t)
<1>1. s.speak_limit_num \in Nat /\ s.vipSpkNum \in Nat
  BY DiscussionAssumption DEF DiscussionAssumption, ConfOK, Conf, Slots
<1>2. IsFiniteSet(at) /\ IsFiniteSet(vip)
  <2> DEFINE a == s.speak_limit_num - 1
             b == s.vipSpkNum - 1
  <2>1. at \subseteq 0 .. a /\ vip \subseteq 0 .. b
    BY DEF Places
  <2>2. 0 \in Int /\ a \in Int /\ b \in Int
    BY <1>1
  <2> HIDE DEF at, vip, a, b
  <2> QED
    BY <2>1, <2>2, FS_Interval, FS_Subset
<1>3. Listed(s, t) <=> at # {}
  BY DEF Listed
<1>4. BeingOpened(s, t) \in Nat
  BY OpeningFacts
<1>5. Openings(s, t) = BeingOpened(s, t) + Cardinality(at) + Cardinality(vip)
  BY DEF Openings
<1> HIDE DEF at, vip
<1>6. Cardinality(at) \in Nat /\ Cardinality(vip) \in Nat /\ (Cardinality(at) = 0 <=> at = {})
  BY <1>2, FS_CardinalityType, FS_EmptySet
<1>7. Cardinality(at) \in Nat /\ Cardinality(at) <= Openings(s, t) /\ (Listed(s, t) <=> Cardinality(at) # 0)
  BY <1>3, <1>4, <1>5, <1>6
<1> QED
  BY <1>7 DEF at

LEMMA ExtendsFacts ==
  ASSUME NEW s, ConfOK(s), NEW r, ConfOK(r), Extends(s, r), NEW g \in Managers
  PROVE  /\ \A t \in Terminals : Asked(s, g, t) => Asked(r, g, t)
         /\ \A p \in Priors : s.reqQueues[g][p] # <<>> =>
               /\ r.reqQueues[g][p] # <<>>
               /\ Head(r.reqQueues[g][p]).term = Head(s.reqQueues[g][p]).term
<1>1. ASSUME NEW p \in Priors
      PROVE  /\ \A t : Queued(s.reqQueues[g][p], t) # {} => Queued(r.reqQueues[g][p], t) # {}
             /\ s.reqQueues[g][p] # <<>> =>
                   /\ r.reqQueues[g][p] # <<>>
                   /\ Head(r.reqQueues[g][p]).term = Head(s.reqQueues[g][p]).term
  <2> DEFINE a == s.reqQueues[g][p]
             b == r.reqQueues[g][p]
  <2>1. a \in Seq(Of(p)) /\ b \in Seq(Of(p))
    BY DEF ConfOK, QueuesOK
  <2>2. /\ Len(a) <= Len(b)
        /\ \A i \in 1 .. Len(a) : b[i].term = a[i].term
    BY DEF Extends
  <2> HIDE DEF a, b
  <2>3. Len(a) \in Nat /\ Len(b) \in Nat
    BY <2>1, OfFacts
  <2>4. \A i \in 1 .. Len(a) : i \in 1 .. Len(b)
    BY <2>2, <2>3
  <2>5. \A t : Queued(a, t) # {} => Queued(b, t) # {}
    <3>1. \A t : Queued(a, t) # {} <=> \E i \in 1 .. Len(a) : a[i].term = t
      BY <2>1, OfFacts
    <3>2. \A t : Queued(b, t) # {} <=> \E i \in 1 .. Len(b) : b[i].term = t
      BY <2>1, OfFacts
    <3> QED
      BY <2>2, <2>4, <3>1, <3>2
  <2>6. a # <<>> => b # <<>> /\ Head(b).term = Head(a).term
    <3> SUFFICES ASSUME a # <<>> PROVE b # <<>> /\ Head(b).term = Head(a).term
      OBVIOUS
    <3>1. Len(a) # 0
      BY <2>1, EmptySeq
    <3>2. 1 \in 1 .. Len(a) /\ Len(b) # 0
      BY <2>2, <2>3, <3>1
    <3>3. b # <<>>
      BY <2>1, <3>2, EmptySeq
    <3>4. Head(a) = a[1] /\ Head(b) = b[1]
      BY <2>1, <3>3, TailFacts
    <3> QED
      BY <2>2, <3>2, <3>3, <3>4
  <2> QED
    BY <2>5, <2>6 DEF a, b
<1>2. \A t \in Terminals : PriorOf[t] \in Priors
  BY DiscussionAssumption DEF DiscussionAssumption
<1> QED
  BY <1>1, <1>2 DEF Asked

(* A machine at work serves a terminal that has a request to it. *)
LEMMA ServedFacts ==
  ASSUME VarsOK, ConfOK(conf), Working, NEW g \in Managers, machine[g] # <<>>
  PROVE  /\ machine[g][1] \in Priors
         /\ conf.reqQueues[g][machine[g][1]] # <<>>
         /\ Head(conf.reqQueues[g][machine[g][1]]) \in Of(machine[g][1])
         /\ Served(g) \in Terminals /\ PriorOf[Served(g)] = machine[g][1]
         /\ Asked(conf, g, Served(g))
<1> DEFINE p == machine[g][1]
           q == conf.reqQueues[g][p]
<1>1. p \in Priors
  BY DEF VarsOK
<1>2. q # <<>> /\ q \in Seq(Of(p))
  BY <1>1 DEF Working, ConfOK, QueuesOK
<1> HIDE DEF q
<1>3. Head(q) \in Of(p) /\ Queued(q, Head(q).term) # {}
  BY <1>1, <1>2, TailFacts
<1>4. Head(q).term \in Terminals /\ PriorOf[Head(q).term] = p
  BY <1>3 DEF Of, Elements
<1> QED
  BY <1>1, <1>2, <1>3, <1>4 DEF Served, Asked, q

-----------------------------------------------------------------------------
(* The invariant *)

LEMMA InitMicInv == Init => MicInv
<1> SUFFICES ASSUME Init PROVE MicInv
  OBVIOUS
<1>1. /\ machine = [g \in Managers |-> <<>>] /\ acmpQueue = <<>>
      /\ streams = {} /\ direct = {} /\ keyPc = <<>>
      /\ ops = 0 /\ errors = 0 /\ past = FALSE /\ overlap = {}
  BY DEF Init
<1>2. PICK m \in Modes, n \in Limits :
          conf = [edis_mode |-> m, limit_num |-> n,
                  speak_addr_list |-> [i \in Slots |-> NoAddr],
                  speak_limit_num |-> 0,
                  vipSpeakList |-> [i \in Slots |-> NoAddr],
                  vipSpkNum |-> 0,
                  apply_addr_list |-> [i \in ApplySlots |-> NoAddr],
                  apply_num |-> 0, currect_first_index |-> ApplyLimit,
                  mic_state |-> [t \in Terminals |-> "CLOSE"],
                  micSetPro |-> FALSE,
                  fSpkQueue |-> [p \in Priors |-> <<>>],
                  reqQueues |-> [g \in Managers |-> [p \in Priors |-> <<>>]]]
  BY DEF Init
<1>3. /\ MaxSpk \in Nat \ {0} /\ MaxApply \in Nat \ {0} /\ ApplyLimit \in 1 .. MaxApply
      /\ FsQueueSize \in [Priors -> Nat \ {0, 1}] /\ MaxOps \in Nat /\ MaxErrors \in Nat
      /\ PriorOf \in [Terminals -> Priors]
  BY DiscussionAssumption DEF DiscussionAssumption
<1>4. VarsOK
  <2>1. acmpQueue \in Seq([mgr : Managers, ok : BOOLEAN])
    BY <1>1, EmptySeq
  <2>2. machine \in [Managers -> {<<>>} \cup {<<p, st>> : p \in Priors,
                                                 st \in {"WAIT", "FAILED"}}]
    BY <1>1
  <2>3. ops \in 0 .. MaxOps /\ errors \in 0 .. MaxErrors
    BY <1>1, <1>3
  <2>4. keyPc \in {<<>>} \cup {<<[term |-> t, down |-> b]>> :
                                   t \in Terminals, b \in BOOLEAN}
    BY <1>1
  <2>5. streams \subseteq Terminals /\ direct \subseteq Terminals
        /\ past \in BOOLEAN /\ overlap \subseteq Terminals
    BY <1>1
  <2> QED
    BY <2>1, <2>2, <2>3, <2>4, <2>5 DEF VarsOK
<1>5. /\ \A p \in Priors : conf.fSpkQueue[p] = <<>>
      /\ \A g \in Managers, p \in Priors : conf.reqQueues[g][p] = <<>>
      /\ \A t \in Terminals : conf.mic_state[t] = "CLOSE"
      /\ conf.apply_num = 0 /\ conf.currect_first_index = ApplyLimit
      /\ \A i \in ApplySlots : conf.apply_addr_list[i] = NoAddr
      /\ conf.speak_limit_num = 0 /\ conf.vipSpkNum = 0
  BY <1>2
<1>6. conf \in Conf
  <2>1. 0 \in Slots /\ 0 \in 0 .. ApplyLimit /\ ApplyLimit \in 0 .. MaxApply
        /\ "CLOSE" \in MicStates
    BY <1>3 DEF Slots, MicStates
  <2> QED
    BY <1>2, <2>1 DEF Conf
<1>7. QueuesOK(conf)
  <2>1. \A p \in Priors : 0 < FsQueueSize[p]
    BY <1>3
  <2>2. \A p \in Priors : <<>> \in Seq(Of(p)) /\ Len(<<>>) = 0
    BY EmptySeq
  <2> QED
    BY <1>5, <2>1, <2>2 DEF QueuesOK
<1>8. ApplicantsOK(conf) /\ InList(conf)
  BY <1>3, <1>5 DEF ApplicantsOK, CurrentApplicant, ApplicantAt, ApplySlots, InList
<1>9. ConfOK(conf)
  BY <1>6, <1>7, <1>8 DEF ConfOK
<1>10. Working /\ EventsTrue
  BY <1>1 DEF Working, EventsTrue
<1>11. Opened
  <2> SUFFICES ASSUME NEW t \in Terminals
               PROVE  Openings(conf, t) <= 1 /\ ~First(conf, t) /\ ~Listed(conf, t)
    BY <1>1, <1>5 DEF Opened, MicOK, ListOK
  <2>1. PriorOf[t] \in Priors /\ "CONNECTOR" \in Managers
    BY <1>3 DEF Managers
  <2>2. /\ Queued(conf.fSpkQueue[PriorOf[t]], t) = {}
        /\ Queued(conf.reqQueues["CONNECTOR"][PriorOf[t]], t) = {}
    BY <1>5, <2>1 DEF Queued
  <2>3. /\ Places(conf.speak_addr_list, conf.speak_limit_num, t) = {}
        /\ Places(conf.vipSpeakList, conf.vipSpkNum, t) = {}
    BY <1>5 DEF Places
  <2>4. Cardinality({}) = 0
    BY FS_EmptySet
  <2> QED
    BY <2>2, <2>3, <2>4 DEF Openings, BeingOpened, First, Listed
<1> QED
  BY <1>4, <1>8, <1>9, <1>10, <1>11 DEF MicInv

(* Every event is to a machine that waits for it. *)
LEMMA EventFacts ==
  ASSUME VarsOK
  PROVE  /\ Len(acmpQueue) \in Nat /\ DOMAIN acmpQueue = 1 .. Len(acmpQueue)
         /\ \A i \in DOMAIN acmpQueue :
               acmpQueue[i].mgr \in Managers /\ acmpQueue[i].ok \in BOOLEAN
         /\ Working /\ ~past => \A i \in DOMAIN acmpQueue :
               /\ machine[acmpQueue[i].mgr] # <<>>
               /\ machine[acmpQueue[i].mgr][2] = "WAIT"
<1>1. acmpQueue \in Seq([mgr : Managers, ok : BOOLEAN])
  BY DEF VarsOK
<1>2. /\ Len(acmpQueue) \in Nat /\ DOMAIN acmpQueue = 1 .. Len(acmpQueue)
      /\ \A i \in DOMAIN acmpQueue : acmpQueue[i] \in [mgr : Managers, ok : BOOLEAN]
  BY <1>1, ElementOfSeq, LenProperties
<1>3. ASSUME Working, ~past, NEW i \in DOMAIN acmpQueue
      PROVE  machine[acmpQueue[i].mgr] # <<>> /\ machine[acmpQueue[i].mgr][2] = "WAIT"
  <2>1. PICK p \in Priors : machine[acmpQueue[i].mgr] = <<p, "WAIT">>
    BY <1>3 DEF Working
  <2> QED
    BY <2>1
<1> QED
  BY <1>2, <1>3

(* The requests at work stay where they are. *)
LEMMA WorkingKept ==
  ASSUME MicInv, Steps(conf, conf', StepK), UNCHANGED <<machine, acmpQueue, streams>>,
         past' = past, direct' = direct
  PROVE  Working' /\ EventsTrue'
<1>1. /\ ConfOK(conf) /\ ConfOK(conf') /\ Extends(conf, conf') /\ VarsOK
      /\ Working /\ EventsTrue
  BY DEF MicInv, Steps, Moves
<1>2. \A g \in Managers : machine[g] # <<>> =>
          conf'.reqQueues[g][machine[g][1]] # <<>> /\ Served(g)' = Served(g)
  <2> SUFFICES ASSUME NEW g \in Managers, machine[g] # <<>>
               PROVE  conf'.reqQueues[g][machine[g][1]] # <<>> /\ Served(g)' = Served(g)
    OBVIOUS
  <2>1. machine[g][1] \in Priors /\ conf.reqQueues[g][machine[g][1]] # <<>>
    BY <1>1, ServedFacts
  <2> DEFINE p == machine[g][1]
             a == conf.reqQueues[g][p]
             b == conf'.reqQueues[g][p]
  <2>2. Served(g) = Head(a).term /\ Served(g)' = Head(b).term
    BY DEF Served
  <2> HIDE DEF p
  <2>3. p \in Priors /\ a # <<>>
    BY <2>1 DEF p
  <2>4. \A o \in Priors : conf.reqQueues[g][o] # <<>> =>
           /\ conf'.reqQueues[g][o] # <<>>
           /\ Head(conf'.reqQueues[g][o]).term = Head(conf.reqQueues[g][o]).term
    BY <1>1, ExtendsFacts
  <2>5. b # <<>> /\ Head(b).term = Head(a).term
    BY <2>3, <2>4
  <2> HIDE DEF a, b
  <2>6. b # <<>> /\ Served(g)' = Served(g)
    BY <2>2, <2>5
  <2> QED
    BY <2>6 DEF b, p
<1>3. Working'
  BY <1>1, <1>2 DEF Working
<1>4. EventsTrue'
  <2> SUFFICES ASSUME ~past, past' = past, NEW i \in DOMAIN acmpQueue, acmpQueue[i].ok
               PROVE  \/ Done(acmpQueue[i].mgr, Served(acmpQueue[i].mgr))'
                      \/ \E j \in DOMAIN acmpQueue :
                            /\ j > i /\ acmpQueue[j].ok
                            /\ acmpQueue[j].mgr # acmpQueue[i].mgr
                            /\ Served(acmpQueue[j].mgr)' = Served(acmpQueue[i].mgr)'
    BY DEF EventsTrue, VarsOK
  <2> DEFINE g == acmpQueue[i].mgr
  <2>1. \A j \in DOMAIN acmpQueue : acmpQueue[j].mgr \in Managers /\ machine[acmpQueue[j].mgr] # <<>>
    BY <1>1, EventFacts
  <2>2. \A j \in DOMAIN acmpQueue : Served(acmpQueue[j].mgr)' = Served(acmpQueue[j].mgr)
    BY <1>2, <2>1
  <2>3. \/ Done(g, Served(g))
        \/ \E j \in DOMAIN acmpQueue :
              /\ j > i /\ acmpQueue[j].ok /\ acmpQueue[j].mgr # g
              /\ Served(acmpQueue[j].mgr) = Served(g)
    BY <1>1 DEF EventsTrue
  <2> QED
    BY <2>2, <2>3 DEF Done
<1> QED
  BY <1>3, <1>4

(* What the history variable tells of a terminal it does not hold. *)
LEMMA BecomesFacts ==
  ASSUME ConfOK(conf'), Becomes(conf'), NEW t \in Terminals, t \notin overlap'
  PROVE  /\ t \notin overlap
         /\ Openings(conf', t) <= 1
         /\ t \in Applicants(conf') \cap streams => BeingOpened(conf', t) > 0
         /\ ~(First(conf', t) /\ Asked(conf', "CONNECTOR", t))
<1>1. /\ t \notin overlap /\ ~(Openings(conf', t) > 1)
      /\ ~(t \in Applicants(conf') \cap streams /\ BeingOpened(conf', t) = 0)
  BY DEF Becomes
<1>2. /\ BeingOpened(conf', t) \in Nat /\ Openings(conf', t) \in Nat
      /\ First(conf', t) /\ Asked(conf', "CONNECTOR", t) => Openings(conf', t) > 1
  BY OpeningFacts
<1> QED
  BY <1>1, <1>2

LEMMA OpenedKept ==
  ASSUME MicInv, Becomes(conf'), Steps(conf, conf', StepK), streams' = streams, past' = past
  PROVE  Opened'
<1> SUFFICES ASSUME ~past, NEW t \in Terminals PROVE MicOK(t)' /\ ListOK(t)'
  BY DEF Opened
<1>1. /\ ConfOK(conf) /\ ConfOK(conf') /\ MicOK(t) /\ ListOK(t)
      /\ Extends(conf, conf') /\ Shown(conf, conf', StepK) /\ FirstOnly(conf, conf', StepK)
      /\ Listing(conf, conf', StepK)
  BY DEF MicInv, Steps, Moves, Opened
<1>2. "CONNECTOR" \in Managers /\ "DISCONNECTOR" \in Managers
  BY DEF Managers
<1>3. \A g \in Managers : Asked(conf, g, t) => Asked(conf', g, t)
  BY <1>1, ExtendsFacts
<1>4. \/ conf'.mic_state[t] = conf.mic_state[t]
      \/ conf'.mic_state[t] = "OPEN" /\ t \in streams
      \/ conf'.mic_state[t] # "OPEN" /\ (t \notin streams \/ t \in Applicants(conf))
  BY <1>1 DEF Shown, StepK
<1>5. First(conf', t) => First(conf, t) \/ t \notin streams \/ t \in Applicants(conf)
  BY <1>1 DEF FirstOnly, StepK
<1>6. conf'.mic_state[t] = "OPEN" => t \in streams \/ Asked(conf', "DISCONNECTOR", t)
  BY <1>1, <1>2, <1>3, <1>4 DEF MicOK
<1>7. ASSUME t \notin overlap'
      PROVE  /\ t \in streams /\ conf'.mic_state[t] # "OPEN" => Asked(conf', "CONNECTOR", t)
             /\ First(conf', t) => t \notin streams
             /\ t \in Applicants(conf') \cap streams => BeingOpened(conf', t) > 0
             /\ Openings(conf', t) <= 1
  <2>1. /\ t \notin overlap /\ Openings(conf', t) <= 1
        /\ t \in Applicants(conf') \cap streams => BeingOpened(conf', t) > 0
        /\ ~(First(conf', t) /\ Asked(conf', "CONNECTOR", t))
    BY <1>1, <1>7, BecomesFacts
  <2>2. t \in Applicants(conf) \cap streams => Asked(conf', "CONNECTOR", t)
    <3>1. BeingOpened(conf, t) > 0 <=> First(conf, t) \/ Asked(conf, "CONNECTOR", t)
      BY <1>1, OpeningFacts
    <3> QED
      BY <1>1, <1>2, <1>3, <2>1, <3>1 DEF MicOK
  <2>3. t \in streams /\ conf'.mic_state[t] # "OPEN" => Asked(conf', "CONNECTOR", t)
    BY <1>1, <1>2, <1>3, <1>4, <2>1, <2>2 DEF MicOK
  <2>4. First(conf', t) => t \notin streams
    BY <1>1, <1>5, <2>1, <2>2 DEF MicOK
  <2> QED
    BY <2>1, <2>3, <2>4
<1>8. (Applicants(conf))' = Applicants(conf') /\ (First(conf, t))' = First(conf', t)
      /\ (Openings(conf, t))' = Openings(conf', t)
      /\ (BeingOpened(conf, t))' = BeingOpened(conf', t)
      /\ \A g \in Managers : (Asked(conf, g, t))' = Asked(conf', g, t)
      /\ (Listed(conf, t))' = Listed(conf', t) /\ WasFull(conf)' = WasFull(conf')
  OBVIOUS
<1>9. ASSUME t \in Common \ overlap', ~WasFull(conf')
      PROVE  /\ t \in streams => Listed(conf', t) \/ Asked(conf', "CONNECTOR", t)
             /\ Listed(conf', t) => t \in streams \/ Asked(conf', "DISCONNECTOR", t)
  <2>1. /\ t \notin overlap /\ ~WasFull(conf)
        /\ t \in streams => Listed(conf, t) \/ Asked(conf, "CONNECTOR", t)
        /\ Listed(conf, t) => t \in streams \/ Asked(conf, "DISCONNECTOR", t)
        /\ ~(First(conf', t) /\ Asked(conf', "CONNECTOR", t))
    BY <1>1, <1>9, BecomesFacts DEF Listing, ListOK
  <2>2. t \in Applicants(conf) \cap streams => Asked(conf, "CONNECTOR", t)
    <3>1. BeingOpened(conf, t) > 0 <=> First(conf, t) \/ Asked(conf, "CONNECTOR", t)
      BY <1>1, OpeningFacts
    <3> QED
      BY <1>1, <2>1, <3>1 DEF MicOK
  <2>3. \/ Listed(conf', t) <=> Listed(conf, t)
        \/ Listed(conf', t) /\ t \in streams
        \/ ~Listed(conf', t) /\ (t \notin streams \/ t \in Applicants(conf))
    BY <1>1, <1>9 DEF Listing, StepK
  <2> QED
    BY <1>2, <1>3, <2>1, <2>2, <2>3
<1>10. MicOK(t)'
  BY <1>2, <1>6, <1>7, <1>8 DEF MicOK
<1>11. ListOK(t)'
  BY <1>2, <1>8, <1>9 DEF ListOK
<1> QED
  BY <1>10, <1>11

(* A step that ends no request and sends none keeps the invariant. *)
LEMMA PlainMicInv ==
  ASSUME MicInv, Plain, VarsOK', UNCHANGED others
  PROVE  MicInv'
<1>1. UNCHANGED <<machine, acmpQueue, streams>> /\ past' = past /\ direct' = direct
  BY DEF others
<1>2. Working' /\ EventsTrue'
  BY <1>1, WorkingKept DEF Plain
<1>3. Opened'
  BY <1>1, OpenedKept DEF Plain
<1>4. ConfOK(conf') /\ InList(conf')
  BY DEF Plain, Steps, MicInv
<1> QED
  BY <1>2, <1>3, <1>4 DEF MicInv

LEMMA BecomesTerminals ==
  ASSUME VarsOK, NEW r, Becomes(r)
  PROVE  overlap' \subseteq Terminals
BY DEF VarsOK, Becomes

LEMMA PlainStep ==
  ASSUME MicInv,
         \/ \E t \in Terminals, down \in BOOLEAN : KeyOfBusy(t, down)
         \/ KeySpeak
         \/ \E p \in Priors : ServeFirstSpeak(p)
         \/ RefuseApply \/ NextApply \/ ApproveApply
         \/ \E t \in Terminals : SelectApply(t)
         \/ \E m \in Modes : SetDiscussMode(m)
         \/ \E n \in Limits : SetSpeakLimit(n)
         \/ MicSetAfter
  PROVE  MicInv' /\ Plain
<1>1. ConfOK(conf) /\ VarsOK /\ streams \subseteq Terminals
  BY DEF MicInv, VarsOK
<1>2. \/ UNCHANGED <<others, keyPc>> /\ Operation
      \/ UNCHANGED <<others, ops>> /\ keyPc' = <<>>
      \/ UNCHANGED <<others, keyPc, ops>>
  BY DEF KeyOfBusy, KeySpeak, ServeFirstSpeak, RefuseApply, NextApply, ApproveApply,
     SelectApply, SetDiscussMode, SetSpeakLimit, MicSetAfter, Examine, Command
<1>3. keyPc # <<>> => keyPc[1].term \in Terminals /\ keyPc[1].down \in BOOLEAN
  BY <1>1 DEF VarsOK
<1>4. Plain
  <2>1. KeySpeak => keyPc # <<>>
    BY DEF KeySpeak
  <2> QED
    BY <1>1, <1>3, <2>1, KeyOfBusyPlain, KeySpeakPlain, ServePlain, ExaminePlain,
       SelectPlain, SetModePlain, SetLimitPlain, MicSetAfterPlain
<1>5. VarsOK'
  <2>1. overlap' \subseteq Terminals
    BY <1>1, <1>4, BecomesTerminals DEF Plain
  <2>2. ops' \in 0 .. MaxOps
    <3>1. MaxOps \in Nat /\ ops \in 0 .. MaxOps
      BY <1>1, DiscussionAssumption DEF DiscussionAssumption, VarsOK
    <3> QED
      BY <1>2, <3>1 DEF Operation, others
  <2>3. /\ machine' = machine /\ acmpQueue' = acmpQueue /\ streams' = streams
        /\ direct' = direct /\ errors' = errors /\ past' = past
        /\ keyPc' = keyPc \/ keyPc' = <<>>
    BY <1>2 DEF others
  <2>4. keyPc' \in {<<>>} \cup {<<[term |-> t, down |-> b]>> :
                                   t \in Terminals, b \in BOOLEAN}
    BY <1>1, <2>3 DEF VarsOK
  <2> QED
    BY <1>1, <2>1, <2>2, <2>3, <2>4 DEF VarsOK
<1>6. UNCHANGED others
  BY <1>2
<1> QED
  BY <1>4, <1>5, <1>6, PlainMicInv

(* A step past conf that sends no command. *)
LEMMA SameMicInv ==
  ASSUME MicInv, VarsOK', UNCHANGED <<conf, overlap, machine, acmpQueue, streams, direct, past>>
  PROVE  MicInv'
<1>1. ConfOK(conf') /\ InList(conf')
  BY DEF MicInv
<1>2. Working'
  BY DEF MicInv, Working
<1>3. EventsTrue'
  BY DEF MicInv, EventsTrue, Served, Done
<1>4. Opened'
  BY DEF MicInv, Opened, MicOK, ListOK
<1> QED
  BY <1>1, <1>2, <1>3, <1>4 DEF MicInv

LEMMA IdleMicInv ==
  ASSUME MicInv, NEW t \in Terminals, NEW down \in BOOLEAN, KeyOfIdle(t, down)
  PROVE  MicInv'
<1>1. VarsOK /\ MaxOps \in Nat
  BY DiscussionAssumption DEF DiscussionAssumption, MicInv
<1>2. /\ UNCHANGED <<conf, overlap, machine, acmpQueue, streams, direct, past>>
      /\ errors' = errors /\ ops < MaxOps /\ ops' = ops + 1
      /\ keyPc' = <<[term |-> t, down |-> down]>>
  BY DEF KeyOfIdle, others, Operation
<1>3. ops' \in 0 .. MaxOps
  BY <1>1, <1>2 DEF VarsOK
<1>4. keyPc' \in {<<>>} \cup {<<[term |-> u, down |-> b]>> :
                                 u \in Terminals, b \in BOOLEAN}
  BY <1>2
<1>5. VarsOK'
  BY <1>1, <1>2, <1>3, <1>4 DEF VarsOK
<1> QED
  BY <1>2, <1>5, SameMicInv

LEMMA SendMicInv ==
  ASSUME MicInv, NEW g \in Managers, NEW p \in Priors, SendCommand(g, p)
  PROVE  MicInv'
<1>1. VarsOK /\ ConfOK(conf) /\ Working /\ EventsTrue /\ machine[g] \in {<<>>, <<p, "FAILED">>}
  BY DEF MicInv, SendCommand, Serves
<1>2. /\ UNCHANGED <<conf, overlap, acmpQueue, streams, direct, past>>
      /\ keyPc' = keyPc /\ errors' = errors /\ ops' = ops
      /\ machine' = [machine EXCEPT ![g] = <<p, "WAIT">>] /\ conf.reqQueues[g][p] # <<>>
  BY DEF SendCommand, Serves
<1>3. /\ machine' \in [Managers -> {<<>>} \cup {<<h, st>> : h \in Priors,
                                                   st \in {"WAIT", "FAILED"}}]
      /\ machine'[g] = <<p, "WAIT">>
      /\ \A d \in Managers : d # g => machine'[d] = machine[d]
  BY <1>1, <1>2 DEF VarsOK
<1>4. VarsOK'
  BY <1>1, <1>2, <1>3 DEF VarsOK
<1>5. ~past => \A i \in DOMAIN acmpQueue : acmpQueue[i].mgr # g /\ acmpQueue[i].mgr \in Managers
  <2>1. machine[g] # <<>> => machine[g][2] # "WAIT"
    BY <1>1
  <2> QED
    BY <1>1, <2>1, EventFacts
<1>6. Working'
  <2>1. \A d \in Managers : machine'[d] # <<>> => conf.reqQueues[d][machine'[d][1]] # <<>>
    BY <1>1, <1>2, <1>3 DEF Working
  <2>2. ~past => \A i \in DOMAIN acmpQueue : machine'[acmpQueue[i].mgr] = machine[acmpQueue[i].mgr]
    BY <1>3, <1>5
  <2> QED
    BY <1>1, <1>2, <2>1, <2>2 DEF Working
<1>7. EventsTrue'
  <2>1. ~past => \A i \in DOMAIN acmpQueue :
                     Served(acmpQueue[i].mgr)' = Served(acmpQueue[i].mgr)
    BY <1>2, <1>3, <1>5 DEF Served
  <2>2. \A d, t : Done(d, t)' = Done(d, t)
    BY <1>2 DEF Done
  <2> QED
    BY <1>1, <1>2, <2>1, <2>2 DEF EventsTrue, Done
<1>8. Opened' /\ ConfOK(conf') /\ InList(conf')
  BY <1>2 DEF MicInv, Opened, MicOK, ListOK
<1> QED
  BY <1>4, <1>6, <1>7, <1>8 DEF MicInv

LEMMA ConcludeMicInv ==
  ASSUME MicInv, NEW g \in Managers, NEW ok \in BOOLEAN, Conclude(g, ok)
  PROVE  MicInv'
<1> DEFINE t == Served(g)
           e == [mgr |-> g, ok |-> ok]
<1>1. VarsOK /\ ConfOK(conf) /\ Working /\ EventsTrue /\ Opened
  BY DEF MicInv
<1>2. /\ UNCHANGED <<conf, machine, direct, past, overlap, keyPc, ops>>
      /\ machine[g] # <<>> /\ machine[g][2] = "WAIT"
      /\ \A i \in DOMAIN acmpQueue : acmpQueue[i].mgr # g
      /\ ok \/ errors < MaxErrors
      /\ errors' = IF ok THEN errors ELSE errors + 1
      /\ acmpQueue' = Append(acmpQueue, e)
      /\ streams' = IF ~ok THEN streams
                    ELSE IF g = "CONNECTOR" THEN streams \cup {t} ELSE streams \ {t}
  BY DEF Conclude, InFlight, Served
<1>3. machine[g][1] \in Priors /\ t \in Terminals /\ Asked(conf, g, t)
  BY <1>1, <1>2, ServedFacts
<1>4. PICK p \in Priors : machine[g] = <<p, "WAIT">>
  BY <1>1, <1>2 DEF VarsOK
<1>5. PICK n : n = Len(acmpQueue) + 1
  OBVIOUS
<1>6. /\ n \in Nat /\ DOMAIN acmpQueue = 1 .. (n - 1)
      /\ \A i \in DOMAIN acmpQueue : acmpQueue[i].mgr \in Managers
      /\ acmpQueue' \in Seq([mgr : Managers, ok : BOOLEAN])
      /\ DOMAIN acmpQueue' = 1 .. n /\ acmpQueue'[n] = e
      /\ \A i \in 1 .. (n - 1) : acmpQueue'[i] = acmpQueue[i]
  <2>1. n = Len(acmpQueue) + 1
    BY <1>5
  <2>2. e \in [mgr : Managers, ok : BOOLEAN] /\ acmpQueue \in Seq([mgr : Managers, ok : BOOLEAN])
    BY <1>1 DEF VarsOK
  <2> HIDE DEF e
  <2>3. /\ Len(acmpQueue) \in Nat /\ DOMAIN acmpQueue = 1 .. Len(acmpQueue)
        /\ \A i \in DOMAIN acmpQueue : acmpQueue[i].mgr \in Managers
    BY <1>1, EventFacts
  <2>4. /\ acmpQueue' \in Seq([mgr : Managers, ok : BOOLEAN]) /\ Len(acmpQueue') = n
        /\ acmpQueue'[n] = e /\ \A i \in 1 .. Len(acmpQueue) : acmpQueue'[i] = acmpQueue[i]
    BY <1>2, <2>1, <2>2, AppendProperties
  <2>5. DOMAIN acmpQueue' = 1 .. n
    BY <2>4, LenProperties
  <2> QED
    BY <2>1, <2>3, <2>4, <2>5
<1>7. e.mgr = g /\ e.ok = ok
  OBVIOUS
<1> HIDE DEF e
<1>8. /\ (Served(acmpQueue[n].mgr))' = t
      /\ \A i \in 1 .. (n - 1) : (Served(acmpQueue[i].mgr))' = Served(acmpQueue[i].mgr)
  BY <1>2, <1>6, <1>7 DEF Served, t
<1> HIDE DEF t
<1>9. VarsOK'
  <2>1. errors' \in 0 .. MaxErrors
    <3>1. MaxErrors \in Nat /\ errors \in 0 .. MaxErrors
      BY <1>1, DiscussionAssumption DEF DiscussionAssumption, VarsOK
    <3> QED
      BY <1>2, <3>1
  <2>2. streams' \subseteq Terminals
    BY <1>1, <1>2, <1>3 DEF VarsOK
  <2> QED
    BY <1>1, <1>2, <1>6, <2>1, <2>2 DEF VarsOK
<1>10. \A i \in 1 .. n : i = n \/ (i \in 1 .. (n - 1) /\ acmpQueue'[i].mgr # g)
  BY <1>2, <1>6
<1>11. Working'
  <2>1. \A d \in Managers : machine[d] # <<>> => conf.reqQueues[d][machine[d][1]] # <<>>
    BY <1>1 DEF Working
  <2>2. ~past => \A i \in 1 .. n : \E h \in Priors : machine[acmpQueue'[i].mgr] = <<h, "WAIT">>
    <3> SUFFICES ASSUME ~past, NEW i \in 1 .. n
                 PROVE  \E h \in Priors : machine[acmpQueue'[i].mgr] = <<h, "WAIT">>
      OBVIOUS
    <3>1. CASE i = n
      BY <1>4, <1>6, <1>7, <3>1
    <3>2. CASE i # n
      <4>1. i \in DOMAIN acmpQueue /\ acmpQueue'[i] = acmpQueue[i]
        BY <1>6, <1>10, <3>2
      <4> QED
        BY <1>1, <4>1 DEF Working
    <3> QED
      BY <3>1, <3>2
  <2>3. ~past => \A i, j \in 1 .. n : acmpQueue'[i].mgr = acmpQueue'[j].mgr => i = j
    <3> SUFFICES ASSUME ~past, NEW i \in 1 .. n, NEW j \in 1 .. n,
                        acmpQueue'[i].mgr = acmpQueue'[j].mgr
                 PROVE  i = j
      OBVIOUS
    <3>1. CASE i = n \/ j = n
      BY <1>6, <1>7, <1>10, <3>1
    <3>2. CASE i # n /\ j # n
      <4>1. /\ i \in DOMAIN acmpQueue /\ acmpQueue'[i] = acmpQueue[i]
            /\ j \in DOMAIN acmpQueue /\ acmpQueue'[j] = acmpQueue[j]
        BY <1>6, <1>10, <3>2
      <4> QED
        BY <1>1, <4>1 DEF Working
    <3> QED
      BY <3>1, <3>2
  <2> QED
    BY <1>1, <1>2, <1>6, <2>1, <2>2, <2>3 DEF Working
<1>12. EventsTrue'
  <2> SUFFICES ASSUME ~past, NEW i \in 1 .. n, acmpQueue'[i].ok
               PROVE  \/ (Done(acmpQueue[i].mgr, Served(acmpQueue[i].mgr)))'
                      \/ \E j \in 1 .. n :
                            /\ j > i /\ acmpQueue'[j].ok /\ acmpQueue'[j].mgr # acmpQueue'[i].mgr
                            /\ (Served(acmpQueue[j].mgr))' = (Served(acmpQueue[i].mgr))'
    BY <1>2, <1>6 DEF EventsTrue
  <2>1. CASE i = n
    <3>1. acmpQueue'[i].mgr = g /\ ok
      BY <1>6, <1>7, <2>1
    <3>2. IF g = "CONNECTOR" THEN t \in streams' ELSE t \notin streams'
      BY <1>2, <3>1
    <3> QED
      BY <1>8, <2>1, <3>1, <3>2 DEF Done
  <2>2. CASE i # n
    <3> DEFINE d == acmpQueue[i].mgr
               u == Served(d)
    <3>1. /\ i \in DOMAIN acmpQueue /\ acmpQueue'[i] = acmpQueue[i]
          /\ d \in Managers /\ d # g /\ i < n
          /\ (Served(acmpQueue[i].mgr))' = u
      BY <1>2, <1>8, <1>6, <1>10, <2>2
    <3>2. Done(d, u)
      <4>1. \/ Done(d, u)
            \/ \E j \in DOMAIN acmpQueue : acmpQueue[j].mgr # d
        BY <1>1, <2>2, <3>1 DEF EventsTrue
      <4>2. \A j \in DOMAIN acmpQueue : acmpQueue[j].mgr = d
        BY <1>2, <1>6, <3>1 DEF Managers
      <4> QED
        BY <4>1, <4>2
    <3> HIDE DEF u
    <3>3. CASE ok /\ u = t
      <4>1. n \in 1 .. n /\ n > i /\ acmpQueue'[n].ok /\ acmpQueue'[n].mgr = g
        BY <1>6, <1>7, <3>1, <3>3
      <4> QED
        BY <1>8, <3>1, <3>3, <4>1
    <3>4. CASE ~(ok /\ u = t)
      <4>1. u \in streams' <=> u \in streams
        BY <1>2, <3>4
      <4> QED
        BY <3>1, <3>2, <4>1 DEF Done
    <3> QED
      BY <3>3, <3>4
  <2> QED
    BY <2>1, <2>2
<1>13. Opened'
  <2> SUFFICES ASSUME ~past, NEW u \in Terminals PROVE MicOK(u)' /\ ListOK(u)'
    BY <1>2 DEF Opened
  <2>1. MicOK(u) /\ ListOK(u)
    BY <1>1, <1>2 DEF Opened
  <2>2. CASE u # t \/ ~ok
    <3>1. u \in streams' <=> u \in streams
      BY <1>2, <2>2
    <3> QED
      BY <1>2, <2>1, <3>1 DEF MicOK, ListOK
  <2>3. CASE u = t /\ ok /\ g = "DISCONNECTOR"
    <3>1. u \notin streams'
      BY <1>2, <2>3
    <3> QED
      BY <1>2, <1>3, <2>1, <2>3, <3>1 DEF MicOK, ListOK
  <2>4. CASE u = t /\ ok /\ g = "CONNECTOR"
    <3>1. u \in streams'
      BY <1>2, <2>4
    <3>2. /\ Openings(conf, u) \in Nat
          /\ BeingOpened(conf, u) > 0
          /\ First(conf, u) => Openings(conf, u) > 1
      BY <1>1, <1>3, <2>4, OpeningFacts
    <3>3. First(conf, u) => u \in overlap
      BY <2>1, <3>2 DEF MicOK
    <3> QED
      BY <1>2, <1>3, <2>1, <2>4, <3>1, <3>2, <3>3 DEF MicOK, ListOK
  <2> QED
    BY <2>2, <2>3, <2>4 DEF Managers
<1>14. ConfOK(conf') /\ InList(conf')
  BY <1>2 DEF MicInv
<1> QED
  BY <1>9, <1>11, <1>12, <1>13, <1>14 DEF MicInv

(* After a stream was closed past the manager only the record counts. *)
LEMMA PastMicInv ==
  ASSUME VarsOK', ConfOK(conf'), InList(conf'), past',
         \A g \in Managers : machine'[g] # <<>> => conf'.reqQueues[g][machine'[g][1]] # <<>>
  PROVE  MicInv'
BY DEF MicInv, Working, EventsTrue, Opened

LEMMA DirectMicInv ==
  ASSUME MicInv, NEW t \in Terminals, NEW ok \in BOOLEAN, ConcludeDirect(t, ok)
  PROVE  MicInv'
<1> DEFINE e == [mgr |-> "DISCONNECTOR", ok |-> ok]
<1>1. VarsOK /\ ConfOK(conf) /\ InList(conf) /\ Working
  BY DEF MicInv
<1>2. /\ UNCHANGED <<conf, machine, past, overlap, keyPc, ops>>
      /\ t \in direct /\ direct' = direct \ {t}
      /\ streams' = IF ok THEN streams \ {t} ELSE streams
      /\ ok \/ errors < MaxErrors
      /\ errors' = IF ok THEN errors ELSE errors + 1
      /\ acmpQueue' = Append(acmpQueue, e)
  BY DEF ConcludeDirect
<1>3. past
  BY <1>1, <1>2 DEF Working
<1>4. errors' \in 0 .. MaxErrors
  <2>1. MaxErrors \in Nat /\ errors \in 0 .. MaxErrors
    BY <1>1, DiscussionAssumption DEF DiscussionAssumption, VarsOK
  <2> QED
    BY <1>2, <2>1
<1>5. acmpQueue' \in Seq([mgr : Managers, ok : BOOLEAN])
  <2>1. e \in [mgr : Managers, ok : BOOLEAN] /\ acmpQueue \in Seq([mgr : Managers, ok : BOOLEAN])
    BY <1>1 DEF VarsOK, Managers
  <2> QED
    BY <1>2, <2>1, AppendProperties
<1> HIDE DEF e
<1>6. VarsOK'
  BY <1>1, <1>2, <1>4, <1>5 DEF VarsOK
<1>7. \A g \in Managers : machine'[g] # <<>> => conf'.reqQueues[g][machine'[g][1]] # <<>>
  BY <1>1, <1>2 DEF Working
<1> QED
  BY <1>1, <1>2, <1>3, <1>6, <1>7, PastMicInv

LEMMA ClosePastMicInv ==
  ASSUME MicInv, CloseAllMic \/ StartDiscuss
  PROVE  MicInv' /\ Remembered(conf, conf')
<1> DEFINE m == [t \in Terminals |-> IF t \in Common THEN "CLOSE" ELSE conf.mic_state[t]]
           r == [conf EXCEPT !.mic_state = [t \in Terminals |->
                                               IF t \in Common THEN "CLOSE" ELSE @[t]],
                             !.speak_limit_num = 0, !.apply_num = 0,
                             !.currect_first_index = ApplyLimit]
<1>1. VarsOK /\ ConfOK(conf) /\ InList(conf) /\ Working /\ conf \in Conf
  BY DEF MicInv, ConfOK
<1>2. /\ Operation /\ past' = TRUE /\ UNCHANGED <<machine, acmpQueue, streams, errors, keyPc>>
      /\ \/ Becomes(r) /\ direct' = direct \cup (NotClosed(Common) \cap streams)
         \/ Becomes(conf) /\ direct' = direct \cup (NotClosed(Terminals) \cap streams)
  BY DEF CloseAllMic, StartDiscuss, ClosePast
<1>3. VarsOK'
  <2>1. overlap' \subseteq Terminals
    BY <1>1, <1>2, BecomesTerminals
  <2>2. ops' \in 0 .. MaxOps
    BY <1>1, <1>2, DiscussionAssumption DEF DiscussionAssumption, VarsOK, Operation
  <2>3. direct' \subseteq Terminals /\ past' \in BOOLEAN
    BY <1>1, <1>2 DEF VarsOK
  <2> QED
    BY <1>1, <1>2, <2>1, <2>2, <2>3 DEF VarsOK
<1>4. \A g \in Managers : machine[g] # <<>> => conf.reqQueues[g][machine[g][1]] # <<>>
  BY <1>1 DEF Working
<1>5. CASE Becomes(conf)
  <2>1. conf' = conf
    BY <1>5 DEF Becomes
  <2> QED
    BY <1>1, <1>2, <1>3, <1>4, <2>1, PastMicInv DEF Remembered
<1>6. CASE Becomes(r)
  <2>1. conf' = r
    BY <1>6 DEF Becomes
  <2>2. /\ ApplyLimit \in 1 .. MaxApply /\ MaxApply \in Nat /\ MaxSpk \in Nat \ {0}
        /\ \A t \in Common : t \in Terminals
    BY DiscussionAssumption DEF DiscussionAssumption, Common
  <2>3. r = [conf EXCEPT !.mic_state = m, !.speak_limit_num = 0, !.apply_num = 0,
                         !.currect_first_index = ApplyLimit]
    BY <1>1 DEF Conf
  <2>4. m \in [Terminals -> MicStates] /\ \A t \in Common : m[t] = "CLOSE"
    BY <1>1, <2>2 DEF Conf, MicStates
  <2> HIDE DEF m, r
  <2>5. 0 \in Slots /\ 0 \in 0 .. ApplyLimit /\ ApplyLimit \in 0 .. MaxApply
    BY <2>2 DEF Slots
  <2>6. /\ r \in Conf /\ r.fSpkQueue = conf.fSpkQueue /\ r.reqQueues = conf.reqQueues
        /\ r.mic_state = m /\ r.apply_num = 0 /\ r.currect_first_index = ApplyLimit
        /\ r.apply_addr_list = conf.apply_addr_list
    BY <1>1, <2>3, <2>4, <2>5 DEF Conf
  <2>7. QueuesOK(r)
    BY <1>1, <2>6 DEF ConfOK, QueuesOK
  <2>8. ApplicantsOK(r)
    BY <1>1, <2>2, <2>6 DEF ConfOK, ApplicantsOK, CurrentApplicant, ApplicantAt
  <2>9. ConfOK(r) /\ InList(r)
    BY <2>6, <2>7, <2>8 DEF ConfOK, InList
  <2>10. \A g \in Managers : machine'[g] # <<>> => r.reqQueues[g][machine'[g][1]] # <<>>
    BY <1>2, <1>4, <2>6
  <2>11. Remembered(conf, r)
    BY <1>1, <2>4, <2>6, ApplicantFacts DEF Remembered
  <2> QED
    BY <1>2, <1>3, <2>1, <2>9, <2>10, <2>11, PastMicInv
<1> QED
  BY <1>2, <1>5, <1>6

Popped(s, g, p) == [s EXCEPT !.reqQueues[g][p] = Tail(@)]

LEMMA PoppedFacts ==
  ASSUME NEW s, ConfOK(s), NEW g \in Managers, NEW p \in Priors, s.reqQueues[g][p] # <<>>
  PROVE  LET d == Popped(s, g, p)
             t == Head(s.reqQueues[g][p]).term
         IN /\ ConfOK(d) /\ SameMode(s, d) /\ SameList(s, d) /\ SameSpeakers(s, d)
            /\ d.currect_first_index = s.currect_first_index
            /\ d.mic_state = s.mic_state /\ d.fSpkQueue = s.fSpkQueue
            /\ t \in Terminals /\ PriorOf[t] = p
            /\ \A h \in Managers : h # g => d.reqQueues[h] = s.reqQueues[h]
            /\ \A h \in Managers, u \in Terminals :
                  Asked(s, h, u) => Asked(d, h, u) \/ (h = g /\ u = t)
<1> DEFINE q == s.reqQueues[g][p]
           a == Tail(q)
           f == [s.reqQueues EXCEPT ![g] = [s.reqQueues[g] EXCEPT ![p] = a]]
           d == Popped(s, g, p)
           t == Head(q).term
<1>1. /\ s \in Conf /\ q \in Seq(Of(p)) /\ q # <<>>
      /\ s.reqQueues \in [Managers -> [Priors -> Seq(Elements)]]
  BY DEF ConfOK, Conf, QueuesOK
<1>2. d = [s EXCEPT !.reqQueues = f]
  BY DEF Popped
<1>3. /\ a \in Seq(Of(p)) /\ a \in Seq(Elements) /\ Head(q) \in Of(p)
      /\ \A u : Queued(q, u) # {} => Queued(a, u) # {} \/ u = t
  <2> HIDE DEF q
  <2> QED
    BY <1>1, TailFacts, OfFacts
<1> HIDE DEF a
<1>4. /\ f \in [Managers -> [Priors -> Seq(Elements)]]
      /\ \A h \in Managers, o \in Priors :
            f[h][o] = IF h = g /\ o = p THEN a ELSE s.reqQueues[h][o]
      /\ \A h \in Managers : h # g => f[h] = s.reqQueues[h]
  BY <1>1, <1>3
<1> HIDE DEF f, d, q
<1>5. /\ d \in Conf /\ SameMode(s, d) /\ SameList(s, d) /\ SameSpeakers(s, d)
      /\ d.currect_first_index = s.currect_first_index
      /\ d.mic_state = s.mic_state /\ d.fSpkQueue = s.fSpkQueue /\ d.reqQueues = f
  BY <1>1, <1>2, <1>4 DEF Conf, SameMode, SameList, SameSpeakers
<1>6. t \in Terminals /\ PriorOf[t] = p
  BY <1>3 DEF Of, Elements
<1>7. QueuesOK(d)
  BY <1>3, <1>4, <1>5 DEF ConfOK, QueuesOK
<1>8. ApplicantsOK(d)
  BY <1>5 DEF ConfOK, ApplicantsOK, SameList, CurrentApplicant, ApplicantAt
<1>9. \A h \in Managers, u \in Terminals :
         Asked(s, h, u) => Asked(d, h, u) \/ (h = g /\ u = t)
  <2> SUFFICES ASSUME NEW h \in Managers, NEW u \in Terminals, Asked(s, h, u)
               PROVE  Asked(d, h, u) \/ (h = g /\ u = t)
    OBVIOUS
  <2>1. PriorOf[u] \in Priors
    BY DiscussionAssumption DEF DiscussionAssumption
  <2>2. CASE h = g /\ PriorOf[u] = p
    <3>1. d.reqQueues[h][PriorOf[u]] = a /\ s.reqQueues[h][PriorOf[u]] = q
      BY <1>4, <1>5, <2>1, <2>2 DEF q
    <3> QED
      BY <1>3, <2>2, <3>1 DEF Asked
  <2>3. CASE ~(h = g /\ PriorOf[u] = p)
    <3>1. d.reqQueues[h][PriorOf[u]] = s.reqQueues[h][PriorOf[u]]
      BY <1>4, <1>5, <2>1, <2>3
    <3> QED
      BY <3>1 DEF Asked
  <2> QED
    BY <2>2, <2>3
<1> QED
  BY <1>4, <1>5, <1>6, <1>7, <1>8, <1>9 DEF ConfOK, d, t, q

(* What the end of a request of terminal t changes. *)
LEMMA EndRequestFacts ==
  ASSUME ConfOK(conf), InList(conf), NEW g \in Managers, NEW p \in Priors,
         conf.reqQueues[g][p] # <<>>, NEW ok \in BOOLEAN,
         NEW t, t = Head(conf.reqQueues[g][p]).term,
         EndRequest(g, p, ok), NEW K,
         ok /\ g = "CONNECTOR" => t \in K.opened,
         ok # (g = "CONNECTOR") => t \in K.shown,
         Applicants(conf) \subseteq K.shown,
         g = "DISCONNECTOR" => Applicants(conf) \subseteq K.asked
  PROVE  /\ Becomes(conf') /\ machine' = [machine EXCEPT ![g] = <<>>]
         /\ ConfOK(conf') /\ InList(conf') /\ Remembered(conf, conf')
         /\ Shown(conf, conf', K) /\ FirstOnly(conf, conf', K) /\ Listing(conf, conf', K)
         /\ t \in Terminals
         /\ \A h \in Managers, u \in Terminals :
               Asked(conf, h, u) => Asked(conf', h, u) \/ (h = g /\ u = t)
         /\ \A h \in Managers \ {g}, o \in Priors : conf.reqQueues[h][o] # <<>> =>
               /\ conf'.reqQueues[h][o] # <<>>
               /\ Head(conf'.reqQueues[h][o]).term = Head(conf.reqQueues[h][o]).term
         /\ ok /\ g = "CONNECTOR" => conf'.mic_state[t] = "OPEN" \/ t \in Applicants(conf')
         /\ ok /\ g = "DISCONNECTOR" => conf'.mic_state[t] # "OPEN"
         /\ ok /\ t \in Common /\ ~WasFull(conf') =>
               /\ g = "CONNECTOR" => Listed(conf', t)
               /\ /\ g = "DISCONNECTOR"
                  /\ Cardinality(Places(conf.speak_addr_list, conf.speak_limit_num, t)) <= 1
                  => ~Listed(conf', t)
<1> DEFINE e == Head(conf.reqQueues[g][p])
           d == Popped(conf, g, p)
<1>1. /\ \E s \in Callback(d, g, t, ok, e.permissions) : Becomes(s)
      /\ machine' = [machine EXCEPT ![g] = <<>>]
  BY DEF EndRequest, Popped
<1>2. /\ ConfOK(d) /\ SameMode(conf, d) /\ SameList(conf, d) /\ SameSpeakers(conf, d)
      /\ d.currect_first_index = conf.currect_first_index
      /\ d.mic_state = conf.mic_state /\ d.fSpkQueue = conf.fSpkQueue
      /\ t \in Terminals
      /\ \A h \in Managers : h # g => d.reqQueues[h] = conf.reqQueues[h]
      /\ \A h \in Managers, u \in Terminals :
            Asked(conf, h, u) => Asked(d, h, u) \/ (h = g /\ u = t)
  <2> DEFINE u == Head(conf.reqQueues[g][p]).term
  <2>1. /\ ConfOK(d) /\ SameMode(conf, d) /\ SameList(conf, d) /\ SameSpeakers(conf, d)
        /\ d.currect_first_index = conf.currect_first_index
        /\ d.mic_state = conf.mic_state /\ d.fSpkQueue = conf.fSpkQueue
        /\ u \in Terminals
        /\ \A h \in Managers : h # g => d.reqQueues[h] = conf.reqQueues[h]
        /\ \A h \in Managers, v \in Terminals :
              Asked(conf, h, v) => Asked(d, h, v) \/ (h = g /\ v = u)
    BY PoppedFacts
  <2>2. t = u
    OBVIOUS
  <2> HIDE DEF u, d
  <2> QED
    BY <2>1, <2>2
<1> HIDE DEF d, e
<1>3. conf' \in Callback(d, g, t, ok, e.permissions) /\ Becomes(conf')
  BY <1>1 DEF Becomes
<1>4. Applicants(d) = Applicants(conf) /\ InList(d)
  BY <1>2 DEF SameList, SameMode, Applicants, InList
<1>5. /\ Goes(d, conf', K)
      /\ ok /\ g = "CONNECTOR" => conf'.mic_state[t] = "OPEN" \/ t \in Applicants(conf')
      /\ ok /\ g = "DISCONNECTOR" => conf'.mic_state[t] # "OPEN"
      /\ ok /\ t \in Common /\ ~WasFull(conf') =>
            /\ g = "CONNECTOR" => Listed(conf', t)
            /\ /\ g = "DISCONNECTOR"
               /\ Cardinality(Places(d.speak_addr_list, d.speak_limit_num, t)) <= 1
               => ~Listed(conf', t)
  BY <1>2, <1>3, <1>4, CallbackGoes
<1>6. ConfOK(conf') /\ InList(conf') /\ Extends(d, conf')
  BY <1>4, <1>5 DEF Goes, Moves
<1>7. Remembered(conf, conf')
  BY <1>2, <1>4, <1>5 DEF Goes, Remembered, SameMode
<1>8. Shown(conf, conf', K) /\ FirstOnly(conf, conf', K)
  BY <1>2, <1>5 DEF Goes, Moves, Shown, FirstOnly, First
<1>11. /\ d.speak_addr_list = conf.speak_addr_list /\ d.speak_limit_num = conf.speak_limit_num
       /\ Listing(conf, conf', K)
  <2>1. /\ d.speak_addr_list = conf.speak_addr_list
        /\ d.speak_limit_num = conf.speak_limit_num
    BY <1>2 DEF SameSpeakers
  <2>2. (WasFull(d) <=> WasFull(conf)) /\ \A u : Listed(d, u) <=> Listed(conf, u)
    BY <2>1, SameListing
  <2>3. Listing(d, conf', K)
    BY <1>5 DEF Goes, Moves
  <2> QED
    BY <2>1, <2>2, <2>3 DEF Listing
<1>9. \A h \in Managers, u \in Terminals :
         Asked(conf, h, u) => Asked(conf', h, u) \/ (h = g /\ u = t)
  BY <1>2, <1>6, ExtendsFacts
<1>10. \A h \in Managers \ {g}, o \in Priors : conf.reqQueues[h][o] # <<>> =>
          /\ conf'.reqQueues[h][o] # <<>>
          /\ Head(conf'.reqQueues[h][o]).term = Head(conf.reqQueues[h][o]).term
  <2> SUFFICES ASSUME NEW h \in Managers, h # g
               PROVE  \A o \in Priors : conf.reqQueues[h][o] # <<>> =>
                         /\ conf'.reqQueues[h][o] # <<>>
                         /\ Head(conf'.reqQueues[h][o]).term = Head(conf.reqQueues[h][o]).term
    OBVIOUS
  <2>1. d.reqQueues[h] = conf.reqQueues[h]
    BY <1>2
  <2> QED
    BY <1>2, <1>6, <2>1, ExtendsFacts
<1> QED
  BY <1>1, <1>2, <1>3, <1>5, <1>6, <1>7, <1>8, <1>9, <1>10, <1>11

(* The end of a request in the right state of its stream. *)
LEMMA EndedOpened ==
  ASSUME MicInv, NEW g \in Managers, NEW p \in Priors,
         conf.reqQueues[g][p] # <<>>, NEW ok \in BOOLEAN,
         NEW t, t = Head(conf.reqQueues[g][p]).term, EndRequest(g, p, ok),
         ok /\ g = "CONNECTOR" => t \in streams \/ Asked(conf, "DISCONNECTOR", t),
         ok /\ g = "DISCONNECTOR" => t \notin streams \/ Asked(conf, "CONNECTOR", t),
         ~ok => (t \in streams <=> g = "DISCONNECTOR"),
         streams' = streams, past' = past
  PROVE  Opened'
<1> DEFINE K == [opened |-> {u \in Terminals : u \in streams \/ (u = t /\ g = "CONNECTOR" /\ ok)},
                 shown |-> {u \in Terminals : \/ u \notin streams \/ u \in Applicants(conf)
                                              \/ u = t /\ g = "DISCONNECTOR" /\ ok},
                 asked |-> {u \in Terminals : /\ g = "DISCONNECTOR"
                                              /\ u \notin streams \/ u \in Applicants(conf)}]
<1> SUFFICES ASSUME ~past, NEW u \in Terminals PROVE MicOK(u)' /\ ListOK(u)'
  BY DEF Opened
<1>1. ConfOK(conf) /\ InList(conf) /\ MicOK(u) /\ ListOK(u)
  BY DEF MicInv, Opened
<1>2. t \in Terminals
  BY <1>1, PoppedFacts
<1>3. Applicants(conf) \subseteq Terminals
  BY <1>1, ApplicantFacts
<1>4. /\ K.opened = {v \in Terminals : v \in streams \/ (v = t /\ g = "CONNECTOR" /\ ok)}
      /\ K.shown = {v \in Terminals : \/ v \notin streams \/ v \in Applicants(conf)
                                      \/ v = t /\ g = "DISCONNECTOR" /\ ok}
      /\ K.asked = {v \in Terminals : /\ g = "DISCONNECTOR"
                                      /\ v \notin streams \/ v \in Applicants(conf)}
  OBVIOUS
<1> HIDE DEF K
<1>5. /\ ok /\ g = "CONNECTOR" => t \in K.opened
      /\ ok # (g = "CONNECTOR") => t \in K.shown
      /\ Applicants(conf) \subseteq K.shown
      /\ g = "DISCONNECTOR" => Applicants(conf) \subseteq K.asked
  BY <1>2, <1>3, <1>4 DEF Managers
<1>6. /\ Becomes(conf') /\ ConfOK(conf')
      /\ Shown(conf, conf', K) /\ FirstOnly(conf, conf', K) /\ Listing(conf, conf', K)
      /\ \A h \in Managers, v \in Terminals :
            Asked(conf, h, v) => Asked(conf', h, v) \/ (h = g /\ v = t)
      /\ ok /\ g = "CONNECTOR" => conf'.mic_state[t] = "OPEN" \/ t \in Applicants(conf')
      /\ ok /\ g = "DISCONNECTOR" => conf'.mic_state[t] # "OPEN"
      /\ ok /\ t \in Common /\ ~WasFull(conf') =>
            /\ g = "CONNECTOR" => Listed(conf', t)
            /\ /\ g = "DISCONNECTOR"
               /\ Cardinality(Places(conf.speak_addr_list, conf.speak_limit_num, t)) <= 1
               => ~Listed(conf', t)
  BY <1>1, <1>5, EndRequestFacts
<1>7. "CONNECTOR" \in Managers /\ "DISCONNECTOR" \in Managers
  BY DEF Managers
<1>8. /\ \/ conf'.mic_state[u] = conf.mic_state[u]
         \/ conf'.mic_state[u] = "OPEN" /\ (u \in streams \/ (u = t /\ g = "CONNECTOR" /\ ok))
         \/ /\ conf'.mic_state[u] # "OPEN"
            /\ u \notin streams \/ u \in Applicants(conf) \/ (u = t /\ g = "DISCONNECTOR" /\ ok)
      /\ First(conf', u) => First(conf, u) \/ u \notin streams
                             \/ (u \in Applicants(conf) /\ g = "DISCONNECTOR")
  BY <1>4, <1>6 DEF Shown, FirstOnly
<1>9. /\ Asked(conf, "DISCONNECTOR", u) =>
            Asked(conf', "DISCONNECTOR", u) \/ (g = "DISCONNECTOR" /\ u = t)
      /\ Asked(conf, "CONNECTOR", u) =>
            Asked(conf', "CONNECTOR", u) \/ (g = "CONNECTOR" /\ u = t)
  BY <1>6, <1>7
<1>10. conf'.mic_state[u] = "OPEN" => u \in streams \/ Asked(conf', "DISCONNECTOR", u)
  BY <1>1, <1>6, <1>8, <1>9 DEF MicOK, Managers
<1>11. ASSUME u \notin overlap'
       PROVE  /\ u \in streams /\ conf'.mic_state[u] # "OPEN" => Asked(conf', "CONNECTOR", u)
              /\ First(conf', u) => u \notin streams
              /\ u \in Applicants(conf') \cap streams => BeingOpened(conf', u) > 0
              /\ Openings(conf', u) <= 1
  <2>1. /\ u \notin overlap /\ Openings(conf', u) <= 1
        /\ u \in Applicants(conf') \cap streams => BeingOpened(conf', u) > 0
        /\ ~(First(conf', u) /\ Asked(conf', "CONNECTOR", u))
    BY <1>6, <1>11, BecomesFacts
  <2>2. u \in Applicants(conf) \cap streams => Asked(conf, "CONNECTOR", u)
    <3>1. BeingOpened(conf, u) > 0 <=> First(conf, u) \/ Asked(conf, "CONNECTOR", u)
      BY <1>1, OpeningFacts
    <3> QED
      BY <1>1, <2>1, <3>1 DEF MicOK
  <2>3. First(conf', u) => u \notin streams
    BY <1>1, <1>8, <1>9, <2>1, <2>2 DEF MicOK
  <2>4. u \in streams /\ conf'.mic_state[u] # "OPEN" => Asked(conf', "CONNECTOR", u)
    <3> SUFFICES ASSUME u \in streams, conf'.mic_state[u] # "OPEN"
                 PROVE  Asked(conf', "CONNECTOR", u)
      OBVIOUS
    <3>1. CASE u = t /\ g = "CONNECTOR"
      <4>1. ok
        BY <3>1
      <4>2. u \in Applicants(conf')
        BY <1>6, <3>1, <4>1
      <4>3. First(conf', u) \/ Asked(conf', "CONNECTOR", u)
        BY <1>6, <2>1, <4>2, OpeningFacts
      <4> QED
        BY <2>3, <4>3
    <3>2. CASE ~(u = t /\ g = "CONNECTOR")
      BY <1>1, <1>8, <1>9, <2>1, <2>2, <3>2 DEF MicOK
    <3> QED
      BY <3>1, <3>2
  <2> QED
    BY <2>1, <2>3, <2>4
<1>12. (Applicants(conf))' = Applicants(conf') /\ (First(conf, u))' = First(conf', u)
       /\ (Openings(conf, u))' = Openings(conf', u)
       /\ (BeingOpened(conf, u))' = BeingOpened(conf', u)
       /\ \A h \in Managers : (Asked(conf, h, u))' = Asked(conf', h, u)
       /\ (Listed(conf, u))' = Listed(conf', u) /\ WasFull(conf)' = WasFull(conf')
  OBVIOUS
<1>13. ASSUME u \in Common \ overlap', ~WasFull(conf')
       PROVE  /\ u \in streams => Listed(conf', u) \/ Asked(conf', "CONNECTOR", u)
              /\ Listed(conf', u) => u \in streams \/ Asked(conf', "DISCONNECTOR", u)
  <2>1. /\ u \notin overlap /\ ~WasFull(conf)
        /\ u \in streams => Listed(conf, u) \/ Asked(conf, "CONNECTOR", u)
        /\ Listed(conf, u) => u \in streams \/ Asked(conf, "DISCONNECTOR", u)
    BY <1>1, <1>6, <1>13, BecomesFacts DEF Listing, ListOK
  <2>2. u \in Applicants(conf) \cap streams => Asked(conf, "CONNECTOR", u)
    <3>1. BeingOpened(conf, u) > 0 <=> First(conf, u) \/ Asked(conf, "CONNECTOR", u)
      BY <1>1, OpeningFacts
    <3> QED
      BY <1>1, <2>1, <3>1 DEF MicOK
  <2>3. Cardinality(Places(conf.speak_addr_list, conf.speak_limit_num, u)) <= 1
    <3> DEFINE n == Cardinality(Places(conf.speak_addr_list, conf.speak_limit_num, u))
    <3>1. n \in Nat /\ n <= Openings(conf, u) /\ Openings(conf, u) \in Nat
      BY <1>1, PlacesFacts, OpeningFacts
    <3>2. Openings(conf, u) <= 1
      BY <1>1, <2>1 DEF MicOK
    <3> HIDE DEF n
    <3>3. n <= 1
      BY <3>1, <3>2
    <3> QED
      BY <3>3 DEF n
  <2>4. \/ Listed(conf', u) <=> Listed(conf, u)
        \/ Listed(conf', u) /\ (u \in streams \/ (u = t /\ g = "CONNECTOR" /\ ok))
        \/ /\ ~Listed(conf', u)
           /\ u \notin streams \/ u \in Applicants(conf) \/ (u = t /\ g = "DISCONNECTOR" /\ ok)
    BY <1>4, <1>6, <1>13 DEF Listing
  <2>5. CASE u = t /\ g = "CONNECTOR"
    BY <1>6, <1>9, <1>13, <2>1, <2>4, <2>5 DEF Managers
  <2>6. CASE u = t /\ g = "DISCONNECTOR"
    BY <1>6, <1>9, <1>13, <2>1, <2>2, <2>3, <2>4, <2>6 DEF Managers
  <2>7. CASE u # t
    BY <1>9, <2>1, <2>2, <2>4, <2>7
  <2> QED
    BY <2>5, <2>6, <2>7 DEF Managers
<1>14. MicOK(u)'
  BY <1>7, <1>10, <1>11, <1>12 DEF MicOK
<1>15. ListOK(u)'
  BY <1>7, <1>12, <1>13 DEF ListOK
<1> QED
  BY <1>14, <1>15

(* The events but those to machine g stay true when that machine is done. *)
LEMMA OtherWorking ==
  ASSUME MicInv, NEW g \in Managers, NEW n, n = Len(acmpQueue), NEW k \in 0 .. n,
         DOMAIN acmpQueue' = 1 .. (n - k),
         \A i \in 1 .. (n - k) : acmpQueue'[i] = acmpQueue[i + k],
         ~past => \A i \in 1 .. (n - k) : acmpQueue[i + k].mgr # g,
         \A d \in Managers \ {g} : machine'[d] = machine[d],
         machine'[g] # <<>> => conf'.reqQueues[g][machine'[g][1]] # <<>>,
         \A d \in Managers \ {g}, o \in Priors : conf.reqQueues[d][o] # <<>> =>
            /\ conf'.reqQueues[d][o] # <<>>
            /\ Head(conf'.reqQueues[d][o]).term = Head(conf.reqQueues[d][o]).term,
         streams' = streams, past' = past, direct' = direct
  PROVE  Working' /\ EventsTrue'
<1>1. VarsOK /\ ConfOK(conf) /\ Working /\ EventsTrue
  BY DEF MicInv
<1>2. /\ n \in Nat /\ DOMAIN acmpQueue = 1 .. n
      /\ \A i \in 1 .. n : acmpQueue[i].mgr \in Managers
  BY <1>1, EventFacts
<1>3. \A i \in 1 .. (n - k) : i + k \in 1 .. n
  BY <1>2
<1>4. \A d \in Managers \ {g} : machine[d] # <<>> =>
         /\ conf'.reqQueues[d][machine'[d][1]] # <<>>
         /\ Head(conf'.reqQueues[d][machine'[d][1]]).term = Served(d)
  <2> SUFFICES ASSUME NEW d \in Managers \ {g}, machine[d] # <<>>
               PROVE  /\ conf'.reqQueues[d][machine'[d][1]] # <<>>
                      /\ Head(conf'.reqQueues[d][machine'[d][1]]).term = Served(d)
    OBVIOUS
  <2>1. machine[d][1] \in Priors /\ conf.reqQueues[d][machine[d][1]] # <<>>
    BY <1>1, ServedFacts
  <2> DEFINE p == machine[d][1]
             a == conf.reqQueues[d][p]
             b == conf'.reqQueues[d][p]
  <2>2. Served(d) = Head(a).term /\ machine'[d] = machine[d]
    BY DEF Served
  <2> HIDE DEF p
  <2>3. p \in Priors /\ a # <<>>
    BY <2>1 DEF p
  <2>4. b # <<>> /\ Head(b).term = Head(a).term
    BY <2>3
  <2> HIDE DEF a, b
  <2>5. b # <<>> /\ Head(b).term = Served(d)
    BY <2>2, <2>4
  <2> QED
    BY <2>2, <2>5 DEF b, p
<1>5. Working'
  <2>1. \A d \in Managers : machine'[d] # <<>> => conf'.reqQueues[d][machine'[d][1]] # <<>>
    BY <1>4
  <2>2. ~past => \A i \in 1 .. (n - k) :
                    /\ acmpQueue'[i].mgr \in Managers \ {g}
                    /\ \E p \in Priors : machine'[acmpQueue'[i].mgr] = <<p, "WAIT">>
    <3> SUFFICES ASSUME ~past, NEW i \in 1 .. (n - k)
                 PROVE  /\ acmpQueue'[i].mgr \in Managers \ {g}
                        /\ \E p \in Priors : machine'[acmpQueue'[i].mgr] = <<p, "WAIT">>
      OBVIOUS
    <3>1. acmpQueue'[i].mgr \in Managers \ {g} /\ acmpQueue'[i].mgr = acmpQueue[i + k].mgr
      BY <1>2, <1>3
    <3>2. \E p \in Priors : machine[acmpQueue[i + k].mgr] = <<p, "WAIT">>
      BY <1>1, <1>2, <1>3 DEF Working
    <3> QED
      BY <3>1, <3>2
  <2>3. ~past => \A i, j \in 1 .. (n - k) : acmpQueue'[i].mgr = acmpQueue'[j].mgr => i = j
    <3> SUFFICES ASSUME ~past, NEW i \in 1 .. (n - k), NEW j \in 1 .. (n - k),
                        acmpQueue'[i].mgr = acmpQueue'[j].mgr
                 PROVE  i = j
      OBVIOUS
    <3>1. i + k \in 1 .. n /\ j + k \in 1 .. n /\ acmpQueue[i + k].mgr = acmpQueue[j + k].mgr
      BY <1>3
    <3>2. i + k = j + k
      BY <1>1, <1>2, <3>1 DEF Working
    <3> QED
      BY <1>2, <3>2
  <2>4. ~past => direct = {}
    BY <1>1 DEF Working
  <2> QED
    BY <2>1, <2>2, <2>3, <2>4 DEF Working
<1>6. EventsTrue'
  <2> SUFFICES ASSUME ~past, NEW i \in 1 .. (n - k), acmpQueue'[i].ok
               PROVE  (Done(acmpQueue[i].mgr, Served(acmpQueue[i].mgr)))'
    BY DEF EventsTrue
  <2> DEFINE d == acmpQueue[i + k].mgr
  <2>1. /\ i + k \in DOMAIN acmpQueue /\ acmpQueue'[i] = acmpQueue[i + k]
        /\ d \in Managers \ {g} /\ machine[d] # <<>>
    BY <1>1, <1>2, <1>3, EventFacts
  <2>2. Done(d, Served(d))
    <3>1. \/ Done(d, Served(d))
          \/ \E j \in DOMAIN acmpQueue : j > i + k /\ acmpQueue[j].mgr # d
      BY <1>1, <2>1 DEF EventsTrue
    <3>2. ASSUME NEW j \in 1 .. n, j > i + k PROVE acmpQueue[j].mgr = d
      <4>1. j - k \in 1 .. (n - k) /\ j - k + k = j
        BY <1>2, <3>2
      <4>2. acmpQueue[j].mgr # g /\ acmpQueue[j].mgr \in Managers
        BY <1>2, <4>1
      <4> QED
        BY <2>1, <4>2 DEF Managers
    <3> QED
      BY <1>2, <3>1, <3>2
  <2>3. (Served(acmpQueue[i].mgr))' = Served(d)
    BY <1>4, <2>1 DEF Served
  <2> QED
    BY <2>1, <2>2, <2>3 DEF Done
<1> QED
  BY <1>5, <1>6

LEMMA EndUnsentMicInv ==
  ASSUME MicInv, NEW g \in Managers, NEW p \in Priors, EndUnsent(g, p)
  PROVE  MicInv' /\ Remembered(conf, conf')
<1> DEFINE ok == Done(g, Head(conf.reqQueues[g][p]).term)
           K == [opened |-> Terminals, shown |-> Terminals, asked |-> Terminals]
<1>1. /\ VarsOK /\ ConfOK(conf) /\ InList(conf) /\ Working
      /\ conf.reqQueues[g][p] # <<>> /\ machine[g] \in {<<>>, <<p, "FAILED">>}
      /\ EndRequest(g, p, ok)
      /\ UNCHANGED <<acmpQueue, streams, direct, errors, past, keyPc, ops>>
  BY DEF MicInv, EndUnsent, Serves
<1>2. PICK t : t = Head(conf.reqQueues[g][p]).term
  OBVIOUS
<1>3. PICK b \in BOOLEAN : b = Done(g, t)
  <2>1. Done(g, t) \in BOOLEAN
    <3>1. (t \in streams) \in BOOLEAN /\ (t \notin streams) \in BOOLEAN
      OBVIOUS
    <3>2. \/ Done(g, t) = (t \in streams)
          \/ Done(g, t) = (t \notin streams)
      BY DEF Done
    <3> QED
      BY <3>1, <3>2
  <2> QED
    BY <2>1
<1>4. EndRequest(g, p, b)
  BY <1>1, <1>2, <1>3
<1>5. t \in Terminals
  BY <1>1, <1>2, PoppedFacts
<1>6. t \in K.opened /\ t \in K.shown /\ Applicants(conf) \subseteq K.shown
      /\ Applicants(conf) \subseteq K.asked
  BY <1>1, <1>5, ApplicantFacts
<1> HIDE DEF K, ok
<1>7. /\ Becomes(conf') /\ machine' = [machine EXCEPT ![g] = <<>>]
      /\ ConfOK(conf') /\ InList(conf') /\ Remembered(conf, conf')
      /\ \A h \in Managers \ {g}, o \in Priors : conf.reqQueues[h][o] # <<>> =>
            /\ conf'.reqQueues[h][o] # <<>>
            /\ Head(conf'.reqQueues[h][o]).term = Head(conf.reqQueues[h][o]).term
  BY <1>1, <1>2, <1>4, <1>6, EndRequestFacts
<1>8. /\ machine' \in [Managers -> {<<>>} \cup {<<h, st>> : h \in Priors,
                                                   st \in {"WAIT", "FAILED"}}]
      /\ machine'[g] = <<>>
      /\ \A d \in Managers \ {g} : machine'[d] = machine[d]
  BY <1>1, <1>7 DEF VarsOK
<1>9. VarsOK'
  <2>1. overlap' \subseteq Terminals
    BY <1>1, <1>7, BecomesTerminals
  <2> QED
    BY <1>1, <1>8, <2>1 DEF VarsOK
<1>10. Working' /\ EventsTrue'
  <2>1. PICK n : n = Len(acmpQueue)
    OBVIOUS
  <2>2. /\ n \in Nat /\ DOMAIN acmpQueue = 1 .. n
        /\ \A i \in 1 .. n : i + 0 = i
    BY <1>1, <2>1, EventFacts
  <2>3. machine[g] # <<>> => machine[g][2] # "WAIT"
    BY <1>1
  <2>4. ~past => \A i \in 1 .. n : acmpQueue[i].mgr # g
    BY <1>1, <2>2, <2>3, EventFacts
  <2>5. 0 \in 0 .. n /\ n - 0 = n
    BY <2>2
  <2>6. /\ DOMAIN acmpQueue' = 1 .. (n - 0)
        /\ \A i \in 1 .. (n - 0) : acmpQueue'[i] = acmpQueue[i + 0]
        /\ ~past => \A i \in 1 .. (n - 0) : acmpQueue[i + 0].mgr # g
    BY <1>1, <2>2, <2>4, <2>5
  <2> QED
    BY <1>1, <1>7, <1>8, <2>1, <2>5, <2>6, OtherWorking
<1>11. Opened'
  <2>1. /\ b /\ g = "CONNECTOR" => t \in streams
        /\ b /\ g = "DISCONNECTOR" => t \notin streams
        /\ ~b => (t \in streams <=> g = "DISCONNECTOR")
    BY <1>3 DEF Done, Managers
  <2> QED
    BY <1>1, <1>2, <1>4, <2>1, EndedOpened
<1> QED
  BY <1>7, <1>9, <1>10, <1>11 DEF MicInv

LEMMA TakeEventMicInv ==
  ASSUME MicInv, TakeEvent
  PROVE  MicInv' /\ Remembered(conf, conf')
<1> DEFINE g == Head(acmpQueue).mgr
           p == machine[g][1]
           K == [opened |-> Terminals, shown |-> Terminals, asked |-> Terminals]
<1>1. VarsOK /\ ConfOK(conf) /\ InList(conf) /\ Working /\ EventsTrue
  BY DEF MicInv
<1>2. PICK n : n = Len(acmpQueue)
  OBVIOUS
<1>3. /\ n \in Nat \ {0} /\ DOMAIN acmpQueue = 1 .. n
      /\ Head(acmpQueue) = acmpQueue[1] /\ g \in Managers
      /\ DOMAIN acmpQueue' = 1 .. (n - 1)
      /\ \A i \in 1 .. (n - 1) : acmpQueue'[i] = acmpQueue[i + 1]
      /\ acmpQueue' \in Seq([mgr : Managers, ok : BOOLEAN])
  <2> DEFINE E == [mgr : Managers, ok : BOOLEAN]
  <2>1. acmpQueue \in Seq(E) /\ acmpQueue # <<>> /\ acmpQueue' = Tail(acmpQueue)
    BY <1>1 DEF TakeEvent, VarsOK
  <2>2. \A x \in E : x.mgr \in Managers
    OBVIOUS
  <2> HIDE DEF E
  <2>3. /\ Tail(acmpQueue) \in Seq(E) /\ Len(Tail(acmpQueue)) = n - 1
        /\ Head(acmpQueue) \in E /\ Head(acmpQueue) = acmpQueue[1]
        /\ \A i \in 1 .. Len(Tail(acmpQueue)) : Tail(acmpQueue)[i] = acmpQueue[i + 1]
    BY <1>2, <2>1, HeadTailProperties
  <2>4. n \in Nat \ {0} /\ DOMAIN acmpQueue = 1 .. n
    BY <1>2, <2>1, LenProperties, EmptySeq
  <2>5. DOMAIN acmpQueue' = 1 .. (n - 1) /\ acmpQueue' \in Seq(E)
    BY <2>1, <2>3, LenProperties
  <2> QED
    BY <2>1, <2>2, <2>3, <2>4, <2>5 DEF E
<1> HIDE DEF g
<1>4. /\ UNCHANGED <<streams, direct, errors, past, keyPc, ops>>
      /\ IF \A o \in Priors : machine[g] # <<o, "WAIT">>
         THEN UNCHANGED <<conf, overlap, machine>>
         ELSE IF Head(acmpQueue).ok THEN EndRequest(g, p, TRUE)
         ELSE /\ machine' = [machine EXCEPT ![g] = <<p, "FAILED">>]
              /\ UNCHANGED <<conf, overlap>>
  BY DEF TakeEvent, g
<1>5. ~past => \A i \in 1 .. (n - 1) : acmpQueue[i + 1].mgr # g
  <2> SUFFICES ASSUME ~past, NEW i \in 1 .. (n - 1), acmpQueue[i + 1].mgr = g PROVE FALSE
    OBVIOUS
  <2>1. 1 \in DOMAIN acmpQueue /\ i + 1 \in DOMAIN acmpQueue /\ i + 1 # 1
    BY <1>3
  <2>2. acmpQueue[1].mgr = g
    BY <1>3 DEF g
  <2> QED
    BY <1>1, <2>1, <2>2 DEF Working
<1>6. 1 \in 0 .. n
  BY <1>3
<1>7. CASE \A o \in Priors : machine[g] # <<o, "WAIT">>
  <2>1. UNCHANGED <<conf, overlap, machine>>
    BY <1>4, <1>7
  <2>2. past
    <3> SUFFICES ASSUME ~past PROVE FALSE
      OBVIOUS
    <3>1. 1 \in DOMAIN acmpQueue /\ acmpQueue[1].mgr = g
      BY <1>3 DEF g
    <3> QED
      BY <1>1, <1>7, <3>1 DEF Working
  <2>3. VarsOK'
    BY <1>1, <1>3, <1>4, <2>1 DEF VarsOK
  <2>4. \A d \in Managers : machine'[d] # <<>> => conf'.reqQueues[d][machine'[d][1]] # <<>>
    BY <1>1, <2>1 DEF Working
  <2> QED
    BY <1>1, <1>4, <2>1, <2>2, <2>3, <2>4, PastMicInv DEF Remembered
<1>8. CASE \E o \in Priors : machine[g] = <<o, "WAIT">>
  <2>1. machine[g] = <<p, "WAIT">> /\ p \in Priors /\ machine[g] # <<>>
    BY <1>8
  <2>2. conf.reqQueues[g][p] # <<>>
    BY <1>1, <1>3, <2>1 DEF Working
  <2>3. CASE Head(acmpQueue).ok
    <3>1. EndRequest(g, p, TRUE)
      BY <1>4, <1>8, <2>3
    <3>2. PICK t : t = Served(g)
      OBVIOUS
    <3>3. PICK b \in BOOLEAN : b = TRUE
      OBVIOUS
    <3>4. t = Head(conf.reqQueues[g][p]).term /\ EndRequest(g, p, b)
      BY <3>1, <3>2, <3>3 DEF Served
    <3>5. t \in Terminals
      BY <1>1, <1>3, <2>1, <3>2, ServedFacts
    <3>6. t \in K.opened /\ t \in K.shown /\ Applicants(conf) \subseteq K.shown
          /\ Applicants(conf) \subseteq K.asked
      BY <1>1, <3>5, ApplicantFacts
    <3> HIDE DEF K, p
    <3>7. /\ Becomes(conf') /\ machine' = [machine EXCEPT ![g] = <<>>]
          /\ ConfOK(conf') /\ InList(conf') /\ Remembered(conf, conf')
          /\ \A h \in Managers \ {g}, o \in Priors : conf.reqQueues[h][o] # <<>> =>
                /\ conf'.reqQueues[h][o] # <<>>
                /\ Head(conf'.reqQueues[h][o]).term = Head(conf.reqQueues[h][o]).term
      BY <1>1, <1>3, <2>1, <2>2, <3>4, <3>6, EndRequestFacts
    <3>8. /\ machine' \in [Managers -> {<<>>} \cup {<<h, st>> : h \in Priors,
                                                       st \in {"WAIT", "FAILED"}}]
          /\ machine'[g] = <<>>
          /\ \A d \in Managers \ {g} : machine'[d] = machine[d]
      BY <1>1, <1>3, <3>7 DEF VarsOK
    <3>9. VarsOK'
      <4>1. overlap' \subseteq Terminals
        BY <1>1, <3>7, BecomesTerminals
      <4> QED
        BY <1>1, <1>3, <1>4, <3>8, <4>1 DEF VarsOK
    <3>10. Working' /\ EventsTrue'
      BY <1>2, <1>3, <1>4, <1>5, <1>6, <3>7, <3>8, OtherWorking
    <3>11. ~past => /\ g = "CONNECTOR" => t \in streams \/ Asked(conf, "DISCONNECTOR", t)
                    /\ g = "DISCONNECTOR" => t \notin streams \/ Asked(conf, "CONNECTOR", t)
      <4> SUFFICES ASSUME ~past, ~Done(g, t)
                   PROVE  \A h \in Managers : h # g => Asked(conf, h, t)
        BY <1>3 DEF Done, Managers
      <4>1. 1 \in DOMAIN acmpQueue /\ acmpQueue[1].ok /\ acmpQueue[1].mgr = g
        BY <1>3, <2>3 DEF g
      <4>2. PICK j \in DOMAIN acmpQueue : acmpQueue[j].mgr # g /\ Served(acmpQueue[j].mgr) = t
        BY <1>1, <3>2, <4>1 DEF EventsTrue
      <4>3. acmpQueue[j].mgr \in Managers /\ machine[acmpQueue[j].mgr] # <<>>
        BY <1>1, EventFacts
      <4>4. Asked(conf, acmpQueue[j].mgr, t)
        BY <1>1, <4>2, <4>3, ServedFacts
      <4> QED
        BY <1>3, <4>2, <4>3, <4>4 DEF Managers
    <3>12. Opened'
      <4>1. CASE ~past
        BY <1>3, <1>4, <2>1, <2>2, <3>3, <3>4, <3>11, <4>1, EndedOpened
      <4>2. CASE past
        BY <1>4, <4>2 DEF Opened
      <4> QED
        BY <4>1, <4>2
    <3> QED
      BY <3>7, <3>9, <3>10, <3>12 DEF MicInv
  <2>4. CASE ~Head(acmpQueue).ok
    <3>1. machine' = [machine EXCEPT ![g] = <<p, "FAILED">>] /\ UNCHANGED <<conf, overlap>>
      BY <1>4, <1>8, <2>4
    <3> HIDE DEF p, K
    <3>2. /\ machine' \in [Managers -> {<<>>} \cup {<<h, st>> : h \in Priors,
                                                       st \in {"WAIT", "FAILED"}}]
          /\ machine'[g] = <<p, "FAILED">>
          /\ \A d \in Managers \ {g} : machine'[d] = machine[d]
      BY <1>1, <1>3, <2>1, <3>1 DEF VarsOK
    <3>3. VarsOK'
      BY <1>1, <1>3, <1>4, <3>1, <3>2 DEF VarsOK
    <3>4. conf'.reqQueues[g][machine'[g][1]] # <<>>
      BY <2>2, <3>1, <3>2
    <3>5. Working' /\ EventsTrue'
      BY <1>2, <1>3, <1>4, <1>5, <1>6, <3>1, <3>2, <3>4, OtherWorking
    <3>6. Opened' /\ ConfOK(conf') /\ InList(conf') /\ Remembered(conf, conf')
      BY <1>4, <3>1 DEF MicInv, Opened, MicOK, ListOK, Remembered
    <3> QED
      BY <3>3, <3>5, <3>6 DEF MicInv
  <2> QED
    BY <2>3, <2>4
<1> QED
  BY <1>7, <1>8

-----------------------------------------------------------------------------
(* The theorems *)

LEMMA StepMicInv ==
  ASSUME MicInv, [Next]_vars
  PROVE  /\ MicInv'
         /\ Remembered(conf, conf') \/ conf'.currect_first_index = MaxApply
<1>1. CASE UNCHANGED vars
  <2>1. UNCHANGED <<conf, machine, acmpQueue, streams, direct, keyPc, ops, errors,
                    past, overlap>>
    BY <1>1 DEF vars
  <2>2. VarsOK'
    BY <2>1 DEF MicInv, VarsOK
  <2> QED
    BY <2>1, <2>2, SameMicInv DEF Remembered
<1>2. ASSUME NEW t \in Terminals, NEW down \in BOOLEAN, KeyOfIdle(t, down)
      PROVE  MicInv' /\ Remembered(conf, conf')
  <2>1. conf' = conf
    BY <1>2 DEF KeyOfIdle
  <2> QED
    BY <1>2, <2>1, IdleMicInv DEF Remembered
<1>3. ASSUME NEW g \in Managers, NEW p \in Priors, SendCommand(g, p)
      PROVE  MicInv' /\ Remembered(conf, conf')
  <2>1. conf' = conf
    BY <1>3 DEF SendCommand
  <2> QED
    BY <1>3, <2>1, SendMicInv DEF Remembered
<1>4. ASSUME NEW g \in Managers, NEW ok \in BOOLEAN, Conclude(g, ok)
      PROVE  MicInv' /\ Remembered(conf, conf')
  <2>1. conf' = conf
    BY <1>4 DEF Conclude
  <2> QED
    BY <1>4, <2>1, ConcludeMicInv DEF Remembered
<1>5. ASSUME NEW t \in Terminals, NEW ok \in BOOLEAN, ConcludeDirect(t, ok)
      PROVE  MicInv' /\ Remembered(conf, conf')
  <2>1. conf' = conf
    BY <1>5 DEF ConcludeDirect
  <2> QED
    BY <1>5, <2>1, DirectMicInv DEF Remembered
<1>6. CASE \/ \E t \in Terminals, down \in BOOLEAN : KeyOfBusy(t, down)
           \/ KeySpeak
           \/ \E p \in Priors : ServeFirstSpeak(p)
           \/ RefuseApply \/ NextApply \/ ApproveApply
           \/ \E t \in Terminals : SelectApply(t)
           \/ \E m \in Modes : SetDiscussMode(m)
           \/ \E n \in Limits : SetSpeakLimit(n)
           \/ MicSetAfter
  <2>1. MicInv' /\ Plain
    BY <1>6, PlainStep
  <2> QED
    BY <2>1 DEF Plain
<1>7. ASSUME NEW g \in Managers, NEW p \in Priors, EndUnsent(g, p)
      PROVE  MicInv' /\ Remembered(conf, conf')
  BY <1>7, EndUnsentMicInv
<1>8. CASE TakeEvent
  BY <1>8, TakeEventMicInv
<1>9. CASE CloseAllMic \/ StartDiscuss
  BY <1>9, ClosePastMicInv
<1> QED
  BY <1>1, <1>2, <1>3, <1>4, <1>5, <1>6, <1>7, <1>8, <1>9 DEF Next

(* The microphones that show open and the terminals that are heard agree   *)
(* in the inductive sense: with the requests at work, the events and the   *)
(* history that explain a difference.                                      *)
THEOREM MicInvariant == Spec => []MicInv
<1>1. MicInv /\ [Next]_vars => MicInv'
  BY StepMicInv
<1> QED
  BY InitMicInv, <1>1, PTL DEF Spec

(* Every record, list, queue, machine and event of the discussion has its  *)
(* type: no index leaves its array, no queue its length.                   *)
THEOREM TypeCorrect == Spec => []TypeOK
<1>1. MicInv => TypeOK
  <2> SUFFICES ASSUME MicInv PROVE TypeOK
    OBVIOUS
  <2>1. VarsOK /\ conf \in Conf /\ QueuesOK(conf)
    BY DEF MicInv, ConfOK
  <2>2. Common \subseteq Terminals /\ Vips \subseteq Terminals
    BY DEF Common, Vips
  <2>3. /\ conf.edis_mode \in Modes /\ conf.limit_num \in Limits
        /\ conf.speak_addr_list \in [Slots -> Terminals \cup {NoAddr}]
        /\ conf.vipSpeakList \in [Slots -> Terminals \cup {NoAddr}]
        /\ conf.speak_limit_num \in Slots /\ conf.vipSpkNum \in Slots
        /\ conf.apply_addr_list \in [ApplySlots -> Terminals \cup {NoAddr}]
        /\ conf.apply_num \in 0 .. ApplyLimit
        /\ conf.currect_first_index \in 0 .. MaxApply
        /\ conf.mic_state \in [Terminals -> MicStates]
        /\ conf.micSetPro \in BOOLEAN
        /\ conf.fSpkQueue \in [Priors -> Seq(Elements)]
        /\ conf.reqQueues \in [Managers -> [Priors -> Seq(Elements)]]
    BY <2>1, <2>2 DEF Conf
  <2>4. \A p \in Priors : Len(conf.fSpkQueue[p]) < FsQueueSize[p]
    BY <2>1 DEF QueuesOK
  <2> QED
    BY <2>1, <2>3, <2>4 DEF TypeOK, VarsOK
<1> QED
  BY MicInvariant, <1>1, PTL

(* Whatever keys, callbacks, commands and failures there are, in any       *)
(* order: when nothing is under way for a terminal, its microphone shows   *)
(* open exactly if it is heard (with the exceptions MicAgrees names).      *)
THEOREM MicsAgree == Spec => []MicAgrees
<1>1. MicInv => MicAgrees
  <2> SUFFICES ASSUME MicInv, ~past, NEW t \in Terminals \ overlap, ~HasTask(conf, t)
               PROVE  conf.mic_state[t] = "OPEN" <=> t \in streams
    BY DEF MicAgrees, Pending
  <2>1. MicOK(t)
    BY DEF MicInv, Opened
  <2>2. ~Asked(conf, "CONNECTOR", t) /\ ~Asked(conf, "DISCONNECTOR", t)
    BY DEF HasTask, Asked, Managers
  <2> QED
    BY <2>1, <2>2 DEF MicOK
<1> QED
  BY MicInvariant, <1>1, PTL

(* In the limited mode the index of the applicant who speaks next never    *)
(* points behind the list of applicants.                                   *)
THEOREM CurrentListed == Spec => []CurrentInList
<1>1. MicInv => CurrentInList
  BY DEF MicInv, InList, CurrentInList
<1> QED
  BY MicInvariant, <1>1, PTL

(* The lists the limit, the VIPs and the next speaker are found with may   *)
(* be relied on: until the list of speakers has been full, a common        *)
(* terminal for which nothing is under way stands in it once if it is      *)
(* heard and not at all otherwise, and the current applicant is listed.    *)
THEOREM ListsCorrect == Spec => []ListsAgree
<1>1. MicInv => ListsAgree
  <2> SUFFICES ASSUME MicInv, ~past, ~WasFull(conf), NEW t \in Common \ overlap,
                      ~HasTask(conf, t)
               PROVE  Cardinality(Places(conf.speak_addr_list, conf.speak_limit_num, t))
                        = IF t \in streams THEN 1 ELSE 0
    BY DEF ListsAgree, SpeakersListed, CurrentInList, Pending, MicInv, InList
  <2> DEFINE n == Cardinality(Places(conf.speak_addr_list, conf.speak_limit_num, t))
  <2>1. t \in Terminals /\ ConfOK(conf)
    BY DEF Common, MicInv
  <2>2. MicOK(t) /\ ListOK(t)
    BY <2>1 DEF MicInv, Opened
  <2>3. ~Asked(conf, "CONNECTOR", t) /\ ~Asked(conf, "DISCONNECTOR", t)
    BY DEF HasTask, Asked, Managers
  <2>4. n \in Nat /\ n <= Openings(conf, t) /\ (Listed(conf, t) <=> n # 0)
    BY <2>1, PlacesFacts
  <2>5. Openings(conf, t) \in Nat /\ Openings(conf, t) <= 1
    BY <2>1, <2>2, OpeningFacts DEF MicOK
  <2>6. Listed(conf, t) <=> t \in streams
    BY <2>2, <2>3 DEF ListOK
  <2> HIDE DEF n
  <2>7. n = IF t \in streams THEN 1 ELSE 0
    BY <2>4, <2>5, <2>6
  <2> QED
    BY <2>7 DEF n
<1> QED
  BY MicInvariant, <1>1, PTL

(* An applicant leaves the list of the limited mode only to speak or with  *)
(* its microphone closed, unless the queue of first speakers is full.      *)
THEOREM NoneForgotten == Spec => NoApplicantForgotten
<1> DEFINE NoneLost == (/\ conf.edis_mode = "LIMIT" /\ conf'.edis_mode = "LIMIT"
                        /\ conf'.currect_first_index # MaxApply) =>
                          \A t \in Applicants(conf) \ Applicants(conf') :
                             \/ Queued(conf'.fSpkQueue[2], t) # {}
                             \/ conf'.mic_state[t] = "CLOSE" \/ t \in streams
                             \/ ~FsRoom(conf', 2)
<1>1. MicInv /\ [Next]_vars => [NoneLost]_vars
  <2> SUFFICES ASSUME MicInv, [Next]_vars, conf.edis_mode = "LIMIT",
                      conf'.currect_first_index # MaxApply,
                      NEW t \in Applicants(conf) \ Applicants(conf')
               PROVE  \/ Queued(conf'.fSpkQueue[2], t) # {}
                      \/ conf'.mic_state[t] = "CLOSE" \/ t \in streams
                      \/ ~FsRoom(conf', 2)
    OBVIOUS
  <2>1. Remembered(conf, conf')
    BY StepMicInv
  <2>2. t \in Terminals /\ PriorOf[t] = 2
    BY ApplicantFacts DEF MicInv, Common
  <2> QED
    BY <2>1, <2>2 DEF Remembered, First
<1> HIDE DEF NoneLost
<1> QED
  BY MicInvariant, <1>1, PTL DEF Spec, NoApplicantForgotten, NoneLost

=============================================================================
