----------------------------- MODULE Enumeration -----------------------------
(***************************************************************************)
(* How the receive channels come to be and go                              *)
(* (the ADP case of lib/packet_events/handle_1722_packet_from_raw.c,       *)
(* proc_read_desc_resp of lib/end_station_manager/end_station_prcs.c and   *)
(* lib/host_connect/central_control_recieve_unit.c).                       *)
(*                                                                         *)
(* A central control unit that advertises itself is read: its entity       *)
(* descriptor, then its configuration, then every stream input, each of    *)
(* which becomes a channel of a slot of gccu_recieve_model_list.  A read   *)
(* is sent twice at most, so it is answered never, once or twice, and a    *)
(* read that is given up is not repeated.  A unit that restarts is         *)
(* released and read again.  All of this is the epoll thread; the receive  *)
(* thread gives the channels to talkers, and finds a channel before it     *)
(* takes the mutex under which it uses it.                                 *)
(*                                                                         *)
(* RecieveUnit has the same lists without their coming and going, for      *)
(* MicManager.                                                             *)
(***************************************************************************)
EXTENDS SequencesExt, Naturals

CONSTANTS
    Units,
    NoUnit,         \* entity_id 0
    NumChannels,    \* CCU_APIECE_TR_MODEL_CHANNEL_MAX_NUM
    MaxSlots,       \* CCU_TR_MODEL_MAX_NUM
    PerUnitMax,     \* PER_CCU_CONNECT_MAX_NUM
    ChannelMux,     \* CHANNEL_MUX_NUM
    Talkers,
    NoTalker,       \* tarker_id 0
    ByteValues,     \* 2^8: the counters are uint8_t
    MaxFaults,      \* bound on the reads not answered just once, the restarts
                    \* of units and the units whose time is over, together, per unit
    MaxTalks        \* bound on the calls of ccu_recv_model_talk

Inputs == 1 .. NumChannels
Slots == 1 .. MaxSlots

ASSUME EnumerationAssumption ==
    /\ NoUnit \notin Units /\ NoTalker \notin Talkers
    /\ NumChannels \in Nat \ {0} /\ MaxSlots \in Nat \ {0}
    /\ PerUnitMax \in Nat \ {0} /\ ChannelMux \in Nat \ {0}
    /\ ByteValues \in Nat /\ ByteValues > MaxSlots * NumChannels
    /\ MaxFaults \in [Units -> Nat] /\ MaxTalks \in Nat

VARIABLES
    entity,     \* endpoint_list: connect_flag of each unit, once known
    desc,       \* descptor_guard: what is stored of each unit
    owed,       \* answers on their way, per read
    unit,       \* entity_id of each slot
    solid,      \* whether its solid_pnode is set
    state,      \* its model_state
    free,       \* its unconnect_channel_head
    busy,       \* its connect_channel_head
    channels,   \* its channel_num
    num,        \* its chanel_connect_num
    talker,     \* tarker_id of each channel node
    handling,   \* nodes whose pro_status is INCHANNEL_PRO_HANDLING
    elemNum,    \* gchannel_allot_pro.elem_num ...
    canUse,     \* ... elem_can_use_num ...
    cnntNum,    \* ... and cnnt_num
    epc,        \* where the epoll thread is
    at,         \* the slot it releases, else 0
    current,    \* p_current_input_channel between finding and using it,
                \* with the talker it is for, or <<>>
    commands,   \* connection commands on their way
    lost,       \* ghost: units with a read that was given up
    twice,      \* ghost: units with a read that was answered twice
    restarted,  \* ghost: units that were read again
    faults, talks  \* history: bounds

entityVars == <<entity, desc, owed>>
slotVars == <<unit, solid, state>>
listVars == <<free, busy, channels, num, talker, handling>>
countVars == <<elemNum, canUse, cnntNum>>
epollVars == <<epc, at>>
ghostVars == <<lost, twice, restarted>>
boundVars == <<faults, talks>>
vars == <<entityVars, slotVars, listVars, countVars, epollVars, current, commands,
          ghostVars, boundVars>>

Reads == {<<u, "entity", 0>> : u \in Units} \cup {<<u, "config", 0>> : u \in Units}
         \cup {<<u, "input", i>> : u \in Units, i \in Inputs}

NoDesc == [node |-> FALSE, named |-> FALSE, conf |-> FALSE]

(* The nodes of one stream input are told apart by a number. *)
Nodes == DOMAIN talker
NodesOf(u, i) == {n \in Nodes : n[1] = u /\ n[2] = i}
IsOf(n, u, i) == n[1] = u /\ n[2] = i

Init ==
    /\ entity = [u \in Units |-> "unknown"]
    /\ desc = [u \in Units |-> NoDesc]
    /\ owed = [r \in Reads |-> 0]
    /\ unit = [s \in Slots |-> NoUnit]
    /\ solid = [s \in Slots |-> FALSE]
    /\ state = [s \in Slots |-> "uninit"]
    /\ free = [s \in Slots |-> <<>>] /\ busy = [s \in Slots |-> <<>>]
    /\ channels = [s \in Slots |-> 0] /\ num = [s \in Slots |-> 0]
    /\ talker = <<>> /\ handling = {}
    /\ elemNum = 0 /\ canUse = 0 /\ cnntNum = 0
    /\ epc = "poll" /\ at = 0
    /\ current = <<>> /\ commands = {}
    /\ lost = {} /\ twice = {} /\ restarted = {}
    /\ faults = [u \in Units |-> 0] /\ talks = 0

First(S) == CHOOSE s \in S : \A r \in S : s <= r
Polling == epc = "poll"

-----------------------------------------------------------------------------
(* Reads and their answers *)

(* aecp_read_desc_init for each read of rs, on top of the answers owed and *)
(* the faults before.  How often a read is answered is chosen here: once,  *)
(* as a rule; twice, when the command and its resend are; never, when      *)
(* neither is, or with an error, which stores nothing.                     *)
Read(u, rs, answers, before) ==
    \E n \in [rs -> 0 .. 2] :
        LET Odd(k) == {r \in rs : n[r] = k} IN
        /\ faults' = [faults EXCEPT ![u] = before + Cardinality(Odd(0) \cup Odd(2))]
        /\ faults'[u] <= MaxFaults[u]
        /\ owed' = [r \in Reads |-> answers[r] + (IF r \in rs THEN n[r] ELSE 0)]
        /\ lost' = IF Odd(0) = {} THEN lost ELSE lost \cup {u}
        /\ twice' = IF Odd(2) = {} THEN twice ELSE twice \cup {u}

Answered(r) == [owed EXCEPT ![r] = @ - 1]

(* The name is stored with the node, and only then. *)
AnswerEntity(u) ==
    LET r == <<u, "entity", 0>> IN
    /\ Polling /\ owed[r] > 0
    /\ desc' = IF desc[u].node THEN desc
               ELSE [desc EXCEPT ![u] = [node |-> TRUE, named |-> TRUE, conf |-> FALSE]]
    /\ Read(u, {<<u, "config", 0>>}, Answered(r), faults[u])
    /\ UNCHANGED <<entity, slotVars, listVars, countVars, epollVars, current,
                   commands, restarted, talks>>

(* Mutation: a configuration that is there is stored again. *)
StoresConfigAlways(u) == desc[u].node

(* A configuration is stored once. *)
StoresConfig(u) == desc[u].node /\ ~desc[u].conf

(* Mutation: the reads begin one index too late. *)
InputReadsLate(u) == {<<u, "input", i>> : i \in Inputs \ {1}}

(* queue_background_read_request: as many reads as the configuration says. *)
InputReads(u) == {<<u, "input", i>> : i \in Inputs}

AnswerConfig(u) ==
    LET r == <<u, "config", 0>> IN
    /\ Polling /\ owed[r] > 0
    /\ IF StoresConfig(u)
       THEN /\ desc' = [desc EXCEPT ![u].conf = TRUE]
            /\ Read(u, InputReads(u), Answered(r), faults[u])
       ELSE /\ owed' = Answered(r)
            /\ UNCHANGED <<desc, lost, twice, faults>>
    /\ UNCHANGED <<entity, slotVars, listVars, countVars, epollVars, current,
                   commands, restarted, talks>>

-----------------------------------------------------------------------------
(* init_central_control_recieve_unit_by_entity_id *)

(* A slot of the unit that is not full, else the first that was never      *)
(* used; 0 if there is none.                                               *)
Open(u) == {s \in Slots : state[s] = "ok" /\ unit[s] = u}
Unused == {s \in Slots : state[s] = "uninit" /\ unit[s] = NoUnit}
SlotFor(u) ==
    IF Open(u) # {} THEN First(Open(u))
    ELSE IF Unused # {} THEN First(Unused) ELSE 0

(* Only the unconnected channels of the slot are compared. *)
InFree(s, u, i) == \E k \in DOMAIN free[s] : IsOf(free[s][k], u, i)

(* A slot that lists all inputs is CCU_RECIEVE_MODEL_ALL_CHANNEL_INIT. *)
Enlist(s, u, i) ==
    LET n == <<u, i, Cardinality(NodesOf(u, i)) + 1>> IN
    /\ unit' = [unit EXCEPT ![s] = u]
    /\ solid' = [solid EXCEPT ![s] = TRUE]
    /\ channels' = [channels EXCEPT ![s] = @ + 1]
    /\ state' = [state EXCEPT ![s] = IF channels'[s] >= NumChannels THEN "all" ELSE "ok"]
    /\ free' = [free EXCEPT ![s] = Append(@, n)]
    /\ talker' = [m \in Nodes \cup {n} |-> IF m = n THEN NoTalker ELSE talker[m]]
    /\ elemNum' = elemNum + 1
    /\ canUse' = IF channels'[s] <= PerUnitMax THEN canUse + 1 ELSE canUse
    /\ UNCHANGED <<busy, num, handling, cnntNum>>

(* An answer counts while the configuration is stored, and a unit is known *)
(* as a receive unit by its name.                                          *)
AnswerInput(u, i) ==
    LET r == <<u, "input", i>>
        s == SlotFor(u)
    IN
    /\ Polling /\ owed[r] > 0
    /\ owed' = Answered(r)
    /\ IF desc[u].conf /\ desc[u].named /\ s # 0 /\ ~(s \in Slots /\ InFree(s, u, i))
       THEN Enlist(s, u, i)
       ELSE UNCHANGED <<slotVars, listVars, countVars>>
    /\ UNCHANGED <<entity, desc, epollVars, current, commands, ghostVars, boundVars>>

-----------------------------------------------------------------------------
(* Advertisements, and the time a unit stays valid *)

Discover(u) ==
    /\ Polling /\ entity[u] = "unknown"
    /\ entity' = [entity EXCEPT ![u] = "connect"]
    /\ Read(u, {<<u, "entity", 0>>}, owed, faults[u])
    /\ UNCHANGED <<desc, slotVars, listVars, countVars, epollVars, current,
                   commands, restarted, talks>>

(* adp_entity_time_tick: nothing but the flag changes ... *)
Depart(u) ==
    /\ Polling /\ entity[u] = "connect"
    /\ faults[u] < MaxFaults[u] /\ faults' = [faults EXCEPT ![u] = @ + 1]
    /\ entity' = [entity EXCEPT ![u] = "disconnect"]
    /\ UNCHANGED <<desc, owed, slotVars, listVars, countVars, epollVars, current,
                   commands, ghostVars, talks>>

(* ... and back when the unit is heard again. *)
Refresh(u) ==
    /\ Polling /\ entity[u] = "disconnect"
    /\ entity' = [entity EXCEPT ![u] = "connect"]
    /\ UNCHANGED <<desc, owed, slotVars, listVars, countVars, epollVars, current,
                   commands, ghostVars, boundVars>>

(* Mutation: any slot in use is taken for the unit's. *)
SlotsOfAny(u) == {s \in Slots : unit[s] # NoUnit}

SlotsOf(u) == {s \in Slots : unit[s] = u}

(* An advertisement with a lower available_index: the unit has restarted.  *)
(* What is stored of it is cleared, its name becomes "UNKNOWN", and its    *)
(* slot is released; a unit nothing is stored of is only read again.       *)
Restart(u) ==
    /\ Polling /\ entity[u] # "unknown"
    /\ faults[u] < MaxFaults[u]
    /\ restarted' = restarted \cup {u}
    /\ desc' = [desc EXCEPT ![u].named = FALSE, ![u].conf = FALSE]
    /\ IF desc[u].node /\ SlotsOf(u) # {}
       THEN /\ epc' = "release" /\ at' = First(SlotsOf(u))
            /\ faults' = [faults EXCEPT ![u] = @ + 1]
            /\ UNCHANGED <<entity, owed, lost, twice>>
       ELSE /\ entity' = [entity EXCEPT ![u] = "connect"]
            /\ Read(u, {<<u, "entity", 0>>}, owed, faults[u] + 1)
            /\ UNCHANGED epollVars
    /\ UNCHANGED <<slotVars, listVars, countVars, current, commands, talks>>

Down(n) == (n + ByteValues - 1) % ByteValues

(* central_control_recieve_uinit_free_connect_node, without the mutex.     *)
(* The loop moves the node it stands on to the tail of the other list, so  *)
(* the next node is the head of that list, which is not where it ends ...  *)
ReleaseNode ==
    /\ epc = "release" /\ busy[at] # <<>>
    /\ LET n == Head(busy[at]) IN
       /\ busy' = [busy EXCEPT ![at] = Tail(@)]
       /\ free' = [free EXCEPT ![at] = Append(@, n)]
       /\ talker' = [talker EXCEPT ![n] = NoTalker]
       /\ handling' = handling \ {n}
    /\ num' = [num EXCEPT ![at] = Down(@)]
    /\ cnntNum' = Down(cnntNum)
    /\ epc' = "astray"
    /\ UNCHANGED <<entityVars, slotVars, channels, elemNum, canUse, at, current,
                   commands, ghostVars, boundVars>>

(* ... and every turn takes that head out and puts it in again, followed   *)
(* by itself: the list is empty from then on.                              *)
ReleaseHead ==
    /\ epc = "astray"
    /\ free' = [free EXCEPT ![at] = <<>>]
    /\ num' = [num EXCEPT ![at] = Down(@)]
    /\ cnntNum' = Down(cnntNum)
    /\ UNCHANGED <<entityVars, slotVars, busy, channels, talker, handling, elemNum,
                   canUse, epollVars, current, commands, ghostVars, boundVars>>

(* Without a connected channel the slot is given up; it is not used again. *)
ReleaseDone ==
    /\ epc = "release" /\ busy[at] = <<>>
    /\ unit' = [unit EXCEPT ![at] = NoUnit]
    /\ solid' = [solid EXCEPT ![at] = FALSE]
    /\ epc' = "poll" /\ at' = 0
    /\ entity' = [entity EXCEPT ![unit[at]] = "connect"]
    /\ Read(unit[at], {<<unit[at], "entity", 0>>}, owed, faults[unit[at]])
    /\ UNCHANGED <<desc, state, listVars, countVars, current, commands, restarted, talks>>

-----------------------------------------------------------------------------
(* The receive thread *)

(* Slots whose unit is there. *)
Present(s) == solid[s] /\ entity[unit[s]] = "connect"

(* central_control_search_connect_by_arithmetic *)
Available ==
    {Head(free[s]) : s \in {w \in Slots :
        /\ Present(w) /\ num[w] < PerUnitMax
        /\ free[w] # <<>> /\ Head(free[w]) \notin handling}}

(* ccu_recv_model_talk finds a channel ... *)
Find(t) ==
    /\ current = <<>> /\ talks < MaxTalks /\ talks' = talks + 1
    /\ elemNum # 0 /\ cnntNum < ChannelMux
    /\ \E n \in Available : current' = <<n, t>>
    /\ UNCHANGED <<entityVars, slotVars, listVars, countVars, epollVars, commands,
                   ghostVars, faults>>

Command(cmd, n, t) == [cmd |-> cmd, unit |-> n[1], input |-> n[2], talker |-> t]

(* ... and sends the command if it is still free. *)
Talk ==
    /\ current # <<>> /\ current' = <<>>
    /\ LET n == current[1] IN
       IF talker[n] = NoTalker
       THEN /\ commands' = commands \cup {Command("connect", n, current[2])}
            /\ handling' = handling \cup {n}
       ELSE UNCHANGED <<commands, handling>>
    /\ UNCHANGED <<entityVars, slotVars, free, busy, channels, num, talker, countVars,
                   epollVars, ghostVars, boundVars>>

(* ccu_recv_model_untalk: the first channel of the talker, unless its unit *)
(* is away; a released slot is searched.                                   *)
Away(s) == solid[s] /\ entity[unit[s]] = "disconnect"
Heard(s, t) == {k \in DOMAIN busy[s] : talker[busy[s][k]] = t}
Hearing(t) == {s \in Slots : ~Away(s) /\ Heard(s, t) # {}}
Untalk(t) ==
    /\ Hearing(t) # {}
    /\ LET s == First(Hearing(t))
           n == busy[s][First(Heard(s, t))]
       IN /\ n \notin handling
          /\ handling' = handling \cup {n}
          /\ commands' = commands \cup {Command("disconnect", n, t)}
    /\ UNCHANGED <<entityVars, slotVars, free, busy, channels, num, talker, countVars,
                   epollVars, current, ghostVars, boundVars>>

-----------------------------------------------------------------------------
(* central_control_recieve_ccu_model_state_update: of the slots only the   *)
(* first is searched.                                                      *)

Matching(list, k) == {j \in DOMAIN list : IsOf(list[j], k.unit, k.input)}

(* Mutation: the connection is not counted. *)
ConnectedUncounted(k) ==
    LET js == Matching(free[1], k)
        n == free[1][First(js)]
    IN
    IF js = {} THEN UNCHANGED <<listVars, cnntNum>>
    ELSE /\ free' = [free EXCEPT ![1] = RemoveAt(@, First(js))]
         /\ busy' = [busy EXCEPT ![1] = Append(@, n)]
         /\ talker' = [talker EXCEPT ![n] = k.talker]
         /\ handling' = handling \ {n}
         /\ num' = [num EXCEPT ![1] = @ + 1]
         /\ UNCHANGED <<channels, cnntNum>>

Connected(k) ==
    LET js == Matching(free[1], k)
        n == free[1][First(js)]
    IN
    IF js = {} THEN UNCHANGED <<listVars, cnntNum>>
    ELSE /\ free' = [free EXCEPT ![1] = RemoveAt(@, First(js))]
         /\ busy' = [busy EXCEPT ![1] = Append(@, n)]
         /\ talker' = [talker EXCEPT ![n] = k.talker]
         /\ handling' = handling \ {n}
         /\ num' = [num EXCEPT ![1] = @ + 1]
         /\ cnntNum' = cnntNum + 1
         /\ UNCHANGED channels

(* Not connected: a failure for the unconnected channels, the end of the   *)
(* connection for a connected one.                                         *)
NotConnected(k) ==
    LET fs == {free[1][j] : j \in Matching(free[1], k)}
        js == Matching(busy[1], k)
        n == busy[1][First(js)]
        freed == fs \cup (IF js = {} THEN {} ELSE {n})
    IN
    /\ talker' = [m \in Nodes |-> IF m \in freed THEN NoTalker ELSE talker[m]]
    /\ handling' = handling \ freed
    /\ IF js = {} THEN UNCHANGED <<free, busy, num, cnntNum>>
       ELSE /\ busy' = [busy EXCEPT ![1] = RemoveAt(@, First(js))]
            /\ free' = [free EXCEPT ![1] = Append(@, n)]
            /\ num' = [num EXCEPT ![1] = Down(@)]
            /\ cnntNum' = Down(cnntNum)
    /\ UNCHANGED channels

(* A command ends by an answer or, with the lists as they are, by its      *)
(* timeout.                                                                *)
Conclude(k, outcome) ==
    /\ Polling /\ k \in commands /\ commands' = commands \ {k}
    /\ IF outcome = "timeout" THEN UNCHANGED <<listVars, cnntNum>>
       ELSE IF k.cmd = "connect" /\ outcome = "success" THEN Connected(k)
       ELSE NotConnected(k)
    /\ UNCHANGED <<entityVars, slotVars, elemNum, canUse, epollVars, current,
                   ghostVars, boundVars>>

-----------------------------------------------------------------------------
Answer == \E u \in Units :
    AnswerEntity(u) \/ AnswerConfig(u) \/ \E i \in Inputs : AnswerInput(u, i)
Release == ReleaseNode \/ ReleaseHead \/ ReleaseDone
Advertise == \E u \in Units : Discover(u) \/ Refresh(u) \/ Restart(u)

Next ==
    \/ Answer \/ Release \/ Advertise
    \/ \E u \in Units : Depart(u)
    \/ \E t \in Talkers : Find(t) \/ Untalk(t)
    \/ Talk
    \/ \E k \in commands, outcome \in {"success", "failure", "timeout"} :
           Conclude(k, outcome)

(* The epoll thread takes the frames that come and goes on with what it    *)
(* has begun.  Nothing is asked of the units or of talkers.                *)
Fairness == WF_vars(Answer) /\ WF_vars(Release)

Spec == Init /\ [][Next]_vars /\ Fairness

-----------------------------------------------------------------------------
(* Properties *)

Astray == epc = "astray"
CommandSet == [cmd : {"connect", "disconnect"}, unit : Units, input : Inputs,
               talker : Talkers]

(* Every variable holds what the code can store in it. *)
TypeOK ==
    /\ entity \in [Units -> {"unknown", "connect", "disconnect"}]
    /\ desc \in [Units -> [node : BOOLEAN, named : BOOLEAN, conf : BOOLEAN]]
    /\ owed \in [Reads -> Nat]
    /\ unit \in [Slots -> Units \cup {NoUnit}] /\ solid \in [Slots -> BOOLEAN]
    /\ state \in [Slots -> {"uninit", "ok", "all"}]
    /\ Nodes \subseteq Units \X Inputs \X Nat
    /\ talker \in [Nodes -> Talkers \cup {NoTalker}] /\ handling \subseteq Nodes
    /\ free \in [Slots -> Seq(Nodes)] /\ busy \in [Slots -> Seq(Nodes)]
    /\ channels \in [Slots -> 0 .. NumChannels]
    /\ num \in [Slots -> 0 .. ByteValues - 1] /\ cnntNum \in 0 .. ByteValues - 1
    /\ elemNum \in Nat /\ canUse \in Nat
    /\ epc \in {"poll", "release", "astray"} /\ at \in Slots \cup {0}
    /\ current \in (Nodes \X Talkers) \cup {<<>>}
    /\ commands \subseteq CommandSet
    /\ lost \subseteq Units /\ twice \subseteq Units /\ restarted \subseteq Units

(* The nodes of the two lists of a slot. *)
Listed(s) == ToSet(free[s]) \cup ToSet(busy[s])

(* The nodes a slot lists are all of one unit, which is the slot's as long *)
(* as it is in use, and stored.                                            *)
SlotsHold ==
    \A s \in Slots :
        /\ \A m, n \in Listed(s) : m[1] = n[1]
        /\ solid[s] <=> unit[s] # NoUnit
        /\ solid[s] => /\ desc[unit[s]].node /\ Listed(s) # {}
                       /\ \A n \in Listed(s) : n[1] = unit[s]
        /\ state[s] = "uninit" <=> Listed(s) = {}
        /\ state[s] = "all" <=> channels[s] = NumChannels

(* Every node is in one list of one slot, once, and on the connected list  *)
(* if it has a talker.                                                     *)
ListsApart ==
    /\ \A s \in Slots : /\ IsInjective(free[s]) /\ IsInjective(busy[s])
                        /\ ToSet(free[s]) \cap ToSet(busy[s]) = {}
    /\ \A s, w \in Slots : s # w => Listed(s) \cap Listed(w) = {}
    /\ UNION {Listed(s) : s \in Slots} = Nodes
    /\ \A n \in Nodes : talker[n] # NoTalker <=> \E s \in Slots : n \in ToSet(busy[s])

(* The counters the limits and the speakers of the system are derived from *)
(* are the lengths of the lists: of a slot, and of all slots together.     *)
CountsAgree ==
    /\ \A s \in Slots :
          /\ channels[s] = Len(free[s]) + Len(busy[s])
          /\ num[s] = Len(busy[s])
          /\ (\A n \in ToSet(busy[s]) : n[1] \notin twice) => num[s] <= PerUnitMax
    /\ elemNum = Cardinality(Nodes)
    /\ canUse = Cardinality({p \in Slots \X (1 .. PerUnitMax) : p[2] <= channels[p[1]]})
    /\ cnntNum = Cardinality({n \in Nodes : talker[n] # NoTalker})

(* The slots, their lists and the counters agree, whatever units restart   *)
(* or leave, until a release has gone astray.                              *)
UnitsAgree == TypeOK /\ (~Astray => SlotsHold /\ ListsApart /\ CountsAgree)

(* A stream input is one channel, of one slot, however often the unit is   *)
(* read; only the second answer to a read may double it, because only the  *)
(* unconnected channels of a slot that is not full are compared.           *)
ListedOnce ==
    \A u \in Units : u \notin twice =>
        /\ \A s, w \in Slots : unit[s] = u /\ unit[w] = u => s = w
        /\ \A i \in Inputs : Cardinality(NodesOf(u, i)) <= 1

(* A recorded connection ends when a command for its channel does, or with *)
(* the restart of its unit: nothing else takes a speaker off.              *)
ConnectionsKept ==
    [][\A n \in Nodes :
          talker[n] # NoTalker /\ talker'[n] = NoTalker =>
              \/ \E k \in commands \ commands' :
                     k.unit = n[1] /\ k.input = n[2]
                     /\ (k.cmd = "disconnect" \/ n[1] \in twice)
              \/ epc = "release" /\ n[1] \in restarted]_vars

(* A unit that was heard of has all its channels in the end, unless an     *)
(* answer is lost, which is not asked for again, no slot is left, or it    *)
(* restarts: its name is not stored a second time.                         *)
Enumerated(u) == \A i \in Inputs : NodesOf(u, i) # {}
EnumerationCompletes ==
    \A u \in Units :
        entity[u] # "unknown" ~>
            Enumerated(u) \/ u \in lost \cup restarted \/ Unused = {} \/ Astray

(* "All the connected channels of the id are put on the unconnected list"  *)
(* (the comment of central_control_recieve_uinit_free_connect_node): a     *)
(* release that has begun ends.                                            *)
ReleaseEnds == epc = "release" ~> epc = "poll"
=============================================================================
