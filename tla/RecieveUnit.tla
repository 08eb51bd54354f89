---------------------------- MODULE RecieveUnit ----------------------------
(***************************************************************************)
(* The receive channels of the central control units                       *)
(* (lib/host_connect/central_control_recieve_unit.c): a talker is heard by *)
(* connecting its stream to a channel of a unit.  Each unit keeps a list   *)
(* of its unconnected and one of its connected channels; a channel with a  *)
(* command on its way is "handling" and is not given another one.  The     *)
(* observer of the connection subject moves a channel when the answer to   *)
(* its command arrives.                                                    *)
(*                                                                         *)
(* The module has the state and its operations; MicManager uses them.      *)
(***************************************************************************)
EXTENDS Naturals, Sequences, SequencesExt

CONSTANTS
    Terminals,    \* the talkers
    NoTerminal,   \* tarker_id 0
    ChannelsOf,   \* the channels of each unit, in the order they were found
    PerUnitMax    \* PER_CCU_CONNECT_MAX_NUM

Units == DOMAIN ChannelsOf
Channels == UNION {ToSet(ChannelsOf[u]) : u \in Units}

(* The units are gccu_recieve_model_list, and no channel belongs to two. *)
ASSUME RecieveUnitAssumption ==
    /\ ChannelsOf # <<>> /\ ChannelsOf \in Seq(Seq(Channels))
    /\ PerUnitMax \in Nat \ {0}
    /\ NoTerminal \notin Terminals
    /\ \A u \in Units : IsInjective(ChannelsOf[u])
    /\ \A u, w \in Units :
          u # w => ToSet(ChannelsOf[u]) \cap ToSet(ChannelsOf[w]) = {}

VARIABLES
    unconnected,  \* unconnect_channel_head of each unit
    connected,    \* connect_channel_head
    tarker,       \* tarker_id of each channel
    handling,     \* channels whose pro_status is INCHANNEL_PRO_HANDLING
    unitNum,      \* chanel_connect_num of each unit
    cnntNum       \* gchannel_allot_pro.cnnt_num

channelVars == <<unconnected, connected, tarker, handling, unitNum, cnntNum>>

ChannelsTypeOK ==
    /\ unconnected \in [Units -> Seq(Channels)]
    /\ connected \in [Units -> Seq(Channels)]
    /\ tarker \in [Channels -> Terminals \cup {NoTerminal}]
    /\ handling \subseteq Channels
    /\ unitNum \in [Units -> Nat]
    /\ cnntNum \in Nat

ChannelsInit ==
    /\ unconnected = ChannelsOf
    /\ connected = [u \in Units |-> <<>>]
    /\ tarker = [c \in Channels |-> NoTerminal]
    /\ handling = {}
    /\ unitNum = [u \in Units |-> 0]
    /\ cnntNum = 0

(* CHANNEL_MUX_NUM: the connections of all the units together. *)
ChannelMux == Len(ChannelsOf) * PerUnitMax

(* The connections the host believes in, and their channels. *)
InUse == UNION {ToSet(connected[u]) : u \in Units}
Recorded == {<<tarker[c], c>> : c \in InUse}

(* ccu_recv_model_talker_connected *)
IsConnected(t) == \E c \in Channels : <<t, c>> \in Recorded

(* The channels a talker may be given: the head of the unconnected list of *)
(* a unit, unless it is being handled; the others are not looked at.  The  *)
(* code takes the one with the fewest connections so far.                  *)
Available ==
    {Head(unconnected[u]) : u \in {w \in Units :
        /\ unconnected[w] # <<>>
        /\ unitNum[w] < PerUnitMax
        /\ Head(unconnected[w]) \notin handling}}

(* ccu_recv_model_talk finds a channel ... *)
Talkable == cnntNum < ChannelMux /\ Available # {}

(* ... and ccu_recv_model_untalk the one the talker is connected to. *)
Untalkable(t) == {c \in Channels \ handling : <<t, c>> \in Recorded}

(* Both mark the channel when its command is sent. *)
Handle(c) ==
    /\ handling' = handling \cup {c}
    /\ UNCHANGED <<unconnected, connected, tarker, unitNum, cnntNum>>

-----------------------------------------------------------------------------
(* central_control_recieve_ccu_model_state_update *)

(* The loop over the units ends after the first one: finish is TRUE from   *)
(* the start.                                                              *)
SearchedUnits == {1}

(* list_del *)
Without(s, c) == RemoveAt(s, CHOOSE i \in DOMAIN s : s[i] = c)

RecordConnect(c, t) ==
    \E u \in SearchedUnits :
        /\ Contains(unconnected[u], c)
        /\ unconnected' = [unconnected EXCEPT ![u] = Without(@, c)]
        /\ connected' = [connected EXCEPT ![u] = Append(@, c)]
        /\ tarker' = [tarker EXCEPT ![c] = t]
        /\ handling' = handling \ {c}
        /\ unitNum' = [unitNum EXCEPT ![u] = @ + 1]
        /\ cnntNum' = cnntNum + 1

RecordFailure(c) ==
    \E u \in SearchedUnits :
        /\ Contains(unconnected[u], c)
        /\ tarker' = [tarker EXCEPT ![c] = NoTerminal]
        /\ handling' = handling \ {c}
        /\ UNCHANGED <<unconnected, connected, unitNum, cnntNum>>

RecordDisconnect(c) ==
    \E u \in SearchedUnits :
        /\ Contains(connected[u], c)
        /\ connected' = [connected EXCEPT ![u] = Without(@, c)]
        /\ unconnected' = [unconnected EXCEPT ![u] = Append(@, c)]
        /\ tarker' = [tarker EXCEPT ![c] = NoTerminal]
        /\ handling' = handling \ {c}
        /\ unitNum' = [unitNum EXCEPT ![u] = @ - 1]
        /\ cnntNum' = cnntNum - 1

(* Mutation: a connect command that failed counts as well. *)
ConnectFlagOfCommand(cmd, outcome) == cmd = "connect"

(* connect_flag: set by the success of a connect command only, so that a   *)
(* disconnect command that failed ends as one that succeeded.              *)
ConnectFlag(cmd, outcome) == cmd = "connect" /\ outcome = "success"

(* Nothing to move: a channel of a unit not searched, or a connect success *)
(* for a channel already on the connected list.                            *)
NotFound(c, flag) ==
    \A u \in SearchedUnits :
        /\ ~Contains(unconnected[u], c)
        /\ flag \/ ~Contains(connected[u], c)

(* An answer of status outcome to the command cmd for talker t, channel c. *)
(* A timeout carries the type of the command and is not an answer.         *)
RecordOutcome(cmd, outcome, t, c) ==
    LET flag == ConnectFlag(cmd, outcome) IN
    IF outcome = "timeout" \/ NotFound(c, flag)
    THEN UNCHANGED channelVars
    ELSE \/ flag /\ RecordConnect(c, t)
         \/ ~flag /\ RecordFailure(c)
         \/ ~flag /\ RecordDisconnect(c)
=============================================================================
