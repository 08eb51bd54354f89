------------------------------ MODULE Allotment ------------------------------
(***************************************************************************)
(* The allotment of addresses to terminals                                 *)
(* (lib/conference_host_with_endstation: terminal_func_allot_address and   *)
(* find_new_apply_addr of terminal_pro.c, the allotment queue and the      *)
(* address file of terminal_common.c, terminal_system_func.c).             *)
(*                                                                         *)
(* A terminal asks for an address.  The epoll thread queues the request    *)
(* once; the receive thread takes one request at a time, writes a new      *)
(* address into the table and offers it, and finishes when the terminal    *)
(* confirms it: the address is then appended to the address file, from     *)
(* which the table is loaded when the host restarts.  Without a            *)
(* confirmation in time the slot is taken back, unless a terminal has      *)
(* registered with the address meanwhile.  The operator may start the      *)
(* whole allotment over, from another thread and without the lock.         *)
(* Terminals and the network are the environment: messages are delayed,    *)
(* overtake one another or are never delivered, and a crash may come       *)
(* between any two steps, the two writes to the file included.             *)
(***************************************************************************)
EXTENDS SequencesExt, Integers

CONSTANTS
    Terminals,
    NoTerminal,
    NoAddr,        \* 0xffff
    MaxTerminals,  \* SYSTEM_TMNL_MAX_NUM
    QueueSize,     \* TALLOTCMD_QSIZE
    MaxRequests,   \* bound on the requests that reach the host
    MaxRestarts,   \* bound on the crashes of the host
    MaxReallots    \* bound on the operator starting over

Addrs == 0 .. (MaxTerminals - 1)

ASSUME AllotmentAssumption ==
    /\ NoTerminal \notin Terminals
    /\ NoAddr \notin Int
    /\ MaxTerminals \in Nat \ {0, 1}
    /\ QueueSize \in Nat \ {0, 1}
    /\ MaxRequests \in Nat /\ MaxRestarts \in Nat /\ MaxReallots \in Nat

VARIABLES
    table,      \* tmnl_addr_list: the address in each slot
    index,      \* allot_addr_pro.index
    renewed,    \* allot_addr_pro.renew_flag
    allotQueue, \* l_allotCmdQueue
    cur,        \* l_caQe: the request being served
    saving,     \* the address the receive thread is appending to the file
    searching,  \* the receive thread goes round a full table, and the address
                \* it will return if it ends at slot 0; else NoAddr
    fileNum,    \* the number in the head of the address file ...
    fileRecs,   \* ... and the addresses that follow it
    node,       \* dev_terminal_list_guard: each terminal's node ...
    unbound,    \* ... and the addresses of nodes no terminal answered for
    total,      \* gregister_tmnl_pro.tmn_total
    reallotPc,  \* where the operator's thread is in starting over
    held,       \* the address each terminal believes it has
    offers,     \* addresses on their way to terminals
    confirms,   \* confirmations on their way to the host
    overrun,    \* history: an address was given when no slot was free
    gapLoaded,  \* history: the file loaded did not list the first slots
    requests, restarts, reallots  \* history: bounds

hostVars == <<table, index, renewed, allotQueue, cur, saving, searching, node,
              unbound, total>>
fileVars == <<fileNum, fileRecs>>
termVars == <<held, offers, confirms>>
ghostVars == <<overrun, gapLoaded>>
boundVars == <<requests, restarts, reallots>>
vars == <<hostVars, fileVars, termVars, reallotPc, ghostVars, boundVars>>

Node(a, r, k) == [addr |-> a, rgst |-> r, known |-> k]
NoNode == Node(NoAddr, FALSE, FALSE)
Requests == [term : Terminals, already : BOOLEAN]
Served(t, b, r) == [term |-> t, already |-> b, renew |-> r]
NoRequest == Served(NoTerminal, FALSE, FALSE)

TypeOK ==
    /\ table \in [Addrs -> Addrs \cup {NoAddr}]
    /\ index \in Addrs
    /\ renewed \in BOOLEAN
    /\ allotQueue \in Seq(Requests) /\ Len(allotQueue) < QueueSize
    /\ cur \in [term : Terminals, already : BOOLEAN, renew : BOOLEAN]
               \cup {NoRequest}
    /\ saving \in Addrs \cup {NoAddr} /\ searching \in Addrs \cup {NoAddr}
    /\ fileNum \in Nat /\ fileRecs \in Seq(Addrs)
    /\ node \in [Terminals -> [addr : Addrs \cup {NoAddr}, rgst : BOOLEAN,
                               known : BOOLEAN]]
    /\ unbound \subseteq Addrs /\ total \in Nat
    /\ reallotPc \in {"idle", "table", "nodes", "file", "send"}
    /\ held \in [Terminals -> Addrs \cup {NoAddr}]
    /\ offers \subseteq (Terminals \X (Addrs \cup {NoAddr}))
    /\ confirms \subseteq Terminals
    /\ overrun \in BOOLEAN /\ gapLoaded \in BOOLEAN
    /\ requests \in 0 .. MaxRequests
    /\ restarts \in 0 .. MaxRestarts
    /\ reallots \in 0 .. MaxReallots

-----------------------------------------------------------------------------
(* l_allotMutex, which the receive thread holds while it serves. *)
LockFree == saving = NoAddr /\ searching = NoAddr

(* The table. *)

EmptyTable == [s \in Addrs |-> NoAddr]
Listed(a) == \E s \in Addrs : table[s] = a
HasNode(a) == a \in unbound \/ \E t \in Terminals : node[t].addr = a

(* The first free slot after index, going round. *)
FreeSlots == {s \in Addrs : table[s] = NoAddr}
NextFree ==
    LET Ahead(s) == (s - index) % MaxTerminals
    IN CHOOSE s \in FreeSlots : \A r \in FreeSlots : Ahead(s) <= Ahead(r)

(* Mutation: the address is counted from the current slot on. *)
NewAddrsAhead ==
    IF FreeSlots # {} THEN {<<(NextFree - index) % MaxTerminals, NextFree>>}
    ELSE {<<a, 0>> : a \in Addrs \cup {NoAddr}}

(* find_new_apply_addr: the address and slot it may return.  Addresses     *)
(* start at 0, so a slot's own address is its number.  When no slot is     *)
(* free the search ends where it began: the result is what the slot after  *)
(* the current one holds, which at the end of the table is whatever        *)
(* follows it in memory, and the slot is left at the caller's 0.           *)
NewAddrs ==
    IF FreeSlots # {} THEN {<<NextFree, NextFree>>}
    ELSE {<<a, 0>> : a \in IF index + 1 < MaxTerminals
                           THEN {table[index + 1]} ELSE Addrs \cup {NoAddr}}

(* A search that begins at slot 0 never comes back to it: the position is  *)
(* compared after it is stepped and before it is taken modulo the size.    *)
Endless == FreeSlots = {} /\ index = 0

Init ==
    /\ table = EmptyTable /\ index = 0 /\ renewed = FALSE
    /\ allotQueue = <<>> /\ cur = NoRequest
    /\ saving = NoAddr /\ searching = NoAddr
    /\ fileNum = 0 /\ fileRecs = <<>>
    /\ node = [t \in Terminals |-> NoNode] /\ unbound = {} /\ total = 0
    /\ reallotPc = "idle"
    /\ held = [t \in Terminals |-> NoAddr] /\ offers = {} /\ confirms = {}
    /\ overrun = FALSE /\ gapLoaded = FALSE
    /\ requests = 0 /\ restarts = 0 /\ reallots = 0

-----------------------------------------------------------------------------
(* The epoll thread: frames of terminals. *)

(* A terminal that is not in the list gets a node without an address. *)
Meet(t) == [node EXCEPT ![t] = Node(@.addr, @.rgst, TRUE)]

(* A request is queued once, and not while it is being served; the lock is *)
(* held while the receive thread serves.  A full queue drops it.           *)
RecvRequest(t) ==
    /\ requests < MaxRequests /\ requests' = requests + 1
    /\ LockFree
    /\ node' = Meet(t)
    /\ LET request == [term |-> t, already |-> held[t] # NoAddr]
           waiting == \E i \in DOMAIN allotQueue : allotQueue[i].term = t
       IN allotQueue' =
              IF waiting \/ cur.term = t \/ Len(allotQueue) = QueueSize - 1
              THEN allotQueue ELSE Append(allotQueue, request)
    /\ UNCHANGED <<table, index, renewed, cur, saving, searching, unbound,
                   total, fileVars, termVars, reallotPc, ghostVars, restarts,
                   reallots>>

(* A confirmation counts for the request being served, if it is of the     *)
(* same terminal.                                                          *)
RecvConfirm(t) ==
    /\ t \in confirms /\ LockFree
    /\ confirms' = confirms \ {t}
    /\ node' = Meet(t)
    /\ cur' = IF cur.term = t THEN Served(t, cur.already, TRUE) ELSE cur
    /\ UNCHANGED <<table, index, renewed, allotQueue, saving, searching,
                   unbound, total, fileVars, held, offers, reallotPc,
                   ghostVars, boundVars>>

(* terminal_register. *)
Registered(n, a) ==
    IF ~n.rgst /\ Listed(a) THEN Node(a, TRUE, n.known) ELSE n

(* An answer to a query for an address: the node is found by the terminal, *)
(* or else by the address, which takes over another terminal's node.       *)
RecvRegistration(t) ==
    LET a == held[t]
        known == Registered(Node(node[t].addr, node[t].rgst, TRUE), a)
        Taken(n) == Registered(Node(a, n.rgst, TRUE), a)
    IN
    /\ a # NoAddr
    /\ \/ /\ node[t].known \/ ~HasNode(a)
          /\ node' = [node EXCEPT ![t] = known]
          /\ UNCHANGED unbound
       \/ /\ ~node[t].known /\ a \in unbound
          /\ node' = [node EXCEPT ![t] = Taken(NoNode)]
          /\ unbound' = unbound \ {a}
       \/ /\ ~node[t].known
          /\ \E u \in Terminals \ {t} :
                /\ node[u].addr = a
                /\ node' = [node EXCEPT ![u] = NoNode, ![t] = Taken(node[u])]
          /\ UNCHANGED unbound
    /\ UNCHANGED <<table, index, renewed, allotQueue, cur, saving, searching,
                   total, fileVars, termVars, reallotPc, ghostVars,
                   boundVars>>

-----------------------------------------------------------------------------
(* The receive thread: Terminal_allotPro. *)

(* The slot and its address become current and the address is offered. *)
Take(t, slot, a) ==
    /\ table' = [table EXCEPT ![slot] = a]
    /\ index' = slot /\ renewed' = FALSE
    /\ offers' = offers \cup {<<t, a>>}

OfferCurrent(t) ==
    /\ offers' = offers \cup {<<t, table[index]>>}
    /\ UNCHANGED <<table, index, renewed, searching, overrun>>

OfferNew(t) ==
    /\ IF Endless
       THEN /\ searching' = table[1]
            /\ UNCHANGED <<table, index, renewed, offers>>
       ELSE /\ \E new \in NewAddrs : Take(t, new[2], new[1])
            /\ UNCHANGED searching
    /\ overrun' = (overrun \/ FreeSlots = {})

(* Mutation: the current address is offered again when it is saved already. *)
AllotAgain(request) ==
    IF request.already /\ table[index] # NoAddr
    THEN OfferCurrent(request.term) ELSE OfferNew(request.term)

(* terminal_func_allot_address for a request: the pending address again if *)
(* the terminal says it has one, a new one otherwise.                      *)
Allot(request) ==
    IF request.already /\ ~renewed /\ table[index] # NoAddr
    THEN OfferCurrent(request.term) ELSE OfferNew(request.term)

AllotBegin ==
    /\ LockFree /\ cur = NoRequest /\ allotQueue # <<>>
    /\ allotQueue' = Tail(allotQueue)
    /\ Allot(Head(allotQueue))
    /\ cur' = Served(Head(allotQueue).term, Head(allotQueue).already, FALSE)
    /\ UNCHANGED <<saving, node, unbound, total, fileVars, held, confirms,
                   reallotPc, gapLoaded, boundVars>>

(* Only the operator starting over frees slots under the search.  It takes *)
(* whichever free one it looks at first; at slot 0 it returns the address  *)
(* it had read before the search.                                          *)
SearchEnds ==
    /\ searching # NoAddr
    /\ \E s \in FreeSlots :
          Take(cur.term, s, IF s = 0 THEN searching ELSE s)
    /\ searching' = NoAddr
    /\ UNCHANGED <<allotQueue, cur, saving, node, unbound, total, fileVars,
                   held, confirms, reallotPc, ghostVars, boundVars>>

(* The request waited too long in the queue. *)
AllotStale ==
    /\ LockFree /\ cur = NoRequest /\ allotQueue # <<>>
    /\ allotQueue' = Tail(allotQueue)
    /\ UNCHANGED <<table, index, renewed, cur, saving, searching, node,
                   unbound, total, fileVars, termVars, reallotPc, ghostVars,
                   boundVars>>

(* A confirmation of an address that is still pending is saved: first the  *)
(* number in the head of the file, then the address at its end.            *)
AllotFinish ==
    /\ LockFree /\ cur.renew
    /\ IF table[index] # NoAddr /\ ~renewed
       THEN /\ renewed' = TRUE
            /\ fileNum' = fileNum + 1
            /\ saving' = table[index]
            /\ UNCHANGED cur
       ELSE /\ cur' = NoRequest
            /\ UNCHANGED <<renewed, fileNum, saving>>
    /\ UNCHANGED <<table, index, allotQueue, searching, node, unbound, total,
                   fileRecs, termVars, reallotPc, ghostVars, boundVars>>

WriteRecord ==
    /\ saving # NoAddr
    /\ fileRecs' = Append(fileRecs, saving)
    /\ saving' = NoAddr /\ cur' = NoRequest
    /\ total' = total + 1
    /\ UNCHANGED <<table, index, renewed, allotQueue, searching, node,
                   unbound, fileNum, termVars, reallotPc, ghostVars,
                   boundVars>>

(* Mutation: the slot stays taken. *)
AllotExpireKept ==
    /\ LockFree /\ cur # NoRequest
    /\ cur' = NoRequest
    /\ UNCHANGED <<table, index, renewed, allotQueue, saving, searching,
                   node, unbound, total, fileVars, termVars, reallotPc,
                   ghostVars, boundVars>>

(* Mutation: the request ends only when its address can be taken back. *)
AllotExpireUnused ==
    /\ LockFree /\ cur # NoRequest
    /\ ~renewed /\ ~HasNode(table[index])
    /\ cur' = NoRequest
    /\ table' = [table EXCEPT ![index] = NoAddr]
    /\ UNCHANGED <<index, renewed, allotQueue, saving, searching, node,
                   unbound, total, fileVars, termVars, reallotPc, ghostVars,
                   boundVars>>

(* No confirmation in time, or it was not looked at in time: a pending     *)
(* address no terminal has registered with is free again.                  *)
AllotExpire ==
    /\ LockFree /\ cur # NoRequest
    /\ cur' = NoRequest
    /\ table' = IF ~renewed /\ ~HasNode(table[index])
                THEN [table EXCEPT ![index] = NoAddr] ELSE table
    /\ UNCHANGED <<index, renewed, allotQueue, saving, searching, node,
                   unbound, total, fileVars, termVars, reallotPc, ghostVars,
                   boundVars>>

-----------------------------------------------------------------------------
(* terminal_system_reallot_addr: the operator starts the allotment over.   *)

ReallotBegin ==
    /\ reallots < MaxReallots /\ reallots' = reallots + 1
    /\ reallotPc = "idle" /\ reallotPc' = "table"
    /\ index' = 0 /\ renewed' = FALSE
    /\ UNCHANGED <<table, allotQueue, cur, saving, searching, node, unbound,
                   total, fileVars, termVars, ghostVars, requests, restarts>>

ReallotTable ==
    /\ reallotPc = "table" /\ reallotPc' = "nodes"
    /\ table' = EmptyTable
    /\ UNCHANGED <<index, renewed, allotQueue, cur, saving, searching, node,
                   unbound, total, fileVars, termVars, ghostVars, boundVars>>

(* Every node keeps its terminal and loses its address.                    *)
ReallotNodes ==
    /\ reallotPc = "nodes" /\ reallotPc' = "file"
    /\ node' = [t \in Terminals |-> Node(NoAddr, FALSE, node[t].known)]
    /\ unbound' = {}
    /\ UNCHANGED <<table, index, renewed, allotQueue, cur, saving, searching,
                   total, fileVars, termVars, ghostVars, boundVars>>

ReallotFile ==
    /\ reallotPc = "file" /\ reallotPc' = "send"
    /\ fileNum' = 0 /\ fileRecs' = <<>>
    /\ UNCHANGED <<hostVars, termVars, ghostVars, boundVars>>

(* The broadcast: the terminals it reaches forget their addresses.         *)
ReallotSend ==
    /\ reallotPc = "send" /\ reallotPc' = "idle"
    /\ \E reached \in SUBSET Terminals :
          held' = [t \in Terminals |->
                      IF t \in reached THEN NoAddr ELSE held[t]]
    /\ UNCHANGED <<hostVars, fileVars, offers, confirms, ghostVars,
                   boundVars>>

-----------------------------------------------------------------------------
(* The host crashes and starts again: init_terminal_proccess_system.       *)

Readable == fileNum = Len(fileRecs) /\ fileNum \in 1 .. MaxTerminals
Loaded == IF Readable
          THEN [s \in Addrs |->
                   IF s < fileNum THEN fileRecs[s + 1] ELSE NoAddr]
          ELSE EmptyTable

Restart ==
    /\ restarts < MaxRestarts /\ restarts' = restarts + 1
    /\ table' = Loaded
    /\ unbound' = {Loaded[s] : s \in Addrs} \ {NoAddr}
    /\ total' = IF Readable THEN fileNum ELSE 0
    /\ node' = [t \in Terminals |-> NoNode]
    /\ index' = 0 /\ renewed' = FALSE
    /\ allotQueue' = <<>> /\ cur' = NoRequest /\ saving' = NoAddr
    /\ searching' = NoAddr
    /\ reallotPc' = "idle"
    /\ gapLoaded' = (gapLoaded \/ \E s \in Addrs : Loaded[s] \notin {s, NoAddr})
    /\ UNCHANGED <<fileVars, termVars, overrun, requests, reallots>>

-----------------------------------------------------------------------------
(* The terminals. *)

(* A terminal takes the address it is offered and confirms it.             *)
TakeOffer(t, a) ==
    /\ <<t, a>> \in offers
    /\ offers' = offers \ {<<t, a>>}
    /\ held' = [held EXCEPT ![t] = a]
    /\ confirms' = confirms \cup {t}
    /\ UNCHANGED <<hostVars, fileVars, reallotPc, ghostVars, boundVars>>

Allotting == AllotBegin \/ SearchEnds \/ AllotStale \/ AllotFinish
             \/ WriteRecord \/ AllotExpire

Reallotting == ReallotTable \/ ReallotNodes \/ ReallotFile \/ ReallotSend

Next ==
    \/ Allotting
    \/ ReallotBegin \/ Reallotting
    \/ Restart
    \/ \E t \in Terminals :
          \/ RecvRequest(t) \/ RecvConfirm(t) \/ RecvRegistration(t)
          \/ \E a \in Addrs \cup {NoAddr} : TakeOffer(t, a)

(* The receive thread runs Terminal_allotPro on every pass, with a request *)
(* timed by ALLOT_CMD_TIMEOUT; the operator's thread finishes.             *)
Fairness == WF_vars(Allotting) /\ WF_vars(Reallotting)

Spec == Init /\ [][Next]_vars /\ Fairness

-----------------------------------------------------------------------------
(* Properties. *)

(* The operator has not started over and the host has not crashed.         *)
Undisturbed == reallots = 0 /\ restarts = 0

(* A terminal has at most one request with the host, queued or served, in  *)
(* whatever order requests, confirmations and timeouts come: the two       *)
(* places terminal_recv_message_pro looks at (terminal_common.c:598, 631). *)
QueuedOnce ==
    LET Asking == Append([i \in DOMAIN allotQueue |-> allotQueue[i].term],
                         cur.term)
    IN IsInjective(Asking)

(* An address in the table is saved in the file, or is the one pending for *)
(* the request being served, or a terminal has registered with it: every   *)
(* slot a lost confirmation leaves behind is taken back                    *)
(* (Terminal_allotPro, terminal_common.c:814).                             *)
PendingAccounted ==
    Undisturbed =>
        \A s \in Addrs : table[s] # NoAddr =>
            \/ Contains(fileRecs, table[s])
            \/ s = index /\ cur # NoRequest
            \/ HasNode(table[s])

(* While the lock is held for it a request is being served, a full table   *)
(* stays full under the search, and what is being written to the file is   *)
(* what the current slot holds; the slot is marked renewed for as long as  *)
(* its address is in the file.                                             *)
ServingKept ==
    /\ saving # NoAddr \/ searching # NoAddr => cur # NoRequest
    /\ saving = NoAddr \/ searching = NoAddr
    /\ searching # NoAddr => overrun
    /\ reallotPc # "idle" => reallots > 0
    /\ Undisturbed =>
          /\ searching # NoAddr => FreeSlots = {}
          /\ saving # NoAddr => renewed /\ saving = table[index]
          /\ renewed /\ saving = NoAddr /\ table[index] # NoAddr
                => Contains(fileRecs, table[index])

(* A node has an address only once its terminal has registered with it, so *)
(* that a later registration cannot replace it.                            *)
NodesKept ==
    Undisturbed =>
        /\ unbound = {}
        /\ \A t \in Terminals : node[t].addr # NoAddr => node[t].rgst /\ node[t].known

(* The queue, the request served, the table, the file and the nodes agree. *)
RequestsAgree == TypeOK /\ QueuedOnce /\ ServingKept /\ NodesKept /\ PendingAccounted

(* Addresses given before and after a restart are all different, as long   *)
(* as there was a free slot for each and the file that was loaded had its  *)
(* addresses without a gap.                                                *)
AddressesDistinct ==
    \/ overrun \/ gapLoaded
    \/ \A r, s \in Addrs : r # s /\ table[r] # NoAddr => table[r] # table[s]

(* Why: each slot holds the address of its own number, and an address that *)
(* is in the file stays in its slot, which is not offered again.           *)
SlotsInOrder ==
    /\ restarts = 0 => ~gapLoaded
    /\ overrun \/ gapLoaded \/ \A s \in Addrs : table[s] \in {s, NoAddr}
    /\ Undisturbed /\ ~overrun =>
          \A i \in DOMAIN fileRecs : /\ table[fileRecs[i]] = fileRecs[i]
                                     /\ fileRecs[i] = index => renewed

(* What is in the file belongs to the terminal that confirmed it: it is    *)
(* offered to no other, however late requests and confirmations come.      *)
SavedNotOffered ==
    [][Undisturbed' /\ ~overrun' =>
          \A o \in offers' \ offers : ~Contains(fileRecs, o[2])]_vars

(* No address has two owners, in the table or between table and file. *)
AddressesAgree == []AddressesDistinct /\ []SlotsInOrder /\ SavedNotOffered

(* Every request the host has queued is served or dropped, unless the      *)
(* receive thread is caught in a full table.                               *)
RequestsServed ==
    \A t \in Terminals :
        (\E i \in DOMAIN allotQueue : allotQueue[i].term = t)
            ~> \/ \A i \in DOMAIN allotQueue : allotQueue[i].term # t
               \/ searching # NoAddr
=============================================================================
