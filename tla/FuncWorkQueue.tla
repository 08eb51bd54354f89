---------------------------- MODULE FuncWorkQueue ----------------------------
(***************************************************************************)
(* The function work queue fcwork_queue (lib/message_func): whoever has a  *)
(* command of a terminal, of the menu, of the upper computer or of the     *)
(* system itself calls find_func_command_link, which tests the call        *)
(* against tables and flags, appends it to the queue and signals the work  *)
(* thread thread_func_fn, which takes the commands one by one and runs     *)
(* them without the mutex.  A command that runs may itself call            *)
(* find_func_command_link.                                                 *)
(*                                                                         *)
(* The SIGINT handler closes the system.  main ends in pthread_exit, so    *)
(* the handler runs on any of the threads, inside a critical section of    *)
(* theirs too, and never gives that thread back: it ends in exit(0).  The  *)
(* mutex therefore has an owner here, and a thread holds it across steps.  *)
(***************************************************************************)
EXTENDS Naturals, Sequences, FiniteSets

CONSTANTS
    Producers,   \* the threads that call find_func_command_link
    Worker,      \* the thread of thread_func_fn
    Other,       \* the threads that never touch the queue, as one
    NoThread,
    Users,       \* TERMINAL_USE, MENUMENT_USE, SYSTEM_USE, COMPUTER_USE
    Commands,    \* [user : Users, preset : BOOLEAN], those of the tables
    MaxCalls,    \* bound: calls each caller makes
    MaxChanges   \* bound: changes of globle_use_dis and of the system state

ASSUME FuncWorkQueueAssumption ==
    /\ Worker \notin Producers /\ Other \notin Producers \cup {Worker}
    /\ NoThread \notin Producers \cup {Worker, Other}
    /\ Commands \subseteq [user : Users, preset : BOOLEAN] /\ Commands # {}
    /\ MaxCalls \in [Producers \cup {Worker} -> Nat]
    /\ MaxChanges \in Nat

Callers == Producers \cup {Worker}
Threads == Callers \cup {Other}

VARIABLES
    work,       \* fcwork_queue.work, head first
    active,     \* fcwork_queue.control.active
    owner,      \* who holds fcwork_queue.control.mutex
    enabled,    \* the users of globle_use_dis
    inPreset,   \* get_sys_state() is CAMERA_PRESET
    changes,    \* counts the changes of these two, for the bound
    cpc,        \* where each caller is in find_func_command_link
    cmd,        \* the command of its call
    calls,      \* ghost: calls made by each caller, numbers its commands
    wpc,        \* where the work thread is in thread_func_fn
    spc,        \* where system_close is
    host,       \* the thread the SIGINT handler runs on
    accepted,   \* ghost: the commands queued so far, in order
    started     \* ghost: the commands taken from the queue to be run

flagVars == <<enabled, inPreset, changes>>
callVars == <<cpc, cmd, calls>>
closeVars == <<active, spc, host>>
history == <<accepted, started>>
vars == <<work, owner, flagVars, callVars, wpc, closeVars, history>>

Jobs == UNION {[src : {c}, num : 1 .. MaxCalls[c], cmd : Commands] : c \in Callers}

CallSteps == {"idle", "check", "lock", "save", "signal"}
WorkSteps == {"top", "test", "sleep", "waiting", "woken", "run", "ended"}
CloseSteps == {"none", "stopped", "drain", "drained", "inactive", "exit", "exited"}

(* The process exists and the handler has not taken the thread. *)
Runs(t) == spc # "exited" /\ host # t

(* A caller's local, outside a call. *)
NoCommand == CHOOSE k \in Commands : TRUE

Init ==
    /\ work = <<>> /\ active = TRUE /\ owner = NoThread
    /\ enabled = Users /\ inPreset = FALSE /\ changes = 0
    /\ cpc = [c \in Callers |-> "idle"]
    /\ cmd = [c \in Callers |-> NoCommand]
    /\ calls = [c \in Callers |-> 0]
    /\ wpc = "top"
    /\ spc = "none" /\ host = NoThread
    /\ accepted = <<>> /\ started = <<>>

-----------------------------------------------------------------------------
(* find_func_command_link *)

(* The work thread calls it from the command it runs. *)
MayCall(c) == c = Worker => wpc = "run"

(* A closed queue refuses at once.  A message that is too long or not in   *)
(* the tables gets no further either, whatever the state: no step here.    *)
Call(c, k) ==
    /\ Runs(c) /\ cpc[c] = "idle" /\ MayCall(c) /\ calls[c] < MaxCalls[c]
    /\ calls' = [calls EXCEPT ![c] = @ + 1]
    /\ IF active
       THEN cmd' = [cmd EXCEPT ![c] = k] /\ cpc' = [cpc EXCEPT ![c] = "check"]
       ELSE UNCHANGED <<cmd, cpc>>
    /\ UNCHANGED <<work, owner, flagVars, wpc, closeVars, history>>

(* So is one whose user is disabled or whose state is not permitted. *)
Check(c) ==
    /\ Runs(c) /\ cpc[c] = "check"
    /\ LET admitted == cmd[c].user \in enabled /\ (cmd[c].preset => inPreset)
       IN  IF admitted
           THEN cpc' = [cpc EXCEPT ![c] = "lock"] /\ UNCHANGED cmd
           ELSE cpc' = [cpc EXCEPT ![c] = "idle"] /\ cmd' = [cmd EXCEPT ![c] = NoCommand]
    /\ UNCHANGED <<work, owner, flagVars, calls, wpc, closeVars, history>>

Lock(c) ==
    /\ Runs(c) /\ cpc[c] = "lock" /\ owner = NoThread
    /\ owner' = c
    /\ cpc' = [cpc EXCEPT ![c] = "save"]
    /\ UNCHANGED <<work, flagVars, cmd, calls, wpc, closeVars, history>>

Saved(c) ==
    /\ Runs(c) /\ cpc[c] = "save"
    /\ cpc' = [cpc EXCEPT ![c] = "signal"]
    /\ UNCHANGED <<owner, flagVars, cmd, calls, wpc, closeVars, started>>

(* Mutation: the command is put before those that wait. *)
SaveFirst(c) ==
    LET job == [src |-> c, num |-> calls[c], cmd |-> cmd[c]] IN
    /\ Saved(c)
    /\ work' = <<job>> \o work
    /\ accepted' = Append(accepted, job)

(* func_command_work_queue_messag_save and queue_push ... *)
Save(c) ==
    LET job == [src |-> c, num |-> calls[c], cmd |-> cmd[c]] IN
    /\ Saved(c)
    /\ work' = Append(work, job)
    /\ accepted' = Append(accepted, job)

(* Mutation: the NULL of malloc is queued. *)
SaveNull(c) ==
    /\ Saved(c)
    /\ work' = Append(work, [src |-> c, num |-> 0, cmd |-> cmd[c]])
    /\ UNCHANGED accepted

(* ... or malloc finds no space, which the caller does not look at. *)
SaveFails(c) == Saved(c) /\ UNCHANGED <<work, accepted>>

(* pthread_cond_signal: wakes the work thread if it is waiting, else lost. *)
AfterSignal(pc) == IF pc = "waiting" THEN "woken" ELSE pc

Signal(c) ==
    /\ Runs(c) /\ cpc[c] = "signal"
    /\ wpc' = AfterSignal(wpc)
    /\ owner' = NoThread
    /\ cpc' = [cpc EXCEPT ![c] = "idle"]
    /\ cmd' = [cmd EXCEPT ![c] = NoCommand]
    /\ UNCHANGED <<work, flagVars, calls, closeVars, history>>

Caller(c) == Check(c) \/ Lock(c) \/ Save(c) \/ SaveFails(c) \/ Signal(c)

-----------------------------------------------------------------------------
(* thread_func_fn *)

(* The top of the loop, and the return from pthread_cond_wait. *)
WorkLock ==
    /\ Runs(Worker) /\ wpc \in {"top", "woken"} /\ owner = NoThread
    /\ owner' = Worker
    /\ wpc' = "test"
    /\ UNCHANGED <<work, flagVars, callVars, closeVars, history>>

(* Mutation: the thread sleeps before it looks at the queue. *)
SleepFirst ==
    /\ Runs(Worker) /\ wpc = "test" /\ active
    /\ wpc' = "sleep"
    /\ UNCHANGED <<work, owner, flagVars, callVars, closeVars, history>>

(* The queue is active and empty: the thread is about to sleep ... *)
FindEmpty ==
    /\ Runs(Worker) /\ wpc = "test" /\ active /\ work = <<>>
    /\ wpc' = "sleep"
    /\ UNCHANGED <<work, owner, flagVars, callVars, closeVars, history>>

(* ... and does, which gives the mutex back. *)
CondWait ==
    /\ Runs(Worker) /\ wpc = "sleep"
    /\ wpc' = "waiting"
    /\ owner' = NoThread
    /\ UNCHANGED <<work, flagVars, callVars, closeVars, history>>

SpuriousWakeup ==
    /\ Runs(Worker) /\ wpc = "waiting"
    /\ wpc' = "woken"
    /\ UNCHANGED <<work, owner, flagVars, callVars, closeVars, history>>

FindInactive ==
    /\ Runs(Worker) /\ wpc = "test" /\ ~active
    /\ wpc' = "ended"
    /\ owner' = NoThread
    /\ UNCHANGED <<work, flagVars, callVars, closeVars, history>>

(* Mutation: the newest command is taken instead of the oldest. *)
TakeLast ==
    /\ Runs(Worker) /\ wpc = "test" /\ active /\ work # <<>>
    /\ started' = Append(started, work[Len(work)])
    /\ work' = SubSeq(work, 1, Len(work) - 1)
    /\ owner' = NoThread
    /\ wpc' = "run"
    /\ UNCHANGED <<flagVars, callVars, closeVars, accepted>>

(* The head is taken, copied and freed, and the mutex released. *)
Take ==
    /\ Runs(Worker) /\ wpc = "test" /\ active /\ work # <<>>
    /\ started' = Append(started, Head(work))
    /\ work' = Tail(work)
    /\ owner' = NoThread
    /\ wpc' = "run"
    /\ UNCHANGED <<flagVars, callVars, closeVars, accepted>>

(* cmd_proccess returns; a call it made has returned before. *)
Return ==
    /\ Runs(Worker) /\ wpc = "run" /\ cpc[Worker] = "idle"
    /\ wpc' = "top"
    /\ UNCHANGED <<work, owner, flagVars, callVars, closeVars, history>>

Work == WorkLock \/ FindEmpty \/ CondWait \/ FindInactive \/ Take \/ Return

-----------------------------------------------------------------------------
(* use_dis_set, called by the menu, and the states other components set *)

UseDisSet(u) ==
    /\ spc # "exited" /\ changes < MaxChanges
    /\ changes' = changes + 1
    /\ enabled' = IF u \in enabled THEN enabled \ {u} ELSE enabled \cup {u}
    /\ UNCHANGED <<work, owner, inPreset, callVars, wpc, closeVars, history>>

SetSysState ==
    /\ spc # "exited" /\ changes < MaxChanges
    /\ changes' = changes + 1
    /\ inPreset' = ~inPreset
    /\ UNCHANGED <<work, owner, enabled, callVars, wpc, closeVars, history>>

-----------------------------------------------------------------------------
(* signal_handle_main and system_close *)

(* SIGINT comes to some thread, which goes on in the handler only. *)
Stop(t) ==
    /\ spc = "none"
    /\ host' = t
    /\ spc' = "stopped"
    /\ UNCHANGED <<work, active, owner, flagVars, callVars, wpc, history>>

(* destroy_func_command_work_queue: the mutex, if it is ever free, ... *)
DrainLock ==
    /\ spc = "stopped" /\ owner = NoThread
    /\ owner' = Other
    /\ spc' = "drain"
    /\ UNCHANGED <<work, active, host, flagVars, callVars, wpc, history>>

(* Mutation: the loop frees the head and does not move it on. *)
DrainTakeNot ==
    /\ spc = "drain" /\ work # <<>>
    /\ UNCHANGED vars

(* ... every node, ... *)
DrainTake ==
    /\ spc = "drain" /\ work # <<>>
    /\ work' = Tail(work)
    /\ UNCHANGED <<owner, closeVars, flagVars, callVars, wpc, history>>

DrainUnlock ==
    /\ spc = "drain" /\ work = <<>>
    /\ owner' = NoThread
    /\ spc' = "drained"
    /\ UNCHANGED <<work, active, host, flagVars, callVars, wpc, history>>

(* ... and controll_deactivate, without the mutex. *)
Deactivate ==
    /\ spc = "drained"
    /\ active' = FALSE
    /\ spc' = "inactive"
    /\ UNCHANGED <<work, owner, host, flagVars, callVars, wpc, history>>

(* The signal of system_close, without the mutex too: lost on a thread     *)
(* between its test and its sleep.  A sleeper the handler runs on stays.   *)
CloseSignal ==
    /\ spc = "inactive"
    /\ wpc' = IF host = Worker THEN wpc ELSE AfterSignal(wpc)
    /\ spc' = "exit"
    /\ UNCHANGED <<work, active, owner, host, flagVars, callVars, history>>

Exit ==
    /\ spc = "exit"
    /\ spc' = "exited"
    /\ UNCHANGED <<work, active, owner, host, flagVars, callVars, wpc, history>>

Close == DrainLock \/ DrainTake \/ DrainUnlock \/ Deactivate \/ CloseSignal \/ Exit

(* The handler's own thread holds the mutex the handler waits for. *)
Hung == spc = "stopped" /\ owner = host

Terminated == (spc = "exited" \/ Hung) /\ UNCHANGED vars

-----------------------------------------------------------------------------
Next ==
    \/ \E c \in Callers : (\E k \in Commands : Call(c, k)) \/ Caller(c)
    \/ Work \/ SpuriousWakeup
    \/ (\E u \in Users : UseDisSet(u)) \/ SetSysState
    \/ (\E t \in Threads : Stop(t)) \/ Close
    \/ Terminated

Spec == Init /\ [][Next]_vars

(* Every thread the handler does not run on keeps running, and so does the *)
(* handler; a thread that waits for a mutex which is released again and    *)
(* again gets it in the end.  Nobody has to call, to change a flag, to     *)
(* send SIGINT or to wake up without a signal.                             *)
Fairness ==
    /\ \A c \in Callers : WF_vars(Caller(c)) /\ SF_vars(Lock(c))
    /\ WF_vars(Work) /\ SF_vars(WorkLock)
    /\ WF_vars(Close) /\ SF_vars(DrainLock)

FairSpec == Spec /\ Fairness

-----------------------------------------------------------------------------
(* Every variable holds what the code can store in it. *)
TypeOK ==
    /\ work \in Seq(Jobs) /\ accepted \in Seq(Jobs) /\ started \in Seq(Jobs)
    /\ active \in BOOLEAN /\ owner \in Threads \cup {NoThread}
    /\ enabled \subseteq Users /\ inPreset \in BOOLEAN
    /\ changes \in 0 .. MaxChanges
    /\ cpc \in [Callers -> CallSteps] /\ cmd \in [Callers -> Commands]
    /\ \A c \in Callers : calls[c] \in 0 .. MaxCalls[c]
    /\ \A c \in Callers : cpc[c] # "idle" => calls[c] > 0
    /\ DOMAIN calls = Callers
    /\ wpc \in WorkSteps /\ spc \in CloseSteps
    /\ host \in Threads \cup {NoThread}

(* The thread inside a critical section, and only that one, holds the      *)
(* mutex: pthread_cond_wait, the early exit and the nested calls of the    *)
(* work thread all give it back on every path.                             *)
OwnerHolds ==
    /\ \A c \in Callers : cpc[c] \in {"save", "signal"} => owner = c
    /\ wpc \in {"test", "sleep"} => owner = Worker
    /\ spc = "drain" <=> owner = Other
    /\ owner = Worker => wpc \in {"test", "sleep"} \/ cpc[Worker] \in {"save", "signal"}
    /\ owner \in Producers => cpc[owner] \in {"save", "signal"}

(* A sleeping work thread is never left with a command in the queue: the   *)
(* one who put it there still has the mutex and its signal to give.        *)
NotStranded ==
    wpc = "waiting" /\ work # <<>> =>
        \/ \E c \in Callers : cpc[c] = "signal" /\ owner = c
        \/ spc \notin {"none", "stopped"}

(* Until the shutdown empties the queue, what was accepted is what was     *)
(* taken and then what is queued: no command is lost, run twice or         *)
(* overtaken by a later one.                                               *)
TakenInOrder ==
    spc \in {"none", "stopped"} => accepted = started \o work

(* The work thread calls find_func_command_link only from a command it     *)
(* runs, and what it found empty before it sleeps is still empty.          *)
WorkerView ==
    /\ cpc[Worker] # "idle" => wpc = "run"
    /\ wpc = "sleep" => work = <<>>

(* The mutex, the queue it guards and the thread that serves it agree. *)
QueueInv == OwnerHolds /\ WorkerView /\ NotStranded /\ TakenInOrder

(* The queue is a first-in first-out channel that loses commands only once *)
(* the shutdown has begun.                                                 *)
Channel == INSTANCE FifoChannel WITH
    Messages <- Jobs, pending <- work, put <- accepted, got <- started,
    closing <- spc # "none"

ImplementsChannel == Channel!Spec

(* A command accepted is run, unless the system is shut down: there is no  *)
(* timer here to repair a lost signal, so none may be lost.                *)
EveryCommandRuns ==
    \A c \in Callers : \A n \in 1 .. MaxCalls[c] :
        (\E i \in DOMAIN accepted : accepted[i].src = c /\ accepted[i].num = n)
            ~> (spc # "none"
                \/ \E i \in DOMAIN started : started[i].src = c /\ started[i].num = n)

(* A SIGINT that does not interrupt the holder of the mutex ends in        *)
(* exit(0), whatever the others are doing: none of them keeps the mutex,   *)
(* not even around a command that calls find_func_command_link itself.     *)
CloseEnds == (spc = "stopped" /\ owner # host) ~> (spc = "exited")
=============================================================================
