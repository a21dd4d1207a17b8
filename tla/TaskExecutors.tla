--------------------------- MODULE TaskExecutors ---------------------------
(***************************************************************************)
(* Requests to ports that are not in the configuration                     *)
(* (src/rpc/rpc_port_driver_list): each such port gets a thread of its own *)
(* (TSerialClientTaskExecutor), and TSerialClientTaskRunner keeps a limited *)
(* number of them, destroying an idle one when it needs another.  The      *)
(* steps are those of the mutexes and of the condition variable.           *)
(***************************************************************************)
EXTENDS Naturals, Sequences, SequencesExt

CONSTANTS
  Clients,     \* who sends requests, one at a time each
  Ports,       \* the ports that are not in the configuration
  MaxExecutors \* MAX_TASK_EXECUTORS

ASSUME ExecutorsAssumption ==
  MaxExecutors \in Nat \ {0} /\ Clients # {} /\ Ports # {}

\* A thread: about to lock Mutex, holding it with nothing to do, waiting for TasksCv,
\* running tasks, returned.
Pc == {"none", "lock", "checked", "wait", "run", "end"}

\* Where RunTask is.
CallPc == {"free", "find", "scan", "stop", "notify", "join", "create", "add", "wake"}

\* Each request of a client: none yet, taken, answered, or destroyed with its executor.
Reply == {"none", "waiting", "done", "lost"}

VARIABLES
  pool,    \* TaskExecutors, the executors as their ports
  thread,  \* where the thread of each executor is
  running, \* TSerialClientTaskExecutor::Running
  idle,    \* ::Idle
  queue,   \* ::Tasks
  batch,   \* tasksToRun
  caller,  \* RunTask, which holds TaskExecutorsMutex: the client, its port, the executor it looks at
  reply,   \* what each client has got
  answers  \* how many answers it has got

execVars == <<pool, thread, running, idle, queue, batch, caller, reply, answers>>

Free == [pc |-> "free", client |-> CHOOSE c \in Clients : TRUE,
         port |-> CHOOSE p \in Ports : TRUE, at |-> 1]

ExecInit ==
  /\ pool = <<>>
  /\ thread = [p \in Ports |-> "none"]
  /\ running = [p \in Ports |-> FALSE]
  /\ idle = [p \in Ports |-> FALSE]
  /\ queue = [p \in Ports |-> <<>>]
  /\ batch = [p \in Ports |-> <<>>]
  /\ caller = Free
  /\ reply = [c \in Clients |-> "none"]
  /\ answers = [c \in Clients |-> 0]

\* Callbacks OnResult and OnError.
Answer(c) ==
  /\ reply' = [reply EXCEPT ![c] = "done"]
  /\ answers' = [answers EXCEPT ![c] = @ + 1]

\* A task is created for a request.
Take(c) ==
  /\ reply[c] # "waiting"
  /\ reply' = [reply EXCEPT ![c] = "waiting"]
  /\ answers' = [answers EXCEPT ![c] = 0]

-----------------------------------------------------------------------------
(* RunTask, from the thread that takes requests *)

Goes(pc) == caller' = [caller EXCEPT !.pc = pc]

\* It locks TaskExecutorsMutex.
RunTask(c, p) ==
  /\ caller.pc = "free"
  /\ Take(c)
  /\ caller' = [pc |-> "find", client |-> c, port |-> p, at |-> 1]
  /\ UNCHANGED <<pool, thread, running, idle, queue, batch>>

\* RemoveUnusedExecutors goes on while there are too many.
Room(executors) ==
  IF Len(executors) >= MaxExecutors
  THEN caller' = [caller EXCEPT !.pc = "scan", !.at = 1]
  ELSE Goes("create")

FindExecutor ==
  /\ caller.pc = "find"
  /\ IF caller.port \in Range(pool) THEN Goes("add") ELSE Room(pool)
  /\ UNCHANGED <<pool, thread, running, idle, queue, batch, reply, answers>>

\* Mutex of the executor is free.
CanLock(p) == thread[p] # "checked"

\* IsIdle of one executor after the other; when none is idle the limit is exceeded.
IsIdle ==
  /\ caller.pc = "scan"
  /\ CanLock(pool[caller.at])
  /\ IF idle[pool[caller.at]]
     THEN Goes("stop")
     ELSE IF caller.at = Len(pool)
          THEN Goes("create")
          ELSE caller' = [caller EXCEPT !.at = @ + 1]
  /\ UNCHANGED <<pool, thread, running, idle, queue, batch, reply, answers>>

\* The destructor writes Running without the mutex of the condition variable.
StopRunning ==
  /\ caller.pc = "stop"
  /\ running' = [running EXCEPT ![pool[caller.at]] = FALSE]
  /\ Goes("notify")
  /\ UNCHANGED <<pool, thread, idle, queue, batch, reply, answers>>

\* notify_all wakes a thread that waits, and only that.
Wakes(p) == thread' = IF thread[p] = "wait" THEN [thread EXCEPT ![p] = "lock"] ELSE thread

NotifyStopped ==
  /\ caller.pc = "notify"
  /\ Wakes(pool[caller.at])
  /\ Goes("join")
  /\ UNCHANGED <<pool, running, idle, queue, batch, reply, answers>>

\* Thread.join; the tasks that are left are destroyed with the executor.
Join ==
  /\ caller.pc = "join"
  /\ LET p == pool[caller.at] IN
       /\ thread[p] = "end"
       /\ thread' = [thread EXCEPT ![p] = "none"]
       /\ queue' = [queue EXCEPT ![p] = <<>>]
       /\ reply' = [c \in Clients |-> IF c \in Range(queue[p]) THEN "lost" ELSE reply[c]]
       /\ pool' = RemoveAt(pool, caller.at)
  /\ Room(RemoveAt(pool, caller.at))
  /\ UNCHANGED <<running, idle, batch, answers>>

\* The constructor, with the thread it starts.
CreateExecutor ==
  /\ caller.pc = "create"
  /\ LET p == caller.port IN
       /\ pool' = Append(pool, p)
       /\ thread' = [thread EXCEPT ![p] = "lock"]
       /\ running' = [running EXCEPT ![p] = TRUE]
       /\ idle' = [idle EXCEPT ![p] = TRUE]
  /\ Goes("add")
  /\ UNCHANGED <<queue, batch, reply, answers>>

\* Mutant: the newest task is run first.
MutantNewestFirst ==
  /\ caller.pc = "add"
  /\ CanLock(caller.port)
  /\ queue' = [queue EXCEPT ![caller.port] = <<caller.client>> \o @]
  /\ Goes("wake")
  /\ UNCHANGED <<pool, thread, running, idle, batch, reply, answers>>

AddTask ==
  /\ caller.pc = "add"
  /\ CanLock(caller.port)
  /\ queue' = [queue EXCEPT ![caller.port] = Append(@, caller.client)]
  /\ Goes("wake")
  /\ UNCHANGED <<pool, thread, running, idle, batch, reply, answers>>

\* Mutant: nobody is notified of the task.
MutantSilent ==
  /\ caller.pc = "wake"
  /\ caller' = Free
  /\ UNCHANGED <<pool, thread, running, idle, queue, batch, reply, answers>>

NotifyTask ==
  /\ caller.pc = "wake"
  /\ Wakes(caller.port)
  /\ caller' = Free
  /\ UNCHANGED <<pool, running, idle, queue, batch, reply, answers>>

-----------------------------------------------------------------------------
(* The thread of an executor *)

\* Mutant: the tasks are copied and not swapped out.
MutantCopies(p) ==
  /\ thread[p] = "lock"
  /\ IF ~running[p]
     THEN thread' = [thread EXCEPT ![p] = "end"] /\ UNCHANGED <<idle, queue, batch>>
     ELSE IF queue[p] = <<>>
          THEN thread' = [thread EXCEPT ![p] = "checked"] /\ UNCHANGED <<idle, queue, batch>>
          ELSE /\ thread' = [thread EXCEPT ![p] = "run"]
               /\ idle' = [idle EXCEPT ![p] = FALSE]
               /\ batch' = [batch EXCEPT ![p] = queue[p]]
               /\ UNCHANGED queue
  /\ UNCHANGED <<pool, running, caller, reply, answers>>

\* The predicate of TasksCv.wait, under Mutex, and what follows it.
CheckTasks(p) ==
  /\ thread[p] = "lock"
  /\ IF ~running[p]
     THEN thread' = [thread EXCEPT ![p] = "end"] /\ UNCHANGED <<idle, queue, batch>>
     ELSE IF queue[p] = <<>>
          THEN thread' = [thread EXCEPT ![p] = "checked"] /\ UNCHANGED <<idle, queue, batch>>
          ELSE /\ thread' = [thread EXCEPT ![p] = "run"]
               /\ idle' = [idle EXCEPT ![p] = FALSE]
               /\ batch' = [batch EXCEPT ![p] = queue[p]]
               /\ queue' = [queue EXCEPT ![p] = <<>>]
  /\ UNCHANGED <<pool, running, caller, reply, answers>>

\* The wait itself, which gives Mutex back.
Block(p) ==
  /\ thread[p] = "checked"
  /\ thread' = [thread EXCEPT ![p] = "wait"]
  /\ UNCHANGED <<pool, running, idle, queue, batch, caller, reply, answers>>

\* One task: whether it has expired, its port does not open, or the bus fails, it answers.
RunOne(p) ==
  /\ thread[p] = "run"
  /\ batch[p] # <<>>
  /\ Answer(Head(batch[p]))
  /\ batch' = [batch EXCEPT ![p] = Tail(@)]
  /\ UNCHANGED <<pool, thread, running, idle, queue, caller>>

\* After the last task: the port is closed when there are no new ones.
EndBatch(p) ==
  /\ thread[p] = "run"
  /\ batch[p] = <<>>
  /\ idle' = [idle EXCEPT ![p] = queue[p] = <<>>]
  /\ thread' = [thread EXCEPT ![p] = "lock"]
  /\ UNCHANGED <<pool, running, queue, batch, caller, reply, answers>>

-----------------------------------------------------------------------------
CallerStep ==
  \/ FindExecutor \/ IsIdle \/ StopRunning \/ NotifyStopped \/ Join
  \/ CreateExecutor \/ AddTask \/ NotifyTask

ThreadStep(p) == CheckTasks(p) \/ Block(p) \/ RunOne(p) \/ EndBatch(p)

ExecNext ==
  \/ \E c \in Clients, p \in Ports : RunTask(c, p)
  \/ CallerStep
  \/ \E p \in Ports : ThreadStep(p)

\* Every thread goes on, and so does the one that takes requests.
ExecFairness == WF_execVars(CallerStep) /\ \A p \in Ports : WF_execVars(ThreadStep(p))

ExecTypeOK ==
  /\ pool \in Seq(Ports)
  /\ thread \in [Ports -> Pc]
  /\ running \in [Ports -> BOOLEAN]
  /\ idle \in [Ports -> BOOLEAN]
  /\ queue \in [Ports -> Seq(Clients)]
  /\ batch \in [Ports -> Seq(Clients)]
  /\ caller \in [pc : CallPc, client : Clients, port : Ports, at : Nat]
  /\ caller.pc \in {"scan", "stop", "notify", "join"} => caller.at \in DOMAIN pool
  /\ reply \in [Clients -> Reply]
  /\ answers \in [Clients -> Nat]

\* RunTask has a task that is in no queue yet.
Carries == caller.pc \notin {"free", "wake"}

\* The requests to a port that are to be answered, in their order.
Line(p) ==
  batch[p] \o queue[p] \o (IF Carries /\ caller.port = p THEN <<caller.client>> ELSE <<>>)

\* Running was written and announced between the check of the predicate and the wait: the
\* thread never learns of it, and RunTask joins it for ever.
Hung == caller.pc = "join" /\ thread[pool[caller.at]] = "wait"
=============================================================================
