---------------------------- MODULE RpcRequests ----------------------------
(***************************************************************************)
(* The RPC requests that use the bus (src/rpc: port/Load, port/Scan,       *)
(* port/Setup, device/LoadConfig, device/Load, device/Set, device/Probe),  *)
(* sent to one device of the configuration, whose port is served by the    *)
(* serial client, or to ports that are not configured, served by           *)
(* TaskExecutors.  The device has one parameter; what is kept of it is     *)
(* TRPCDeviceParametersCache and the configuration file.                   *)
(***************************************************************************)
EXTENDS TaskExecutors

CONSTANTS
  Values,    \* the values of the parameter
  FileValue, \* its value in the configuration file
  NoValue,   \* nothing is cached or known
  SerialClient \* the line of the configured port

ASSUME RpcAssumption ==
  FileValue \in Values /\ NoValue \notin Values /\ SerialClient \notin Ports

\* LoadConfig, with and without "force", Load, Set, Set with neither channels nor
\* parameters, port/Load of a Modbus function that writes, of one that reads and of raw
\* data, Scan and Probe. Setup changes as much of this as a reading port/Load.
Kind == {"config", "force", "load", "set", "setNothing", "write", "read", "raw", "scan"}

VARIABLES
  configured, \* is the port of the requests in the configuration? the other sort shares nothing
  tasks,     \* TSerialClient::Tasks of the configured port
  kind,      \* what each client asks of the configured device
  inFile,    \* does the configuration file have the parameter?
  device,    \* the parameter on the device
  connected, \* the connection state of the device
  cache,     \* TRPCDeviceParametersCache, the entry of the device
  bypassed   \* history: the device was changed in a way that the cache is not told of

deviceVars == <<inFile, device, connected, cache, bypassed>>
vars == <<execVars, configured, tasks, kind, deviceVars>>

Init ==
  /\ ExecInit
  /\ configured \in BOOLEAN
  /\ tasks = <<>>
  /\ kind = [c \in Clients |-> "read"]
  /\ IF configured
     THEN inFile \in BOOLEAN /\ device \in Values
     ELSE inFile = FALSE /\ device = FileValue
  /\ connected = FALSE
  /\ cache = NoValue
  /\ bypassed = FALSE

-----------------------------------------------------------------------------
(* The connection *)

\* Mutant: a device that is lost keeps its entry.
MutantKeepsEntry ==
  /\ connected' = FALSE
  /\ UNCHANGED <<inFile, device, cache, bypassed>>

\* The callback of RegisterCallbacks. The state may have been DISCONNECTED already, which
\* calls nobody, or UNKNOWN.
Disconnect ==
  /\ connected' = FALSE
  /\ cache' \in {NoValue} \union (IF connected THEN {} ELSE {cache})
  /\ UNCHANGED <<inFile, device, bypassed>>

PollFails == connected /\ Disconnect /\ UNCHANGED <<execVars, configured, tasks, kind>>

\* Prepare from the poll, with the setup section, which has the parameters of the file.
PollConnects ==
  /\ configured
  /\ ~connected
  /\ connected' = TRUE
  /\ device' = IF inFile THEN FileValue ELSE device
  /\ bypassed' = FALSE
  /\ UNCHANGED <<execVars, configured, tasks, kind, inFile, cache>>

\* A device that is away is set up by others or replaced.
ChangedAway ==
  /\ configured
  /\ ~connected
  /\ device' \in Values
  /\ UNCHANGED <<execVars, configured, tasks, kind, inFile, connected, cache, bypassed>>

-----------------------------------------------------------------------------
(* The requests *)

\* GetSerialClientParams finds the device or its port: the task goes to the serial client.
Request(c, k) ==
  /\ configured
  /\ Take(c)
  /\ kind' = [kind EXCEPT ![c] = k]
  /\ tasks' = Append(tasks, c)
  /\ UNCHANGED <<pool, thread, running, idle, queue, batch, caller, configured, deviceVars>>

\* The serial client takes the next task; the caller of Serve answers it.
Serve(ks) ==
  /\ tasks # <<>>
  /\ kind[Head(tasks)] \in ks
  /\ tasks' = Tail(tasks)
  /\ UNCHANGED <<pool, thread, running, idle, queue, batch, caller, configured, kind>>

Asked == kind[Head(tasks)]
Answered == Answer(Head(tasks))

\* It has expired, the port does not open, the settings are not taken, PrepareSession has
\* tried MAX_RPC_RETRIES times more, the device is not the one of the template, or the
\* first messages are not answered.
Refuse ==
  /\ Serve(Kind)
  /\ IF Asked = "setNothing"
     THEN /\ reply' = [reply EXCEPT ![Head(tasks)] = "done"]
          /\ answers' = [answers EXCEPT ![Head(tasks)] = 2]
     ELSE Answered
  /\ \/ UNCHANGED deviceVars
     \/ Asked \in {"config", "force", "load", "set", "setNothing"} /\ Disconnect

\* What LoadConfig takes without reading it.
Known ==
  IF Asked = "force" THEN NoValue
  ELSE IF cache # NoValue THEN cache
  ELSE IF inFile THEN FileValue ELSE NoValue

\* Nothing is left to read; what was known is cached again.
AnswerKnown ==
  /\ Serve({"config", "force"})
  /\ Known # NoValue
  /\ Answered
  /\ cache' = Known
  /\ UNCHANGED <<inFile, device, connected, bypassed>>

\* PrepareSession and ReadRegisterList have answers. A device found here is not set up by
\* the poll any more. (Continuous reading, which a session switches on, and which the second
\* reading of a doubtful value switches off and on, is no parameter and is left out.)
ReadParameter == connected' = TRUE /\ UNCHANGED <<inFile, device>>

NotSetUp == ~connected /\ inFile /\ device # FileValue

\* LoadConfig with something to read. It caches what it answers, unless the second reading of
\* a doubtful value fails.
LoadConfig ==
  /\ Serve({"config", "force"})
  /\ Known = NoValue
  /\ Answered
  /\ ReadParameter
  /\ \/ cache' = device /\ bypassed' = (inFile /\ device # FileValue)
     \/ cache' = cache /\ bypassed' = (bypassed \/ NotSetUp)

\* Load: the parameters of the conditions, the channels, the parameters.
Load ==
  /\ Serve({"load"})
  /\ Answered
  /\ ReadParameter
  /\ bypassed' = (bypassed \/ NotSetUp)
  /\ UNCHANGED cache

\* Set, with or without an answer to its last message. It does not touch the cache.
Set ==
  /\ Serve({"set"})
  /\ Answered
  /\ device' \in Values
  /\ connected' \in {connected, TRUE}
  /\ bypassed' = TRUE
  /\ UNCHANGED <<inFile, cache>>

\* Set of nothing: an answer before the session is prepared, another at the end.
SetNothing ==
  /\ Serve({"setNothing"})
  /\ reply' = [reply EXCEPT ![Head(tasks)] = "done"]
  /\ answers' = [answers EXCEPT ![Head(tasks)] = 2]
  /\ UNCHANGED deviceVars

\* ExecRPCPortLoadModbusRequest removes the entry after it has answered a write.
RemoveEntry == cache' = NoValue

\* A write through port/Load. With the answer lost, or an exception in its place, the entry
\* stays; a parameter of the file is known from there again.
Write ==
  /\ Serve({"write"})
  /\ Answered
  /\ device' \in Values
  /\ \/ RemoveEntry /\ bypassed' = (inFile /\ device' # FileValue)
     \/ UNCHANGED cache /\ bypassed' = TRUE
  /\ UNCHANGED <<inFile, connected>>

\* Raw data may change anything, and is not looked into.
Raw ==
  /\ Serve({"raw"})
  /\ Answered
  /\ device' \in Values
  /\ bypassed' = TRUE
  /\ UNCHANGED <<inFile, connected, cache>>

\* GetDeviceDetails of Scan and Probe reads the serial number of the configured device, if
\* it is not known, without any session: the device counts as connected, or fails.
Scan ==
  /\ Serve({"scan"})
  /\ Answered
  /\ \/ UNCHANGED deviceVars
     \/ Disconnect
     \/ /\ connected' = TRUE
        /\ bypassed' = (bypassed \/ NotSetUp)
        /\ UNCHANGED <<inFile, device, cache>>

\* A request that changes nothing of this.
ReadOnly ==
  /\ Serve({"read"})
  /\ Answered
  /\ UNCHANGED deviceVars

TaskStep ==
  \/ Refuse \/ AnswerKnown \/ LoadConfig \/ Load \/ Set \/ SetNothing
  \/ Write \/ Raw \/ Scan \/ ReadOnly

Next ==
  \/ ~configured /\ ExecNext /\ UNCHANGED <<configured, tasks, kind, deviceVars>>
  \/ \E c \in Clients, k \in Kind : Request(c, k)
  \/ TaskStep
  \/ PollFails \/ PollConnects \/ ChangedAway

Spec == Init /\ [][Next]_vars

\* The threads of the executors and of the serial client go on.
FairSpec == Spec /\ ExecFairness /\ WF_vars(TaskStep)

-----------------------------------------------------------------------------
(* Properties *)

TypeOK ==
  /\ ExecTypeOK
  /\ tasks \in Seq(Clients)
  /\ kind \in [Clients -> Kind]
  /\ {configured, inFile, connected, bypassed} \subseteq BOOLEAN
  /\ device \in Values
  /\ cache \in Values \union {NoValue}

\* A request is answered once, by one of the threads, and one that was destroyed with its
\* executor is never answered later. (A Set of nothing is answered twice.)
AnsweredOnce ==
  \A c \in Clients :
    /\ reply[c] \in {"waiting", "lost"} => answers[c] = 0
    /\ reply[c] = "done" => answers[c] = 1 \/ kind[c] = "setNothing"

\* The two queues of a port and the task that RunTask carries are one line: requests to a port are
\* answered one after the other, in the order in which they came, while executors are destroyed
\* and created by another thread; a line is dropped only with an idle executor, and as a whole.
\* (RunTask, TSerialClientTaskExecutor, TSerialClient::AddTask)
Service == INSTANCE RequestLines WITH
  Lines <- Ports \union {SerialClient},
  Kept <- {SerialClient},
  line <- [l \in Ports \union {SerialClient} |-> IF l = SerialClient THEN tasks ELSE Line(l)]

ServedInOrder == Service!Spec

\* The cache differs from a device that is connected only when somebody has bypassed it: a
\* Set, raw data, a write with no answer, a parameter that the file knows another value of,
\* or a device that a request has found before the poll could set it up.
CacheFollowsDevice ==
  connected /\ cache # NoValue /\ cache # device => bypassed

\* Every request is answered or destroyed with its executor, unless a thread sleeps through
\* the end of its executor.
RequestsEnd == \A c \in Clients : reply[c] = "waiting" ~> (reply[c] # "waiting" \/ Hung)

=============================================================================
