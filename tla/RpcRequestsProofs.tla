------------------------- MODULE RpcRequestsProofs -------------------------
(***************************************************************************)
(* Proofs about RpcRequests and TaskExecutors, for any clients, ports,     *)
(* limits of executors and values of the parameter: every request is        *)
(* answered once, the cache of parameters follows the device, and           *)
(* continuous reading is not left off.                                     *)
(***************************************************************************)
EXTENDS RpcRequests, SequenceTheorems, TLAPS

-----------------------------------------------------------------------------
(* Sequences without repetitions. *)

LEMMA EmptyFacts ==
  ASSUME NEW S
  PROVE  /\ <<>> \in Seq(S) /\ Len(<<>>) = 0
         /\ Range(<<>>) = {} /\ IsInjective(<<>>)
<1>1. <<>> \in Seq(S) /\ Len(<<>>) = 0
  BY EmptySeq
<1>2. DOMAIN <<>> = {}
  BY <1>1, LenProperties
<1> QED
  BY <1>1, <1>2 DEF Range, IsInjective

LEMMA TailFacts ==
  ASSUME NEW S, NEW s \in Seq(S), s # <<>>
  PROVE  /\ Head(s) \in S /\ Head(s) \in Range(s)
         /\ Tail(s) \in Seq(S)
         /\ Range(Tail(s)) \subseteq Range(s)
         /\ IsInjective(s) => Head(s) \notin Range(Tail(s)) /\ IsInjective(Tail(s))
<1>1. Len(s) \in Nat \ {0} /\ DOMAIN s = 1..Len(s)
  BY EmptySeq, LenProperties
<1>2. /\ Head(s) \in S /\ Tail(s) \in Seq(S) /\ Len(Tail(s)) = Len(s) - 1
      /\ \A i \in 1..Len(Tail(s)) : Tail(s)[i] = s[i + 1]
  BY HeadTailProperties
<1>3. Head(s) = s[1] /\ DOMAIN Tail(s) = 1..Len(Tail(s))
  BY <1>2, LenProperties
<1>4. \A i \in DOMAIN Tail(s) : i + 1 \in DOMAIN s /\ i + 1 # 1 /\ Tail(s)[i] = s[i + 1] /\ i \in Int
  BY <1>1, <1>2, <1>3
<1>5. 1 \in DOMAIN s
  BY <1>1
<1>6. Range(Tail(s)) \subseteq Range(s)
  BY <1>4 DEF Range
<1>7. ASSUME IsInjective(s) PROVE Head(s) \notin Range(Tail(s))
  BY <1>3, <1>4, <1>5, <1>7 DEF Range, IsInjective
<1>8. ASSUME IsInjective(s) PROVE IsInjective(Tail(s))
  <2> SUFFICES ASSUME NEW i \in DOMAIN Tail(s), NEW j \in DOMAIN Tail(s), Tail(s)[i] = Tail(s)[j]
               PROVE  i = j
    BY DEF IsInjective
  <2>1. i + 1 = j + 1
    BY <1>4, <1>8 DEF IsInjective
  <2> QED
    BY <2>1, <1>4
<1> QED
  BY <1>2, <1>3, <1>5, <1>6, <1>7, <1>8 DEF Range

LEMMA AppendFacts ==
  ASSUME NEW S, NEW s \in Seq(S), NEW e \in S
  PROVE  /\ Append(s, e) \in Seq(S)
         /\ Range(Append(s, e)) = Range(s) \union {e}
         /\ IsInjective(s) /\ e \notin Range(s) => IsInjective(Append(s, e))
<1>1. /\ Append(s, e) \in Seq(S) /\ Len(Append(s, e)) = Len(s) + 1 /\ Len(s) \in Nat
      /\ \A i \in 1..Len(s) : Append(s, e)[i] = s[i]
      /\ Append(s, e)[Len(s) + 1] = e
      /\ DOMAIN s = 1..Len(s)
  BY AppendProperties, LenProperties
<1>2. DOMAIN Append(s, e) = 1..Len(s) + 1
  BY <1>1, LenProperties
<1>3. DOMAIN Append(s, e) = DOMAIN s \union {Len(s) + 1} /\ Len(s) + 1 \notin DOMAIN s
  BY <1>1, <1>2
<1>4. Range(Append(s, e)) = Range(s) \union {e}
  BY <1>1, <1>3 DEF Range
<1>5. ASSUME IsInjective(s), e \notin Range(s) PROVE IsInjective(Append(s, e))
  BY <1>1, <1>3, <1>5 DEF Range, IsInjective
<1> QED
  BY <1>1, <1>4, <1>5

LEMMA RemoveFacts ==
  ASSUME NEW S, NEW s \in Seq(S), NEW i \in 1..Len(s)
  PROVE  /\ RemoveAt(s, i) \in Seq(S)
         /\ Range(RemoveAt(s, i)) \subseteq Range(s)
         /\ Range(s) \subseteq Range(RemoveAt(s, i)) \union {s[i]}
<1>1. Len(s) \in Nat /\ \A j \in 1..Len(s) : s[j] \in S
  BY LenProperties, ElementOfSeq
<1> DEFINE before == SubSeq(s, 1, i - 1)
           after == SubSeq(s, i + 1, Len(s))
<1>2. /\ before \in Seq(S) /\ Len(before) = i - 1
      /\ \A j \in 1..i - 1 : before[j] = s[j]
      /\ after \in Seq(S) /\ Len(after) = Len(s) - i
      /\ \A j \in 1..Len(s) - i : after[j] = s[i + j]
  <2>1. /\ 1 \in Int /\ i - 1 \in Int /\ i + 1 \in Int /\ Len(s) \in Int
        /\ \A j \in 1..i - 1 : s[j] \in S
        /\ \A j \in i + 1..Len(s) : s[j] \in S
    BY <1>1
  <2> QED
    BY <1>1, <2>1, SubSeqProperties
<1> HIDE DEF before, after
<1>3. before \o after \in Seq(S) /\ Range(before \o after) = Range(before) \union Range(after)
  BY <1>2, ConcatProperties, RangeConcatenation
<1>4. /\ Range(before) = {s[j] : j \in 1..i - 1}
      /\ Range(after) = {s[i + j] : j \in 1..Len(s) - i}
      /\ Range(s) = {s[j] : j \in 1..Len(s)}
  <2>1. DOMAIN before = 1..i - 1 /\ DOMAIN after = 1..Len(s) - i /\ DOMAIN s = 1..Len(s)
    BY <1>2, LenProperties
  <2>2. Range(before) = {s[j] : j \in 1..i - 1}
    BY <1>2, <2>1 DEF Range
  <2>3. Range(after) = {s[i + j] : j \in 1..Len(s) - i}
    BY <1>2, <2>1 DEF Range
  <2> QED
    BY <2>1, <2>2, <2>3 DEF Range
<1>5. \A j \in 1..Len(s) : j = i \/ j \in 1..i - 1 \/ (j - i \in 1..Len(s) - i /\ i + (j - i) = j)
  BY <1>1
<1>6. /\ \A j \in 1..i - 1 : j \in 1..Len(s)
      /\ \A j \in 1..Len(s) - i : i + j \in 1..Len(s)
  BY <1>1
<1>7. Range(before) \union Range(after) \subseteq Range(s)
  BY <1>4, <1>6
<1>8. Range(s) \subseteq Range(before) \union Range(after) \union {s[i]}
  BY <1>4, <1>5
<1> QED
  BY <1>3, <1>7, <1>8 DEF RemoveAt, before, after

LEMMA RangeFacts ==
  ASSUME NEW S, NEW s \in Seq(S)
  PROVE  Range(s) \subseteq S
BY LenProperties DEF Range
-----------------------------------------------------------------------------
(* Types of the executors. *)

\* Where the caller goes when it does not start to look for an idle executor.
LEMMA GoesType ==
  ASSUME ExecTypeOK, NEW pc \in CallPc, Goes(pc)
  PROVE  /\ caller' \in [pc : CallPc, client : Clients, port : Ports, at : Nat]
         /\ caller'.pc = pc /\ caller'.at = caller.at
         /\ caller'.client = caller.client /\ caller'.port = caller.port
BY DEF Goes, ExecTypeOK

\* It looks at another executor.
LEMMA LooksType ==
  ASSUME ExecTypeOK, NEW pc \in CallPc, NEW n \in Nat,
         caller' = [caller EXCEPT !.pc = pc, !.at = n]
  PROVE  /\ caller' \in [pc : CallPc, client : Clients, port : Ports, at : Nat]
         /\ caller'.pc = pc /\ caller'.at = n
         /\ caller'.client = caller.client /\ caller'.port = caller.port
BY DEF ExecTypeOK

LEMMA NextType ==
  ASSUME ExecTypeOK, NEW n \in Nat, caller' = [caller EXCEPT !.at = n]
  PROVE  /\ caller' \in [pc : CallPc, client : Clients, port : Ports, at : Nat]
         /\ caller'.pc = caller.pc /\ caller'.at = n
         /\ caller'.client = caller.client /\ caller'.port = caller.port
BY DEF ExecTypeOK

LEMMA FreeType ==
  /\ Free \in [pc : CallPc, client : Clients, port : Ports, at : Nat]
  /\ Free.pc = "free"
BY ExecutorsAssumption DEF ExecutorsAssumption, Free, CallPc

\* The search for an idle executor begins at the first one, which exists.
LEMMA RoomType ==
  ASSUME ExecTypeOK, NEW executors \in Seq(Ports), Room(executors)
  PROVE  /\ caller' \in [pc : CallPc, client : Clients, port : Ports, at : Nat]
         /\ caller'.pc \in {"scan", "create"}
         /\ caller'.pc = "scan" => caller'.at \in DOMAIN executors
         /\ caller'.client = caller.client /\ caller'.port = caller.port
<1>1. CASE Len(executors) >= MaxExecutors
  <2>1. Len(executors) \in Nat /\ DOMAIN executors = 1..Len(executors)
    BY LenProperties
  <2>2. 1 \in DOMAIN executors
    BY <1>1, <2>1, ExecutorsAssumption DEF ExecutorsAssumption
  <2> QED
    BY <1>1, <2>2, LooksType DEF Room, CallPc
<1>2. CASE ~(Len(executors) >= MaxExecutors)
  <2>1. "create" \in CallPc
    BY DEF CallPc
  <2>2. Goes("create")
    BY <1>2 DEF Room
  <2> QED
    BY <2>1, <2>2, GoesType
<1> QED
  BY <1>1, <1>2

LEMMA AnswerType ==
  ASSUME ExecTypeOK, NEW c \in Clients, Answer(c)
  PROVE  reply' \in [Clients -> Reply] /\ answers' \in [Clients -> Nat]
BY DEF Answer, ExecTypeOK, Reply

LEMMA TakeType ==
  ASSUME ExecTypeOK, NEW c \in Clients, Take(c)
  PROVE  reply' \in [Clients -> Reply] /\ answers' \in [Clients -> Nat]
BY DEF Take, ExecTypeOK, Reply

\* The executor that RunTask looks at is in the pool.
LEMMA LookedAt ==
  ASSUME ExecTypeOK, caller.pc \in {"scan", "stop", "notify", "join"}
  PROVE  /\ caller.at \in 1..Len(pool) /\ Len(pool) \in Nat
         /\ pool[caller.at] \in Ports
<1>1. Len(pool) \in Nat /\ DOMAIN pool = 1..Len(pool) /\ caller.at \in DOMAIN pool
  BY LenProperties DEF ExecTypeOK
<1> QED
  BY <1>1, ElementOfSeq DEF ExecTypeOK

LEMMA RunTaskType ==
  ASSUME ExecTypeOK, NEW c \in Clients, NEW p \in Ports, RunTask(c, p)
  PROVE  ExecTypeOK'
<1>1. reply' \in [Clients -> Reply] /\ answers' \in [Clients -> Nat]
  BY TakeType DEF RunTask
<1> QED
  BY <1>1 DEF RunTask, ExecTypeOK, CallPc

LEMMA CallerType ==
  ASSUME ExecTypeOK, CallerStep
  PROVE  ExecTypeOK'
<1> USE DEF CallPc
<1>1. CASE FindExecutor
  <2>1. CASE caller.port \in Range(pool)
    BY <1>1, <2>1, GoesType DEF FindExecutor, ExecTypeOK
  <2>2. CASE caller.port \notin Range(pool)
    <3>1. Room(pool) /\ pool \in Seq(Ports)
      BY <1>1, <2>2 DEF FindExecutor, ExecTypeOK
    <3> QED
      BY <1>1, <3>1, RoomType DEF FindExecutor, ExecTypeOK
  <2> QED
    BY <2>1, <2>2
<1>2. CASE IsIdle
  <2>1. caller.at \in 1..Len(pool) /\ Len(pool) \in Nat /\ DOMAIN pool = 1..Len(pool)
    BY <1>2, LookedAt, LenProperties DEF IsIdle, ExecTypeOK
  <2>2. CASE idle[pool[caller.at]] \/ caller.at = Len(pool)
    BY <1>2, <2>2, GoesType DEF IsIdle, ExecTypeOK
  <2>3. CASE ~(idle[pool[caller.at]] \/ caller.at = Len(pool))
    <3>1. /\ caller.at + 1 \in Nat /\ caller.at + 1 \in DOMAIN pool
          /\ caller' = [caller EXCEPT !.at = caller.at + 1]
      BY <1>2, <2>1, <2>3 DEF IsIdle, ExecTypeOK
    <3> QED
      BY <1>2, <3>1, NextType DEF IsIdle, ExecTypeOK
  <2> QED
    BY <2>2, <2>3
<1>3. CASE StopRunning
  BY <1>3, GoesType, LookedAt DEF StopRunning, ExecTypeOK
<1>4. CASE NotifyStopped
  BY <1>4, GoesType, LookedAt DEF NotifyStopped, Wakes, ExecTypeOK, Pc
<1>5. CASE Join
  <2>1. /\ RemoveAt(pool, caller.at) \in Seq(Ports) /\ pool' = RemoveAt(pool, caller.at)
        /\ pool[caller.at] \in Ports
    BY <1>5, LookedAt, RemoveFacts DEF Join, ExecTypeOK
  <2>2. /\ thread' \in [Ports -> Pc] /\ queue' \in [Ports -> Seq(Clients)]
        /\ reply' \in [Clients -> Reply]
    BY <1>5, <2>1, EmptyFacts DEF Join, ExecTypeOK, Pc, Reply
  <2>3. /\ caller' \in [pc : CallPc, client : Clients, port : Ports, at : Nat]
        /\ caller'.pc \in {"scan", "stop", "notify", "join"} => caller'.at \in DOMAIN pool'
    BY <1>5, <2>1, RoomType DEF Join
  <2> QED
    BY <1>5, <2>1, <2>2, <2>3 DEF Join, ExecTypeOK
<1>6. CASE CreateExecutor
  <2>1. caller.port \in Ports /\ Append(pool, caller.port) \in Seq(Ports)
    BY AppendFacts DEF ExecTypeOK
  <2> QED
    BY <1>6, <2>1, GoesType DEF CreateExecutor, ExecTypeOK, Pc
<1>7. CASE AddTask
  <2>1. /\ caller.port \in Ports /\ caller.client \in Clients
        /\ Append(queue[caller.port], caller.client) \in Seq(Clients)
    BY AppendFacts DEF ExecTypeOK
  <2> QED
    BY <1>7, <2>1, GoesType DEF AddTask, ExecTypeOK
<1>8. CASE NotifyTask
  BY <1>8, FreeType DEF NotifyTask, Wakes, ExecTypeOK, Pc
<1> QED
  BY <1>1, <1>2, <1>3, <1>4, <1>5, <1>6, <1>7, <1>8 DEF CallerStep

LEMMA ThreadType ==
  ASSUME ExecTypeOK, NEW p \in Ports, ThreadStep(p)
  PROVE  ExecTypeOK'
<1>1. CASE CheckTasks(p)
  <2>1. queue[p] \in Seq(Clients) /\ <<>> \in Seq(Clients)
    BY EmptyFacts DEF ExecTypeOK
  <2>2. thread' \in [Ports -> Pc]
    BY <1>1 DEF CheckTasks, ExecTypeOK, Pc
  <2>3. /\ idle' \in [Ports -> BOOLEAN]
        /\ queue' \in [Ports -> Seq(Clients)] /\ batch' \in [Ports -> Seq(Clients)]
    BY <1>1, <2>1 DEF CheckTasks, ExecTypeOK
  <2> QED
    BY <1>1, <2>2, <2>3 DEF CheckTasks, ExecTypeOK
<1>2. CASE Block(p)
  BY <1>2 DEF Block, ExecTypeOK, Pc
<1>3. CASE RunOne(p)
  <2>1. /\ batch[p] \in Seq(Clients) /\ batch[p] # <<>>
        /\ Head(batch[p]) \in Clients /\ Tail(batch[p]) \in Seq(Clients)
    BY <1>3, TailFacts DEF RunOne, ExecTypeOK
  <2> QED
    BY <1>3, <2>1, AnswerType DEF RunOne, ExecTypeOK
<1>4. CASE EndBatch(p)
  BY <1>4 DEF EndBatch, ExecTypeOK, Pc
<1> QED
  BY <1>1, <1>2, <1>3, <1>4 DEF ThreadStep
-----------------------------------------------------------------------------
(* The pool: a port without an executor has no thread, and RunTask makes an *)
(* executor only for such a port.                                           *)

PoolInv ==
  /\ \A p \in Ports \ Range(pool) : thread[p] = "none"
  /\ caller.pc \in {"scan", "stop", "notify", "join", "create"} => caller.port \notin Range(pool)

LEMMA PoolStep ==
  ASSUME ExecTypeOK, PoolInv, ExecNext
  PROVE  PoolInv'
<1> USE DEF CallPc
<1>1. ASSUME NEW c \in Clients, NEW p \in Ports, RunTask(c, p) PROVE PoolInv'
  BY <1>1 DEF RunTask, PoolInv
<1>2. CASE FindExecutor
  BY <1>2, GoesType, RoomType DEF FindExecutor, PoolInv, ExecTypeOK
<1>3. CASE IsIdle
  <2>1. caller.at \in Nat /\ caller.at + 1 \in Nat
    BY DEF ExecTypeOK
  <2> QED
    BY <1>3, <2>1, GoesType, NextType DEF IsIdle, PoolInv
<1>4. CASE StopRunning
  BY <1>4, GoesType DEF StopRunning, PoolInv
<1>5. CASE NotifyStopped
  BY <1>5, GoesType DEF NotifyStopped, Wakes, PoolInv, ExecTypeOK
<1>6. CASE Join
  <2>1. /\ pool' \in Seq(Ports) /\ pool' = RemoveAt(pool, caller.at)
        /\ Range(pool') \subseteq Range(pool)
        /\ Range(pool) \subseteq Range(pool') \union {pool[caller.at]}
        /\ pool[caller.at] \in Ports
    BY <1>6, LookedAt, RemoveFacts DEF Join, ExecTypeOK
  <2>2. caller'.port = caller.port
    BY <1>6, <2>1, RoomType DEF Join
  <2> QED
    BY <1>6, <2>1, <2>2 DEF Join, PoolInv, ExecTypeOK
<1>7. CASE CreateExecutor
  <2>1. Range(pool') = Range(pool) \union {caller.port}
    BY <1>7, AppendFacts DEF CreateExecutor, ExecTypeOK
  <2> QED
    BY <1>7, <2>1, GoesType DEF CreateExecutor, PoolInv, ExecTypeOK
<1>8. CASE AddTask
  BY <1>8, GoesType DEF AddTask, PoolInv
<1>9. CASE NotifyTask
  BY <1>9, FreeType DEF NotifyTask, Wakes, PoolInv, ExecTypeOK
<1>10. ASSUME NEW p \in Ports, ThreadStep(p) PROVE PoolInv'
  BY <1>10 DEF ThreadStep, CheckTasks, Block, RunOne, EndBatch, PoolInv, ExecTypeOK
<1> QED
  BY <1>1, <1>2, <1>3, <1>4, <1>5, <1>6, <1>7, <1>8, <1>9, <1>10 DEF ExecNext, CallerStep

-----------------------------------------------------------------------------
(* A request has one owner: RunTask, a queue or a batch of an executor.     *)

Queued(p) == Range(queue[p])
Batched(p) == Range(batch[p])

OwnersApart ==
  \A p, q \in Ports :
    /\ Queued(p) \intersect Batched(q) = {}
    /\ p # q => Queued(p) \intersect Queued(q) = {} /\ Batched(p) \intersect Batched(q) = {}

OwnerInv ==
  /\ \A p \in Ports : IsInjective(queue[p]) /\ IsInjective(batch[p])
  /\ \A p \in Ports : thread[p] # "run" => batch[p] = <<>>
  /\ OwnersApart
  /\ \A p \in Ports : \A c \in Queued(p) \union Batched(p) : reply[c] = "waiting"
  /\ Carries => /\ reply[caller.client] = "waiting"
                /\ \A p \in Ports : caller.client \notin Queued(p) \union Batched(p)

\* What AnsweredOnce says of one client.
Once(c) ==
  /\ reply[c] \in {"waiting", "lost"} => answers[c] = 0
  /\ reply[c] = "done" => answers[c] = 1 \/ kind[c] = "setNothing"

LEMMA OnceForAll == AnsweredOnce <=> \A c \in Clients : Once(c)
BY DEF AnsweredOnce, Once

\* A request that waits is answered.
LEMMA AnswerOnce ==
  ASSUME ExecTypeOK, AnsweredOnce, NEW c \in Clients, reply[c] = "waiting", Answer(c), kind' = kind
  PROVE  AnsweredOnce'
BY DEF Answer, AnsweredOnce, ExecTypeOK

\* A new one has no answer.
LEMMA TakeOnce ==
  ASSUME ExecTypeOK, AnsweredOnce, NEW c \in Clients, Take(c),
         \A x \in Clients \ {c} : kind'[x] = kind[x]
  PROVE  AnsweredOnce'
BY DEF Take, AnsweredOnce, ExecTypeOK

\* What is in a queue or a batch is a client.
LEMMA OwnedClients ==
  ASSUME ExecTypeOK, NEW p \in Ports
  PROVE  Queued(p) \subseteq Clients /\ Batched(p) \subseteq Clients
BY RangeFacts DEF ExecTypeOK, Queued, Batched

LEMMA RunTaskOwner ==
  ASSUME ExecTypeOK, OwnerInv, AnsweredOnce, NEW c \in Clients, NEW p \in Ports,
         RunTask(c, p), kind' = kind
  PROVE  OwnerInv' /\ AnsweredOnce'
<1>1. Take(c) /\ UNCHANGED <<queue, batch, thread>> /\ caller'.client = c
  BY DEF RunTask
<1>2. AnsweredOnce'
  BY <1>1, TakeOnce
<1>3. /\ \A x \in Clients : reply[x] = "waiting" => reply'[x] = "waiting"
      /\ reply'[c] = "waiting" /\ reply[c] # "waiting"
  BY <1>1 DEF Take, ExecTypeOK
<1>4. \A q \in Ports : c \notin Queued(q) \union Batched(q)
  BY <1>3 DEF OwnerInv
<1>5. \A q \in Ports : Queued(q)' = Queued(q) /\ Batched(q)' = Batched(q)
  BY <1>1 DEF Queued, Batched
<1>6. \A q \in Ports : \A x \in Queued(q) \union Batched(q) : reply'[x] = "waiting"
  BY <1>3, OwnedClients DEF OwnerInv
<1>7. OwnersApart'
  BY <1>5 DEF OwnerInv, OwnersApart
<1>8. \A q \in Ports : IsInjective(queue'[q]) /\ IsInjective(batch'[q])
  BY <1>1 DEF OwnerInv
<1> QED
  BY <1>1, <1>2, <1>3, <1>4, <1>5, <1>6, <1>7, <1>8 DEF OwnerInv

\* A step that moves no task: RunTask goes on, or a thread waits.
LEMMA NothingMoves ==
  ASSUME OwnerInv, AnsweredOnce, UNCHANGED <<queue, batch, reply, answers, kind>>,
         caller'.client = caller.client \/ ~Carries',
         Carries' => Carries,
         \A p \in Ports : thread'[p] # "run" => batch[p] = <<>>
  PROVE  OwnerInv' /\ AnsweredOnce'
<1>1. \A q \in Ports : Queued(q)' = Queued(q) /\ Batched(q)' = Batched(q)
  BY DEF Queued, Batched
<1>2. OwnersApart'
  BY <1>1 DEF OwnerInv, OwnersApart
<1>3. AnsweredOnce'
  BY DEF AnsweredOnce
<1>4. \A q \in Ports : IsInjective(queue'[q]) /\ IsInjective(batch'[q])
  BY DEF OwnerInv
<1>5. Carries' => /\ reply'[caller'.client] = "waiting"
                  /\ \A p \in Ports : caller'.client \notin (Queued(p) \union Batched(p))'
  BY <1>1 DEF OwnerInv
<1> QED
  BY <1>1, <1>2, <1>3, <1>4, <1>5 DEF OwnerInv

LEMMA JoinOwner ==
  ASSUME ExecTypeOK, OwnerInv, AnsweredOnce, Join, kind' = kind
  PROVE  OwnerInv' /\ AnsweredOnce'
<1>0. PICK p \in Ports : p = pool[caller.at]
  BY LookedAt DEF Join
<1>1. /\ thread[p] = "end" /\ thread' = [thread EXCEPT ![p] = "none"]
      /\ queue' = [queue EXCEPT ![p] = <<>>]
      /\ reply' = [c \in Clients |-> IF c \in Queued(p) THEN "lost" ELSE reply[c]]
      /\ UNCHANGED <<batch, answers>>
  BY <1>0 DEF Join, Queued
<1>2. Carries /\ caller'.client = caller.client
  <2>1. RemoveAt(pool, caller.at) \in Seq(Ports)
    BY LookedAt, RemoveFacts DEF Join, ExecTypeOK
  <2> QED
    BY <2>1, RoomType DEF Join, Carries
<1>3. /\ Queued(p)' = {}
      /\ \A q \in Ports \ {p} : Queued(q)' = Queued(q)
      /\ \A q \in Ports : Batched(q)' = Batched(q)
  BY <1>1, EmptyFacts DEF Queued, Batched, ExecTypeOK
<1>4. \A q \in Ports : IsInjective(queue'[q]) /\ IsInjective(batch'[q])
  BY <1>1, EmptyFacts DEF OwnerInv, ExecTypeOK
<1>5. OwnersApart'
  BY <1>3 DEF OwnerInv, OwnersApart
<1>6. \A q \in Ports : \A c \in (Queued(q) \union Batched(q))' :
        c \in Clients /\ c \notin Queued(p) /\ reply[c] = "waiting"
  BY <1>1, <1>3, OwnedClients DEF OwnerInv, OwnersApart
<1>7. caller.client \in Clients /\ caller.client \notin Queued(p) /\ reply[caller.client] = "waiting"
  BY <1>1, <1>2 DEF OwnerInv, ExecTypeOK
<1>8. AnsweredOnce'
  <2>1. \A c \in Queued(p) : answers[c] = 0
    BY <1>1, OwnedClients DEF OwnerInv, AnsweredOnce
  <2> QED
    BY <1>1, <2>1 DEF AnsweredOnce
<1>9. \A q \in Ports : thread'[q] # "run" => batch'[q] = <<>>
  BY <1>1 DEF OwnerInv, ExecTypeOK
<1>10. \A q \in Ports : \A c \in (Queued(q) \union Batched(q))' : reply'[c] = "waiting"
  BY <1>1, <1>6
<1>11. /\ reply'[caller'.client] = "waiting"
       /\ \A q \in Ports : caller'.client \notin (Queued(q) \union Batched(q))'
  BY <1>1, <1>2, <1>3, <1>7 DEF OwnerInv
<1> QED
  BY <1>4, <1>5, <1>8, <1>9, <1>10, <1>11 DEF OwnerInv

LEMMA AddTaskOwner ==
  ASSUME ExecTypeOK, OwnerInv, AnsweredOnce, AddTask, kind' = kind
  PROVE  OwnerInv' /\ AnsweredOnce'
<1>0. PICK p \in Ports, c \in Clients : p = caller.port /\ c = caller.client
  BY DEF ExecTypeOK
<1>1. /\ queue[p] \in Seq(Clients)
      /\ queue' = [queue EXCEPT ![p] = Append(@, c)]
      /\ UNCHANGED <<batch, thread, reply, answers>>
  BY <1>0 DEF AddTask, ExecTypeOK
<1>2. reply[c] = "waiting" /\ \A q \in Ports : c \notin Queued(q) \union Batched(q)
  BY <1>0 DEF AddTask, OwnerInv, Carries
<1>3. ~Carries'
  <2>1. "wake" \in CallPc
    BY DEF CallPc
  <2> QED
    BY <2>1, GoesType DEF AddTask, Carries
<1>4. /\ Queued(p)' = Queued(p) \union {c}
      /\ \A q \in Ports \ {p} : Queued(q)' = Queued(q)
      /\ \A q \in Ports : Batched(q)' = Batched(q)
  BY <1>1, AppendFacts DEF Queued, Batched, ExecTypeOK
<1>5. \A q \in Ports : IsInjective(queue'[q]) /\ IsInjective(batch'[q])
  <2>1. IsInjective(Append(queue[p], c))
    BY <1>1, <1>2, AppendFacts DEF OwnerInv, Queued
  <2> QED
    BY <1>1, <2>1 DEF OwnerInv, ExecTypeOK
<1>6. OwnersApart'
  BY <1>2, <1>4 DEF OwnerInv, OwnersApart
<1>7. AnsweredOnce'
  BY <1>1 DEF AnsweredOnce
<1>8. \A q \in Ports : \A x \in (Queued(q) \union Batched(q))' : reply'[x] = "waiting"
  BY <1>1, <1>2, <1>4 DEF OwnerInv
<1>9. \A q \in Ports : thread'[q] # "run" => batch'[q] = <<>>
  BY <1>1 DEF OwnerInv
<1> QED
  BY <1>3, <1>5, <1>6, <1>7, <1>8, <1>9 DEF OwnerInv

LEMMA CallerOwner ==
  ASSUME ExecTypeOK, PoolInv, OwnerInv, AnsweredOnce, CallerStep, kind' = kind
  PROVE  OwnerInv' /\ AnsweredOnce'
<1> USE DEF CallPc
<1>1. CASE FindExecutor
  <2>1. caller'.client = caller.client /\ Carries
    BY <1>1, GoesType, RoomType DEF FindExecutor, ExecTypeOK, Carries
  <2> QED
    BY <1>1, <2>1, NothingMoves DEF FindExecutor, OwnerInv
<1>2. CASE IsIdle
  <2>1. caller.at \in Nat /\ caller.at + 1 \in Nat
    BY DEF ExecTypeOK
  <2>2. caller'.client = caller.client /\ Carries
    BY <1>2, <2>1, GoesType, NextType DEF IsIdle, Carries
  <2> QED
    BY <1>2, <2>2, NothingMoves DEF IsIdle, OwnerInv
<1>3. CASE StopRunning
  <2>1. caller'.client = caller.client /\ Carries
    BY <1>3, GoesType DEF StopRunning, Carries
  <2> QED
    BY <1>3, <2>1, NothingMoves DEF StopRunning, OwnerInv
<1>4. CASE NotifyStopped
  <2>1. caller'.client = caller.client /\ Carries
    BY <1>4, GoesType DEF NotifyStopped, Carries
  <2>2. \A p \in Ports : thread'[p] # "run" => batch[p] = <<>>
    BY <1>4 DEF NotifyStopped, Wakes, OwnerInv, ExecTypeOK
  <2> QED
    BY <1>4, <2>1, <2>2, NothingMoves DEF NotifyStopped
<1>5. CASE Join
  BY <1>5, JoinOwner
<1>6. CASE CreateExecutor
  <2>1. caller'.client = caller.client /\ Carries
    BY <1>6, GoesType DEF CreateExecutor, Carries
  <2>2. caller.port \in Ports /\ thread[caller.port] # "run"
    BY <1>6 DEF CreateExecutor, PoolInv, ExecTypeOK
  <2>3. \A p \in Ports : thread'[p] # "run" => batch[p] = <<>>
    BY <1>6, <2>2 DEF CreateExecutor, OwnerInv, ExecTypeOK
  <2> QED
    BY <1>6, <2>1, <2>3, NothingMoves DEF CreateExecutor
<1>7. CASE AddTask
  BY <1>7, AddTaskOwner
<1>8. CASE NotifyTask
  <2>1. ~Carries'
    BY <1>8, FreeType DEF NotifyTask, Carries
  <2>2. \A p \in Ports : thread'[p] # "run" => batch[p] = <<>>
    BY <1>8 DEF NotifyTask, Wakes, OwnerInv, ExecTypeOK
  <2> QED
    BY <1>8, <2>1, <2>2, NothingMoves DEF NotifyTask
<1> QED
  BY <1>1, <1>2, <1>3, <1>4, <1>5, <1>6, <1>7, <1>8 DEF CallerStep
LEMMA RunOneOwner ==
  ASSUME ExecTypeOK, OwnerInv, AnsweredOnce, NEW p \in Ports, RunOne(p), kind' = kind
  PROVE  OwnerInv' /\ AnsweredOnce'
<1> DEFINE c == Head(batch[p])
<1>0. PICK x \in Clients : x = c
  BY TailFacts DEF RunOne, ExecTypeOK
<1>1. /\ batch[p] \in Seq(Clients) /\ batch[p] # <<>>
      /\ batch' = [batch EXCEPT ![p] = Tail(@)]
      /\ Answer(x) /\ UNCHANGED <<queue, thread, caller>>
      /\ thread[p] = "run"
  BY <1>0 DEF RunOne, ExecTypeOK
<1>2. /\ x \in Batched(p) /\ x \notin Range(Tail(batch[p]))
      /\ IsInjective(Tail(batch[p])) /\ Range(Tail(batch[p])) \subseteq Batched(p)
  BY <1>0, <1>1, TailFacts DEF OwnerInv, Batched
<1> HIDE DEF c
<1>3. /\ Batched(p)' = Range(Tail(batch[p]))
      /\ \A q \in Ports \ {p} : Batched(q)' = Batched(q)
      /\ \A q \in Ports : Queued(q)' = Queued(q)
  BY <1>1 DEF Queued, Batched, ExecTypeOK
<1>4. AnsweredOnce'
  BY <1>1, <1>2, AnswerOnce DEF OwnerInv
<1>5. \A y \in Clients \ {x} : reply'[y] = reply[y]
  BY <1>1 DEF Answer, ExecTypeOK
<1>6. \A q \in Ports : x \notin (Queued(q) \union Batched(q))'
  BY <1>2, <1>3 DEF OwnerInv, OwnersApart
<1>7. OwnersApart'
  BY <1>2, <1>3 DEF OwnerInv, OwnersApart
<1>8. \A q \in Ports : (Queued(q) \union Batched(q))' \subseteq Queued(q) \union Batched(q)
  BY <1>2, <1>3
<1>9. \A q \in Ports : \A y \in (Queued(q) \union Batched(q))' : reply'[y] = "waiting"
  BY <1>5, <1>6, <1>8, OwnedClients DEF OwnerInv
<1>10. Carries' => /\ reply'[caller'.client] = "waiting"
                  /\ \A q \in Ports : caller'.client \notin (Queued(q) \union Batched(q))'
  <2>1. SUFFICES ASSUME Carries
                 PROVE  /\ reply'[caller.client] = "waiting"
                        /\ \A q \in Ports : caller.client \notin (Queued(q) \union Batched(q))'
    BY <1>1 DEF Carries
  <2>2. /\ caller.client \in Clients /\ reply[caller.client] = "waiting"
        /\ \A q \in Ports : caller.client \notin Queued(q) \union Batched(q)
    BY <2>1 DEF OwnerInv, ExecTypeOK
  <2> QED
    BY <1>2, <1>5, <1>8, <2>2
<1>11. \A q \in Ports : IsInjective(queue'[q]) /\ IsInjective(batch'[q])
  BY <1>1, <1>2 DEF OwnerInv, ExecTypeOK
<1>12. \A q \in Ports : thread'[q] # "run" => batch'[q] = <<>>
  BY <1>1 DEF OwnerInv, ExecTypeOK
<1> QED
  BY <1>4, <1>7, <1>9, <1>10, <1>11, <1>12 DEF OwnerInv

\* The thread takes all the tasks of its queue.
LEMMA SwapOwner ==
  ASSUME ExecTypeOK, OwnerInv, AnsweredOnce, NEW p \in Ports, thread[p] = "lock",
         thread' = [thread EXCEPT ![p] = "run"],
         batch' = [batch EXCEPT ![p] = queue[p]],
         queue' = [queue EXCEPT ![p] = <<>>],
         UNCHANGED <<caller, reply, answers, kind>>
  PROVE  OwnerInv' /\ AnsweredOnce'
<1>1. Batched(p) = {}
  BY EmptyFacts DEF OwnerInv, Batched
<1>2. /\ Batched(p)' = Queued(p) /\ Queued(p)' = {}
      /\ \A q \in Ports \ {p} : Batched(q)' = Batched(q) /\ Queued(q)' = Queued(q)
  BY EmptyFacts DEF Queued, Batched, ExecTypeOK
<1>3. OwnersApart'
  BY <1>2 DEF OwnerInv, OwnersApart
<1>4. \A q \in Ports : (Queued(q) \union Batched(q))' = Queued(q) \union Batched(q)
  BY <1>1, <1>2
<1>5. \A q \in Ports : IsInjective(queue'[q]) /\ IsInjective(batch'[q])
  BY EmptyFacts DEF OwnerInv, ExecTypeOK
<1>6. AnsweredOnce'
  BY DEF AnsweredOnce
<1>7. \A q \in Ports : thread'[q] # "run" => batch'[q] = <<>>
  BY DEF OwnerInv, ExecTypeOK
<1>8. Carries' => /\ reply'[caller'.client] = "waiting"
                  /\ \A q \in Ports : caller'.client \notin (Queued(q) \union Batched(q))'
  BY <1>4 DEF OwnerInv, Carries
<1>9. \A q \in Ports : \A y \in (Queued(q) \union Batched(q))' : reply'[y] = "waiting"
  BY <1>4 DEF OwnerInv
<1> QED
  BY <1>3, <1>5, <1>6, <1>7, <1>8, <1>9 DEF OwnerInv

LEMMA ThreadOwner ==
  ASSUME ExecTypeOK, OwnerInv, AnsweredOnce, NEW p \in Ports, ThreadStep(p), kind' = kind
  PROVE  OwnerInv' /\ AnsweredOnce'
<1>1. CASE CheckTasks(p)
  <2>1. CASE running[p] /\ queue[p] # <<>>
    BY <1>1, <2>1, SwapOwner DEF CheckTasks
  <2>2. CASE ~(running[p] /\ queue[p] # <<>>)
    <3>1. UNCHANGED <<queue, batch, reply, answers, caller>>
      BY <1>1, <2>2 DEF CheckTasks
    <3>2. \A q \in Ports : thread'[q] # "run" => batch[q] = <<>>
      BY <1>1, <2>2 DEF CheckTasks, OwnerInv, ExecTypeOK
    <3> QED
      BY <3>1, <3>2, NothingMoves DEF Carries
  <2> QED
    BY <2>1, <2>2
<1>2. CASE Block(p)
  <2>1. \A q \in Ports : thread'[q] # "run" => batch[q] = <<>>
    BY <1>2 DEF Block, OwnerInv, ExecTypeOK
  <2> QED
    BY <1>2, <2>1, NothingMoves DEF Block, Carries
<1>3. CASE RunOne(p)
  BY <1>3, RunOneOwner
<1>4. CASE EndBatch(p)
  <2>1. \A q \in Ports : thread'[q] # "run" => batch[q] = <<>>
    BY <1>4 DEF EndBatch, OwnerInv, ExecTypeOK
  <2> QED
    BY <1>4, <2>1, NothingMoves DEF EndBatch, Carries
<1> QED
  BY <1>1, <1>2, <1>3, <1>4 DEF ThreadStep

\* A step of the executors keeps what is said of them.
LEMMA ExecStep ==
  ASSUME ExecTypeOK, PoolInv, OwnerInv, AnsweredOnce, ExecNext, kind' = kind
  PROVE  ExecTypeOK' /\ PoolInv' /\ OwnerInv' /\ AnsweredOnce'
<1>1. PoolInv'
  BY PoolStep
<1>2. ASSUME NEW c \in Clients, NEW p \in Ports, RunTask(c, p)
      PROVE  ExecTypeOK' /\ OwnerInv' /\ AnsweredOnce'
  BY <1>2, RunTaskType, RunTaskOwner
<1>3. ASSUME CallerStep PROVE ExecTypeOK' /\ OwnerInv' /\ AnsweredOnce'
  BY <1>3, CallerType, CallerOwner
<1>4. ASSUME NEW p \in Ports, ThreadStep(p)
      PROVE  ExecTypeOK' /\ OwnerInv' /\ AnsweredOnce'
  BY <1>4, ThreadType, ThreadOwner
<1> QED
  BY <1>1, <1>2, <1>3, <1>4 DEF ExecNext

-----------------------------------------------------------------------------
(* Both sorts of requests. *)

\* The executors of a port that is in the configuration.
Unused ==
  /\ pool = <<>> /\ caller = Free
  /\ thread = [p \in Ports |-> "none"]
  /\ queue = [p \in Ports |-> <<>>] /\ batch = [p \in Ports |-> <<>>]

\* The tasks of the serial client wait, each once, and the two sorts do not mix.
TasksInv ==
  /\ configured => Unused
  /\ ~configured => tasks = <<>>
  /\ IsInjective(tasks)
  /\ \A c \in Range(tasks) : reply[c] = "waiting"

RequestInv == PoolInv /\ OwnerInv /\ TasksInv /\ AnsweredOnce

LEMMA UnusedInv == Unused => PoolInv /\ OwnerInv
<1> SUFFICES ASSUME Unused PROVE PoolInv /\ OwnerInv
  OBVIOUS
<1>1. \A p \in Ports : /\ thread[p] = "none" /\ queue[p] = <<>> /\ batch[p] = <<>>
                      /\ IsInjective(queue[p]) /\ IsInjective(batch[p])
                      /\ Queued(p) = {} /\ Batched(p) = {}
  BY EmptyFacts DEF Unused, Queued, Batched
<1>2. PoolInv
  BY <1>1, FreeType DEF Unused, PoolInv
<1>3. OwnerInv
  BY <1>1, FreeType DEF Unused, OwnerInv, OwnersApart, Carries
<1> QED
  BY <1>2, <1>3

LEMMA RequestStep ==
  ASSUME TypeOK, RequestInv, NEW c \in Clients, NEW k \in Kind, Request(c, k)
  PROVE  TypeOK' /\ RequestInv'
<1>1. /\ ExecTypeOK /\ tasks \in Seq(Clients) /\ Take(c) /\ configured
      /\ UNCHANGED <<pool, thread, running, idle, queue, batch, caller, configured, deviceVars>>
      /\ tasks' = Append(tasks, c) /\ kind' = [kind EXCEPT ![c] = k]
  BY DEF Request, TypeOK
<1>2. /\ Append(tasks, c) \in Seq(Clients)
      /\ Range(Append(tasks, c)) = Range(tasks) \union {c}
      /\ IsInjective(tasks) /\ c \notin Range(tasks) => IsInjective(Append(tasks, c))
  BY <1>1, AppendFacts
<1>3. reply' \in [Clients -> Reply] /\ answers' \in [Clients -> Nat]
  BY <1>1, TakeType
<1>4. ExecTypeOK'
  BY <1>1, <1>3 DEF ExecTypeOK
<1>5. kind' \in [Clients -> Kind]
  BY <1>1 DEF TypeOK
<1>6. TypeOK'
  BY <1>1, <1>2, <1>4, <1>5 DEF TypeOK, deviceVars
<1>7. Unused'
  BY <1>1 DEF RequestInv, TasksInv, Unused
<1>8. PoolInv' /\ OwnerInv'
  BY <1>7, UnusedInv, PTL
<1>9. c \notin Range(tasks) /\ \A x \in Range(tasks) : x \in Clients /\ reply[x] = "waiting"
  BY <1>1, RangeFacts DEF Take, RequestInv, TasksInv
<1>10. TasksInv'
  BY <1>1, <1>2, <1>7, <1>9 DEF RequestInv, TasksInv, Take, ExecTypeOK
<1>11. AnsweredOnce'
  BY <1>1, TakeOnce DEF RequestInv, TypeOK
<1> QED
  BY <1>6, <1>8, <1>10, <1>11 DEF RequestInv
\* The first task: a request that waits, and no other task is of its client.
LEMMA HeadTask ==
  ASSUME TypeOK, RequestInv, tasks # <<>>
  PROVE  /\ Head(tasks) \in Clients /\ reply[Head(tasks)] = "waiting"
         /\ Tail(tasks) \in Seq(Clients) /\ IsInjective(Tail(tasks))
         /\ Head(tasks) \notin Range(Tail(tasks)) /\ Range(Tail(tasks)) \subseteq Range(tasks)
         /\ configured
BY TailFacts DEF TypeOK, RequestInv, TasksInv

\* The two answers to a Set of nothing.
AnsweredTwice ==
  /\ Asked = "setNothing"
  /\ reply' = [reply EXCEPT ![Head(tasks)] = "done"]
  /\ answers' = [answers EXCEPT ![Head(tasks)] = 2]

LEMMA ServeStep ==
  ASSUME TypeOK, RequestInv, NEW ks, Serve(ks), Answered \/ AnsweredTwice
  PROVE  /\ ExecTypeOK' /\ tasks' \in Seq(Clients) /\ kind' \in [Clients -> Kind]
         /\ configured' = configured
         /\ RequestInv'
<1>1. PICK c \in Clients : c = Head(tasks)
  BY HeadTask DEF Serve
<1>2. /\ reply[c] = "waiting" /\ tasks' \in Seq(Clients) /\ IsInjective(tasks')
      /\ c \notin Range(tasks') /\ Range(tasks') \subseteq Range(tasks) /\ configured
      /\ UNCHANGED <<pool, thread, running, idle, queue, batch, caller, configured, kind>>
  BY <1>1, HeadTask DEF Serve
<1>3. /\ reply' \in [Clients -> Reply] /\ answers' \in [Clients -> Nat] /\ AnsweredOnce'
      /\ \A x \in Clients \ {c} : reply'[x] = reply[x]
  <2>1. CASE Answered
    <3>1. Answer(c)
      BY <1>1, <2>1 DEF Answered
    <3> QED
      BY <1>2, <3>1, AnswerType, AnswerOnce DEF Answer, TypeOK, ExecTypeOK, RequestInv
  <2>2. CASE AnsweredTwice
    <3>1. /\ kind[c] = "setNothing"
          /\ reply' = [reply EXCEPT ![c] = "done"] /\ answers' = [answers EXCEPT ![c] = 2]
      BY <1>1, <2>2 DEF AnsweredTwice, Asked
    <3> QED
      BY <1>2, <3>1 DEF TypeOK, ExecTypeOK, RequestInv, AnsweredOnce, Reply
  <2> QED
    BY <2>1, <2>2
<1>4. ExecTypeOK'
  BY <1>2, <1>3 DEF TypeOK, ExecTypeOK
<1>5. Unused'
  BY <1>2 DEF RequestInv, TasksInv, Unused
<1>6. PoolInv' /\ OwnerInv'
  BY <1>5, UnusedInv, PTL
<1>7. \A x \in Range(tasks') : x \in Clients /\ x # c /\ reply[x] = "waiting"
  BY <1>2, RangeFacts DEF RequestInv, TasksInv
<1>8. TasksInv'
  BY <1>2, <1>3, <1>5, <1>7 DEF TasksInv
<1> QED
  BY <1>2, <1>3, <1>4, <1>6, <1>8 DEF RequestInv, TypeOK

-----------------------------------------------------------------------------
(* The device. *)

DeviceTypeOK ==
  /\ inFile \in BOOLEAN /\ connected \in BOOLEAN /\ bypassed \in BOOLEAN
  /\ device \in Values
  /\ cache \in Values \union {NoValue}

\* The cache of a device that is away is what the file says, which the poll writes when it
\* comes back; and a device that has another value than the file has been bypassed.
CacheInv ==
  /\ CacheFollowsDevice
  /\ ~connected /\ cache # NoValue => inFile /\ cache = FileValue
  /\ connected /\ inFile /\ device # FileValue => bypassed

DeviceInv == DeviceTypeOK /\ CacheInv

LEMMA DisconnectDevice ==
  ASSUME DeviceInv, Disconnect
  PROVE  DeviceInv'
BY DEF Disconnect, DeviceInv, DeviceTypeOK, CacheInv, CacheFollowsDevice

LEMMA PollDevice ==
  ASSUME DeviceInv, PollConnects \/ ChangedAway
  PROVE  DeviceInv'
<1> USE RpcAssumption DEF RpcAssumption, DeviceInv, DeviceTypeOK, CacheInv, CacheFollowsDevice
<1>1. CASE PollConnects
  BY <1>1 DEF PollConnects
<1>2. CASE ChangedAway
  BY <1>2 DEF ChangedAway
<1> QED
  BY <1>1, <1>2

LEMMA TaskDevice ==
  ASSUME DeviceInv, TaskStep
  PROVE  DeviceInv'
<1> USE RpcAssumption DEF RpcAssumption
<1>1. CASE Refuse
  <2>1. CASE UNCHANGED deviceVars
    BY <2>1 DEF deviceVars, DeviceInv, DeviceTypeOK, CacheInv, CacheFollowsDevice
  <2> QED
    BY <1>1, <2>1, DisconnectDevice DEF Refuse
<1>2. CASE AnswerKnown
  <2>1. cache' \in Values /\ (cache' = cache \/ (inFile /\ cache' = FileValue /\ cache = NoValue))
    BY <1>2 DEF AnswerKnown, Known, DeviceInv, DeviceTypeOK
  <2>2. UNCHANGED <<inFile, device, connected, bypassed>>
    BY <1>2 DEF AnswerKnown
  <2> QED
    BY <2>1, <2>2 DEF DeviceInv, DeviceTypeOK, CacheInv, CacheFollowsDevice
<1>3. CASE LoadConfig
  BY <1>3 DEF LoadConfig, ReadParameter, DeviceInv, DeviceTypeOK, CacheInv, CacheFollowsDevice, NotSetUp
<1>4. CASE Load
  BY <1>4 DEF Load, ReadParameter, DeviceInv, DeviceTypeOK, CacheInv, CacheFollowsDevice, NotSetUp
<1>5. CASE Set
  <2>1. device' \in Values /\ bypassed' = TRUE /\ inFile' = inFile /\ cache' = cache
    BY <1>5 DEF Set
  <2>2. connected' = connected \/ connected' = TRUE
    BY <1>5 DEF Set
  <2> QED
    BY <2>1, <2>2 DEF DeviceInv, DeviceTypeOK, CacheInv, CacheFollowsDevice
<1>6. CASE SetNothing
  BY <1>6 DEF SetNothing, deviceVars, DeviceInv, DeviceTypeOK, CacheInv, CacheFollowsDevice
<1>7. CASE Write
  BY <1>7 DEF Write, RemoveEntry, DeviceInv, DeviceTypeOK, CacheInv, CacheFollowsDevice
<1>8. CASE Raw
  BY <1>8 DEF Raw, DeviceInv, DeviceTypeOK, CacheInv, CacheFollowsDevice
<1>9. CASE Scan
  <2>1. CASE UNCHANGED deviceVars
    BY <2>1 DEF deviceVars, DeviceInv, DeviceTypeOK, CacheInv, CacheFollowsDevice
  <2>2. CASE Disconnect
    BY <2>2, DisconnectDevice
  <2>3. CASE /\ connected' = TRUE
             /\ bypassed' = (bypassed \/ NotSetUp)
             /\ UNCHANGED <<inFile, device, cache>>
    BY <2>3 DEF DeviceInv, DeviceTypeOK, CacheInv, CacheFollowsDevice, NotSetUp
  <2> QED
    BY <1>9, <2>1, <2>2, <2>3 DEF Scan
<1>10. CASE ReadOnly
  BY <1>10 DEF ReadOnly, deviceVars, DeviceInv, DeviceTypeOK, CacheInv, CacheFollowsDevice
<1> QED
  BY <1>1, <1>2, <1>3, <1>4, <1>5, <1>6, <1>7, <1>8, <1>9, <1>10 DEF TaskStep
-----------------------------------------------------------------------------
(* The invariant. *)

RpcInv == TypeOK /\ RequestInv /\ CacheInv

LEMMA TypeParts ==
  TypeOK <=> /\ ExecTypeOK /\ tasks \in Seq(Clients) /\ kind \in [Clients -> Kind]
             /\ configured \in BOOLEAN /\ DeviceTypeOK
BY DEF TypeOK, DeviceTypeOK

LEMMA InitInv == Init => RpcInv
<1> SUFFICES ASSUME Init PROVE RpcInv
  OBVIOUS
<1> USE RpcAssumption DEF RpcAssumption, Init, ExecInit
<1>1. ExecTypeOK
  <2>1. <<>> \in Seq(Ports) /\ <<>> \in Seq(Clients)
    BY EmptyFacts
  <2> QED
    BY <2>1, FreeType DEF ExecTypeOK, Pc, Reply
<1>2. DeviceTypeOK
  BY DEF DeviceTypeOK
<1>3. tasks \in Seq(Clients) /\ IsInjective(tasks) /\ Range(tasks) = {}
  BY EmptyFacts
<1>4. TypeOK
  <2>1. kind \in [Clients -> Kind] /\ configured \in BOOLEAN
    BY DEF Kind
  <2> QED
    BY <1>1, <1>2, <1>3, <2>1, TypeParts
<1>5. Unused
  BY DEF Unused
<1>6. RequestInv
  BY <1>3, <1>5, UnusedInv DEF RequestInv, TasksInv, AnsweredOnce
<1>7. CacheInv
  BY DEF CacheInv, CacheFollowsDevice
<1> QED
  BY <1>4, <1>6, <1>7 DEF RpcInv

\* Every step of the serial client serves a request and answers it.
LEMMA TaskServes ==
  ASSUME TaskStep
  PROVE  \E ks : Serve(ks) /\ (Answered \/ AnsweredTwice)
<1>1. CASE Refuse
  BY <1>1 DEF Refuse, AnsweredTwice
<1>2. CASE SetNothing
  BY <1>2 DEF SetNothing, AnsweredTwice, Serve, Asked
<1>3. CASE AnswerKnown \/ LoadConfig \/ Load \/ Set \/ Write \/ Raw \/ Scan \/ ReadOnly
  BY <1>3 DEF AnswerKnown, LoadConfig, Load, Set, Write, Raw, Scan, ReadOnly
<1> QED
  BY <1>1, <1>2, <1>3 DEF TaskStep

LEMMA NextInv == RpcInv /\ [Next]_vars => RpcInv'
<1> SUFFICES ASSUME RpcInv, [Next]_vars PROVE RpcInv'
  OBVIOUS
<1>1. TypeOK /\ RequestInv /\ DeviceInv /\ DeviceTypeOK
  BY TypeParts DEF RpcInv, DeviceInv
<1>2. ASSUME ~configured, ExecNext, UNCHANGED <<configured, tasks, kind, deviceVars>>
      PROVE  RpcInv'
  <2>1. ExecTypeOK' /\ PoolInv' /\ OwnerInv' /\ AnsweredOnce'
    BY <1>1, <1>2, ExecStep, TypeParts DEF RequestInv
  <2>2. tasks' = <<>> /\ TasksInv'
    BY <1>1, <1>2, EmptyFacts DEF RequestInv, TasksInv
  <2>3. DeviceTypeOK' /\ CacheInv'
    BY <1>1, <1>2 DEF deviceVars, DeviceInv, DeviceTypeOK, CacheInv, CacheFollowsDevice
  <2>4. TypeOK'
    BY <1>1, <1>2, <2>1, <2>3 DEF TypeOK, DeviceTypeOK
  <2> QED
    BY <2>1, <2>2, <2>3, <2>4 DEF RpcInv, RequestInv
<1>3. ASSUME NEW c \in Clients, NEW k \in Kind, Request(c, k) PROVE RpcInv'
  <2>1. TypeOK' /\ RequestInv'
    BY <1>1, <1>3, RequestStep
  <2>2. CacheInv'
    BY <1>1, <1>3 DEF Request, deviceVars, DeviceInv, CacheInv, CacheFollowsDevice
  <2> QED
    BY <2>1, <2>2 DEF RpcInv
<1>4. ASSUME TaskStep PROVE RpcInv'
  <2>1. PICK ks : Serve(ks) /\ (Answered \/ AnsweredTwice)
    BY <1>4, TaskServes
  <2>2. /\ ExecTypeOK' /\ tasks' \in Seq(Clients) /\ kind' \in [Clients -> Kind]
        /\ configured' = configured /\ RequestInv'
    BY <1>1, <2>1, ServeStep
  <2>3. DeviceInv'
    BY <1>1, <1>4, TaskDevice
  <2>4. TypeOK'
    BY <1>1, <2>2, <2>3 DEF TypeOK, DeviceInv, DeviceTypeOK
  <2> QED
    BY <2>2, <2>3, <2>4 DEF RpcInv, DeviceInv
<1>5. ASSUME PollFails \/ PollConnects \/ ChangedAway PROVE RpcInv'
  <2>1. UNCHANGED <<execVars, configured, tasks, kind>>
    BY <1>5 DEF PollFails, PollConnects, ChangedAway
  <2>2. DeviceInv'
    BY <1>1, <1>5, DisconnectDevice, PollDevice DEF PollFails
  <2>3. ExecTypeOK' /\ RequestInv'
    BY <1>1, <2>1 DEF execVars, TypeOK, ExecTypeOK, RequestInv, PoolInv, OwnerInv, OwnersApart,
       Queued, Batched, Carries, TasksInv, Unused, AnsweredOnce
  <2>4. TypeOK'
    BY <1>1, <2>1, <2>2, <2>3 DEF TypeOK, DeviceInv, DeviceTypeOK
  <2> QED
    BY <2>2, <2>3, <2>4 DEF RpcInv, DeviceInv
<1>6. ASSUME UNCHANGED vars PROVE RpcInv'
  <2>1. UNCHANGED <<execVars, configured, tasks, kind>> /\ UNCHANGED deviceVars
    BY <1>6 DEF vars
  <2>2. DeviceInv'
    BY <1>1, <2>1 DEF deviceVars, DeviceInv, DeviceTypeOK, CacheInv, CacheFollowsDevice
  <2>3. ExecTypeOK' /\ RequestInv'
    BY <1>1, <2>1 DEF execVars, TypeOK, ExecTypeOK, RequestInv, PoolInv, OwnerInv, OwnersApart,
       Queued, Batched, Carries, TasksInv, Unused, AnsweredOnce
  <2>4. TypeOK'
    BY <1>1, <2>1, <2>2, <2>3 DEF TypeOK, DeviceInv, DeviceTypeOK
  <2> QED
    BY <2>2, <2>3, <2>4 DEF RpcInv, DeviceInv
<1> QED
  BY <1>2, <1>3, <1>4, <1>5, <1>6 DEF Next

LEMMA RpcInvariant == Spec => []RpcInv
BY InitInv, NextInv, PTL DEF Spec

\* The requests, their owners and the device keep their types; RunTask looks only at executors
\* that are in the pool. (RunTask, RemoveUnusedExecutors)
THEOREM TypeCorrect == Spec => []TypeOK
<1>1. RpcInv => TypeOK
  BY DEF RpcInv
<1> QED
  BY <1>1, RpcInvariant, PTL

\* A request gets one answer, and none after it was destroyed with its executor, for any number
\* of clients and executors: it is carried by RunTask, in one queue or in one batch.
\* (AddTask, CheckTasks, RunOne, Join, Serve)
THEOREM RequestsAnsweredOnce == Spec => []AnsweredOnce
<1>1. RpcInv => AnsweredOnce
  BY DEF RpcInv, RequestInv
<1> QED
  BY <1>1, RpcInvariant, PTL

\* The cache of parameters is that of the device, unless something has bypassed it, for any
\* values: what is known of a device that is away is what the poll will write into it.
\* (LoadConfig, Set, Write, Disconnect, PollConnects)
THEOREM CacheIsDevice == Spec => []CacheFollowsDevice
<1>1. RpcInv => CacheFollowsDevice
  BY DEF RpcInv, CacheInv
<1> QED
  BY <1>1, RpcInvariant, PTL


-----------------------------------------------------------------------------
(* The refinement of RequestLines. What a thread runs, the queue that it is filled from and the  *)
(* task that RunTask carries are parts of one line: passing a task from one to the next leaves   *)
(* the line as it is.                                                                            *)

LEMMA HeadTailConcat ==
  ASSUME NEW S, NEW s \in Seq(S), NEW t \in Seq(S), s # <<>>
  PROVE  s \o t # <<>> /\ Head(s \o t) = Head(s) /\ Tail(s \o t) = Tail(s) \o t
<1>1. /\ Len(s) \in Nat \ {0} /\ Len(t) \in Nat
      /\ s \o t \in Seq(S) /\ Len(s \o t) = Len(s) + Len(t)
      /\ \A i \in 1..Len(s) + Len(t) : (s \o t)[i] = IF i <= Len(s) THEN s[i] ELSE t[i - Len(s)]
  BY ConcatProperties, EmptySeq, LenProperties
<1>2. s \o t # <<>>
  BY <1>1, EmptySeq
<1>3. /\ Tail(s) \in Seq(S) /\ Len(Tail(s)) = Len(s) - 1
      /\ \A i \in 1..Len(Tail(s)) : Tail(s)[i] = s[i + 1]
  BY HeadTailProperties
<1>4. /\ Tail(s \o t) \in Seq(S) /\ Len(Tail(s \o t)) = Len(s \o t) - 1
      /\ \A i \in 1..Len(Tail(s \o t)) : Tail(s \o t)[i] = (s \o t)[i + 1]
  BY <1>1, <1>2, HeadTailProperties
<1>5. /\ Tail(s) \o t \in Seq(S) /\ Len(Tail(s) \o t) = Len(Tail(s)) + Len(t)
      /\ \A i \in 1..Len(Tail(s)) + Len(t) :
           (Tail(s) \o t)[i] = IF i <= Len(Tail(s)) THEN Tail(s)[i] ELSE t[i - Len(Tail(s))]
  BY <1>3, ConcatProperties
<1>6. \A i \in 1..Len(Tail(s \o t)) : Tail(s \o t)[i] = (Tail(s) \o t)[i]
  <2> SUFFICES ASSUME NEW i \in 1..Len(Tail(s \o t)) PROVE Tail(s \o t)[i] = (Tail(s) \o t)[i]
    OBVIOUS
  <2>1. i \in 1..Len(s) - 1 + Len(t) /\ i \in Nat
    BY <1>1, <1>4
  <2>2. Tail(s \o t)[i] = IF i + 1 <= Len(s) THEN s[i + 1] ELSE t[i + 1 - Len(s)]
    BY <1>1, <1>4, <2>1
  <2>3. (Tail(s) \o t)[i] = IF i <= Len(s) - 1 THEN s[i + 1] ELSE t[i - (Len(s) - 1)]
    BY <1>1, <1>3, <1>5, <2>1
  <2>4. i - (Len(s) - 1) = i + 1 - Len(s) /\ (i + 1 <= Len(s) <=> i <= Len(s) - 1)
    BY <1>1, <2>1
  <2> QED
    BY <2>2, <2>3, <2>4
<1>7. Tail(s \o t) = Tail(s) \o t
  <2>1. Len(Tail(s \o t)) = Len(Tail(s) \o t)
    BY <1>1, <1>3, <1>4, <1>5
  <2> QED
    BY <1>4, <1>5, <1>6, <2>1, SeqEqual
<1>8. Head(s \o t) = Head(s)
  <2>1. 1 \in 1..Len(s) + Len(t) /\ 1 <= Len(s)
    BY <1>1
  <2> QED
    BY <1>1, <2>1
<1> QED
  BY <1>2, <1>7, <1>8

\* The part of a line that RunTask carries.
Carried(p) == IF Carries /\ caller.port = p THEN <<caller.client>> ELSE <<>>

LEMMA LineParts ==
  ASSUME ExecTypeOK, NEW p \in Ports
  PROVE  /\ batch[p] \in Seq(Clients) /\ queue[p] \in Seq(Clients) /\ Carried(p) \in Seq(Clients)
         /\ batch[p] \o queue[p] \in Seq(Clients)
         /\ Line(p) = (batch[p] \o queue[p]) \o Carried(p)
<1>1. batch[p] \in Seq(Clients) /\ queue[p] \in Seq(Clients) /\ caller.client \in Clients
  BY DEF ExecTypeOK
<1>2. <<>> \in Seq(Clients)
  BY EmptyFacts
<1>3. <<caller.client>> \in Seq(Clients)
  <2>1. Append(<<>>, caller.client) = <<>> \o <<caller.client>> /\ Append(<<>>, caller.client) \in Seq(Clients)
    BY <1>1, <1>2, AppendIsConcat, AppendProperties
  <2> QED
    BY <1>1
<1>4. Carried(p) \in Seq(Clients)
  BY <1>2, <1>3 DEF Carried
<1> QED
  BY <1>1, <1>4, ConcatProperties DEF Line, Carried

\* A line whose parts stay.
LEMMA LineStays ==
  ASSUME NEW p \in Ports, batch'[p] = batch[p], queue'[p] = queue[p], Carried(p)' = Carried(p)
  PROVE  Line(p)' = Line(p)
BY DEF Line, Carried

Mapped == [l \in Ports \union {SerialClient} |-> IF l = SerialClient THEN tasks ELSE Line(l)]

LEMMA OneLineChanges ==
  ASSUME NEW p \in Ports, NEW s, Line(p)' = s, \A q \in Ports \ {p} : Line(q)' = Line(q), tasks' = tasks
  PROVE  Mapped[p] = Line(p) /\ Mapped' = [Mapped EXCEPT ![p] = s]
BY RpcAssumption DEF RpcAssumption, Mapped

LEMMA NoLineChanges ==
  ASSUME \A q \in Ports : Line(q)' = Line(q), tasks' = tasks
  PROVE  Mapped' = Mapped
BY DEF Mapped

LEMMA SerialLineChanges ==
  ASSUME \A q \in Ports : Line(q)' = Line(q)
  PROVE  Mapped[SerialClient] = tasks /\ Mapped' = [Mapped EXCEPT ![SerialClient] = tasks']
BY RpcAssumption DEF RpcAssumption, Mapped

\* A request is in the line of its port as soon as RunTask has it.
LEMMA RunTaskEnters ==
  ASSUME ExecTypeOK, NEW c \in Clients, NEW p \in Ports, RunTask(c, p), tasks' = tasks
  PROVE  Service!Enter(c, p)
<1>1. /\ caller.pc = "free" /\ Take(c) /\ UNCHANGED <<queue, batch>>
      /\ caller' = [pc |-> "find", client |-> c, port |-> p, at |-> 1]
  BY DEF RunTask
<1>2. ~Carries /\ Carries' /\ caller'.port = p /\ caller'.client = c
  BY <1>1 DEF Carries
<1>3. Line(p)' = Append(Line(p), c)
  <2>1. Carried(p) = <<>> /\ Carried(p)' = <<c>>
    BY <1>2 DEF Carried
  <2>2. Line(p) = batch[p] \o queue[p] /\ batch[p] \o queue[p] \in Seq(Clients)
    BY <2>1, LineParts, ConcatEmptySeq
  <2>3. Line(p)' = (batch[p] \o queue[p]) \o <<c>>
    BY <1>1, <1>2 DEF Line
  <2> QED
    BY <2>2, <2>3, AppendIsConcat
<1>4. \A q \in Ports \ {p} : Line(q)' = Line(q)
  BY <1>1, <1>2, LineStays DEF Carried
<1>5. Mapped[p] = Line(p) /\ Mapped' = [Mapped EXCEPT ![p] = Append(Line(p), c)]
  BY <1>3, <1>4, OneLineChanges
<1>6. Mapped' = [Mapped EXCEPT ![p] = Append(@, c)]
  BY <1>5
<1> QED
  BY <1>1, <1>6 DEF Service!Enter, Mapped, Take

\* RunTask finds or makes an executor and gives it the task.
LEMMA CallerKeepsLines ==
  ASSUME ExecTypeOK, FindExecutor \/ IsIdle \/ StopRunning \/ NotifyStopped \/ CreateExecutor \/ AddTask
                       \/ NotifyTask, tasks' = tasks
  PROVE  UNCHANGED Service!vars
<1>1. UNCHANGED <<batch, reply>>
  BY DEF FindExecutor, IsIdle, StopRunning, NotifyStopped, CreateExecutor, AddTask, NotifyTask
<1>2. SUFFICES \A p \in Ports : Line(p)' = Line(p)
  BY <1>1, NoLineChanges DEF Service!vars, Mapped
<1>3. CASE FindExecutor \/ IsIdle \/ StopRunning \/ NotifyStopped \/ CreateExecutor
  <2>1. UNCHANGED queue /\ Carries
    BY <1>3 DEF FindExecutor, IsIdle, StopRunning, NotifyStopped, CreateExecutor, Carries
  <2>2. Carries' /\ caller'.port = caller.port /\ caller'.client = caller.client
    <3>1. CASE FindExecutor
      BY <3>1, GoesType, RoomType DEF FindExecutor, Carries, CallPc, ExecTypeOK
    <3>2. CASE IsIdle
      <4>1. caller.at + 1 \in Nat
        BY DEF ExecTypeOK
      <4> QED
        BY <3>2, <4>1, GoesType, NextType DEF IsIdle, Carries, CallPc
    <3>3. CASE StopRunning \/ NotifyStopped \/ CreateExecutor
      BY <3>3, GoesType DEF StopRunning, NotifyStopped, CreateExecutor, Carries, CallPc
    <3> QED
      BY <1>3, <3>1, <3>2, <3>3
  <2> QED
    BY <1>1, <2>1, <2>2, LineStays DEF Carried
<1>4. CASE AddTask
  <2>0. PICK p \in Ports, c \in Clients : p = caller.port /\ c = caller.client
    BY DEF ExecTypeOK
  <2>1. /\ Carries /\ ~Carries' /\ queue' = [queue EXCEPT ![p] = Append(@, c)]
    BY <1>4, <2>0, GoesType DEF AddTask, Carries, CallPc
  <2>2. \A q \in Ports \ {p} : Line(q)' = Line(q)
    BY <1>1, <2>0, <2>1, LineStays DEF Carried, ExecTypeOK
  <2>3. /\ batch[p] \in Seq(Clients) /\ queue[p] \in Seq(Clients) /\ Carried(p) \in Seq(Clients)
        /\ Line(p) = (batch[p] \o queue[p]) \o Carried(p) /\ Carried(p) = <<c>>
    BY <2>0, <2>1, LineParts DEF Carried
  <2>4. Append(queue[p], c) = queue[p] \o Carried(p) /\ queue[p] \o Carried(p) \in Seq(Clients)
    BY <2>3, AppendIsConcat, ConcatProperties
  <2>5. batch[p] \o Append(queue[p], c) = Line(p) /\ batch[p] \o Append(queue[p], c) \in Seq(Clients)
    <3>1. PICK b \in Seq(Clients), t \in Seq(Clients), s \in Seq(Clients) :
            b = batch[p] /\ t = queue[p] /\ s = Carried(p)
      BY <2>3
    <3>2. (b \o t) \o s = b \o (t \o s)
      BY ConcatAssociative
    <3>3. t \o s \in Seq(Clients) /\ b \o (t \o s) \in Seq(Clients)
      BY ConcatProperties
    <3> QED
      BY <2>3, <2>4, <3>1, <3>2, <3>3
  <2>6. queue'[p] = Append(queue[p], c) /\ batch'[p] = batch[p]
    BY <1>1, <2>1 DEF ExecTypeOK
  <2>7. Line(p)' = (batch[p] \o Append(queue[p], c)) \o <<>>
    BY <2>1, <2>6 DEF Line
  <2> QED
    BY <2>2, <2>5, <2>7, ConcatEmptySeq
<1>5. CASE NotifyTask
  <2>1. ~Carries /\ ~Carries' /\ UNCHANGED queue
    BY <1>5, FreeType DEF NotifyTask, Carries
  <2> QED
    BY <1>1, <2>1, LineStays DEF Carried
<1> QED
  BY <1>3, <1>4, <1>5

\* With an idle executor its line is dropped.
LEMMA JoinDrops ==
  ASSUME ExecTypeOK, PoolInv, OwnerInv, Join, tasks' = tasks
  PROVE  \E p \in Ports : Service!Drop(p)
<1>0. PICK p \in Ports : p = pool[caller.at] /\ p \in Range(pool)
  BY LookedAt, LenProperties DEF Join, Range, ExecTypeOK
<1>1. /\ thread[p] = "end" /\ queue' = [queue EXCEPT ![p] = <<>>]
      /\ reply' = [c \in Clients |-> IF c \in Range(queue[p]) THEN "lost" ELSE reply[c]]
      /\ UNCHANGED batch
  BY <1>0 DEF Join
<1>2. Carries /\ Carries' /\ caller'.port = caller.port /\ caller'.client = caller.client
  <2>1. RemoveAt(pool, caller.at) \in Seq(Ports)
    BY LookedAt, RemoveFacts DEF Join, ExecTypeOK
  <2> QED
    BY <2>1, RoomType DEF Join, Carries
<1>3. caller.port # p
  BY <1>0 DEF Join, PoolInv
<1>4. batch[p] = <<>> /\ Carried(p) = <<>> /\ queue'[p] = <<>> /\ batch'[p] = <<>> /\ Carried(p)' = <<>>
  BY <1>1, <1>2, <1>3 DEF OwnerInv, Carried, ExecTypeOK
<1>5. Line(p) = queue[p]
  BY <1>4, LineParts, ConcatEmptySeq
<1>6. Line(p)' = <<>>
  <2>1. <<>> \in Seq(Clients) /\ <<>> \o <<>> = <<>>
    BY EmptyFacts, ConcatEmptySeq
  <2> QED
    BY <1>4, <2>1 DEF Line, Carried
<1>7. \A q \in Ports \ {p} : Line(q)' = Line(q)
  BY <1>1, <1>2, LineStays DEF Carried, ExecTypeOK
<1>8. Mapped[p] = Line(p) /\ Mapped' = [Mapped EXCEPT ![p] = <<>>]
  BY <1>6, <1>7, OneLineChanges
<1>9. Service!Drop(p)
  BY <1>1, <1>5, <1>8 DEF Service!Drop, Mapped, Range, Service!Range
<1> QED
  BY <1>9

\* A thread takes its queue over, which is behind what it runs, when it runs nothing.
LEMMA ThreadServes ==
  ASSUME ExecTypeOK, OwnerInv, NEW p \in Ports, ThreadStep(p), tasks' = tasks
  PROVE  UNCHANGED Service!vars \/ Service!Serve(p)
<1>0. UNCHANGED caller
  BY DEF ThreadStep, CheckTasks, Block, RunOne, EndBatch
<1>1. \A q \in Ports : Carried(q)' = Carried(q)
  BY <1>0 DEF Carried, Carries
<1>2. CASE RunOne(p)
  <2>1. /\ batch[p] # <<>> /\ batch' = [batch EXCEPT ![p] = Tail(@)] /\ UNCHANGED queue
        /\ Answer(Head(batch[p]))
    BY <1>2 DEF RunOne
  <2>2. \A q \in Ports \ {p} : Line(q)' = Line(q)
    BY <1>1, <2>1, LineStays DEF ExecTypeOK
  <2>3. /\ batch[p] \in Seq(Clients) /\ queue[p] \in Seq(Clients) /\ Carried(p) \in Seq(Clients)
        /\ batch[p] \o queue[p] \in Seq(Clients) /\ Line(p) = (batch[p] \o queue[p]) \o Carried(p)
    BY LineParts
  <2>4. /\ batch[p] \o queue[p] # <<>> /\ Head(batch[p] \o queue[p]) = Head(batch[p])
        /\ Tail(batch[p] \o queue[p]) = Tail(batch[p]) \o queue[p]
    BY <2>1, <2>3, HeadTailConcat
  <2>5. Line(p) # <<>> /\ Head(Line(p)) = Head(batch[p])
        /\ Tail(Line(p)) = (Tail(batch[p]) \o queue[p]) \o Carried(p)
    <3>1. PICK s \in Seq(Clients), t \in Seq(Clients) : s = batch[p] \o queue[p] /\ t = Carried(p)
      BY <2>3
    <3>2. s \o t # <<>> /\ Head(s \o t) = Head(s) /\ Tail(s \o t) = Tail(s) \o t
      BY <2>4, <3>1, HeadTailConcat
    <3> QED
      BY <2>3, <2>4, <3>1, <3>2
  <2>6. Line(p)' = Tail(Line(p))
    <3>1. batch'[p] = Tail(batch[p]) /\ queue'[p] = queue[p]
      BY <2>1 DEF ExecTypeOK
    <3>2. Line(p)' = (batch'[p] \o queue'[p]) \o Carried(p)'
      BY DEF Line, Carried
    <3> QED
      BY <1>1, <2>5, <3>1, <3>2
  <2>7. Mapped[p] = Line(p) /\ Mapped' = [Mapped EXCEPT ![p] = Tail(@)]
    BY <2>2, <2>6, OneLineChanges
  <2> QED
    BY <2>1, <2>5, <2>7 DEF Service!Serve, Mapped, Answer
<1>3. CASE CheckTasks(p) \/ Block(p) \/ EndBatch(p)
  <2>1. UNCHANGED reply
    BY <1>3 DEF CheckTasks, Block, EndBatch
  <2>2. SUFFICES \A q \in Ports : Line(q)' = Line(q)
    BY <2>1, NoLineChanges DEF Service!vars, Mapped
  <2>3. CASE UNCHANGED <<queue, batch>>
    BY <1>1, <2>3, LineStays
  <2>4. CASE batch' = [batch EXCEPT ![p] = queue[p]] /\ queue' = [queue EXCEPT ![p] = <<>>] /\ thread[p] = "lock"
    <3>1. \A q \in Ports \ {p} : Line(q)' = Line(q)
      BY <1>1, <2>4, LineStays DEF ExecTypeOK
    <3>2. batch[p] = <<>> /\ batch'[p] = queue[p] /\ queue'[p] = <<>>
      BY <2>4 DEF OwnerInv, ExecTypeOK
    <3>3. queue[p] \in Seq(Clients) /\ Line(p) = (<<>> \o queue[p]) \o Carried(p)
      BY <3>2, LineParts
    <3>4. Line(p)' = (queue[p] \o <<>>) \o Carried(p)'
      BY <3>2 DEF Line, Carried
    <3>5. queue[p] \o <<>> = <<>> \o queue[p]
      BY <3>3, ConcatEmptySeq
    <3> QED
      BY <1>1, <3>1, <3>3, <3>4, <3>5
  <2> QED
    BY <1>3, <2>3, <2>4 DEF CheckTasks, Block, EndBatch
<1> QED
  BY <1>2, <1>3 DEF ThreadStep

\* The serial client has one queue.
LEMMA SerialServes ==
  ASSUME TypeOK, RequestInv,
         (\E c \in Clients, k \in Kind : Request(c, k)) \/ (\E ks : Serve(ks) /\ (Answered \/ AnsweredTwice))
  PROVE  Service!Serve(SerialClient) \/ \E c \in Clients : Service!Enter(c, SerialClient)
<1>1. UNCHANGED <<queue, batch, caller>>
  BY DEF Request, Serve
<1>2. \A q \in Ports : Line(q)' = Line(q)
  BY <1>1, LineStays DEF Carried, Carries
<1>3. Mapped[SerialClient] = tasks /\ Mapped' = [Mapped EXCEPT ![SerialClient] = tasks']
  BY <1>2, SerialLineChanges
<1>4. ASSUME NEW c \in Clients, NEW k \in Kind, Request(c, k) PROVE Service!Enter(c, SerialClient)
  <2>1. Take(c) /\ Mapped' = [Mapped EXCEPT ![SerialClient] = Append(@, c)]
    BY <1>3, <1>4 DEF Request
  <2> QED
    BY <2>1 DEF Service!Enter, Mapped, Take
<1>5. ASSUME NEW ks, Serve(ks), Answered \/ AnsweredTwice PROVE Service!Serve(SerialClient)
  <2>1. tasks # <<>> /\ tasks' = Tail(tasks)
    BY <1>5 DEF Serve
  <2>2. reply' = [reply EXCEPT ![Head(tasks)] = "done"]
    BY <1>5 DEF Answered, Answer, AnsweredTwice
  <2>3. Mapped' = [Mapped EXCEPT ![SerialClient] = Tail(@)]
    BY <1>3, <2>1
  <2> QED
    BY <1>3, <2>1, <2>2, <2>3 DEF Service!Serve, Mapped
<1> QED
  BY <1>4, <1>5

\* Each port answers its requests one after the other and in the order in which they came, for any
\* clients, ports and numbers of executors; the lines of executors that are destroyed are dropped
\* as a whole.
THEOREM RequestsServedInOrder == Spec => ServedInOrder
<1>1. Init => Service!Init
  <2> SUFFICES ASSUME Init PROVE Service!Init
    OBVIOUS
  <2>1. /\ tasks = <<>> /\ ~Carries /\ reply = [c \in Clients |-> "none"]
        /\ \A p \in Ports : batch[p] = <<>> /\ queue[p] = <<>>
    BY FreeType DEF Init, ExecInit, Carries
  <2>2. <<>> \o <<>> = <<>>
    BY EmptyFacts, ConcatEmptySeq
  <2>3. \A p \in Ports : Line(p) = <<>>
    BY <2>1, <2>2 DEF Line
  <2> QED
    BY <2>1, <2>3 DEF Service!Init
<1>2. RpcInv /\ [Next]_vars => [Service!Next]_(Service!vars)
  <2> SUFFICES ASSUME RpcInv, [Next]_vars PROVE [Service!Next]_(Service!vars)
    OBVIOUS
  <2>0. TypeOK /\ RequestInv /\ ExecTypeOK /\ PoolInv /\ OwnerInv
    BY DEF RpcInv, RequestInv, TypeOK
  <2>1. CASE ~configured /\ ExecNext /\ UNCHANGED <<configured, tasks, kind, deviceVars>>
    <3>1. ASSUME NEW c \in Clients, NEW p \in Ports, RunTask(c, p) PROVE Service!Next
      BY <2>0, <2>1, <3>1, RunTaskEnters DEF Service!Next
    <3>2. CASE Join
      BY <2>0, <2>1, <3>2, JoinDrops, RpcAssumption DEF RpcAssumption, Service!Next
    <3>3. ASSUME NEW p \in Ports, ThreadStep(p) PROVE UNCHANGED Service!vars \/ Service!Next
      BY <2>0, <2>1, <3>3, ThreadServes DEF Service!Next
    <3> QED
      BY <2>0, <2>1, <3>1, <3>2, <3>3, CallerKeepsLines DEF ExecNext, CallerStep
  <2>2. CASE (\E c \in Clients, k \in Kind : Request(c, k)) \/ (\E ks : Serve(ks) /\ (Answered \/ AnsweredTwice))
    BY <2>0, <2>2, SerialServes DEF Service!Next
  <2>3. CASE PollFails \/ PollConnects \/ ChangedAway \/ UNCHANGED vars
    <3>1. UNCHANGED <<execVars, tasks>>
      BY <2>3 DEF PollFails, PollConnects, ChangedAway, vars
    <3>2. UNCHANGED <<batch, queue, caller, reply>> /\ tasks' = tasks
      BY <3>1 DEF execVars
    <3>3. \A q \in Ports : Line(q)' = Line(q)
      BY <3>2, LineStays DEF Carried, Carries
    <3> QED
      BY <3>2, <3>3, NoLineChanges DEF Service!vars, Mapped
  <2>4. TaskStep => \E ks : Serve(ks) /\ (Answered \/ AnsweredTwice)
    BY TaskServes
  <2> QED
    BY <2>1, <2>2, <2>3, <2>4 DEF Next
<1> QED
  BY <1>1, <1>2, RpcInvariant, PTL DEF Spec, ServedInOrder, Service!Spec
=============================================================================
