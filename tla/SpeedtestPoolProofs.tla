------------------------- MODULE SpeedtestPoolProofs -------------------------
(***************************************************************************)
(* Theorems about SpeedtestPool for every number of requests, threads and  *)
(* units.  PoolInv is inductive: the threads taken, queued and still to be *)
(* queued are consecutive requests, and in_flight, as stored or as read by *)
(* the producer or the consumer, is within the lost updates of the number  *)
(* begun and not given back.                                               *)
(***************************************************************************)
EXTENDS SpeedtestPool, FiniteSetTheorems, TLAPS

LEMMA InitType == Init => TypeOK
<1> SUFFICES ASSUME Init PROVE TypeOK
  OBVIOUS
<1>1. queue \in Seq(Request) /\ finished \in Seq(0 .. Body \cup {None})
  BY DEF Init
<1>2. /\ moved \in [Request -> 0 .. Body]
      /\ result \in [Request -> 0 .. Body \cup {None}]
      /\ worker \in [Request -> {"new"}]
  BY PoolAssumption DEF Init
<1>3. /\ prod = "wait" /\ cons = "get" /\ main = "join"
      /\ next = 1 /\ cur = 0 /\ held = 0 /\ kept = 0 /\ inFlight = 0
      /\ expired = FALSE /\ interrupted = FALSE /\ upload \in BOOLEAN
      /\ maxThreads \in Limits /\ lostUps \in Nat /\ lostDowns \in Nat
  BY DEF Init
<1>4. next \in Request /\ next \in 1 .. Requests + 1 /\ cur \in 0 .. Requests
  BY <1>3, PoolAssumption DEF Request
<1>5. worker \in [Request -> {"new", "started", "open", "loop", "reading",
                              "answer", "dead"}]
  BY <1>2
<1>6. prod \in {"wait", "put", "add", "store", "done", "died"} /\ prod # "done"
  BY <1>3
<1>7. held \in Int /\ kept \in Int /\ inFlight \in Int
  BY <1>3
<1> QED  BY <1>1, <1>2, <1>3, <1>4, <1>5, <1>6, <1>7 DEF TypeOK

(* No action of the producer breaks the types. *)
LEMMA ProducerType == ASSUME TypeOK, Producer PROVE TypeOK'
<1> USE PoolAssumption DEF TypeOK, Request, consumerVars, callerVars, workerVars
<1>1. CASE StartThread
  BY <1>1 DEF StartThread
<1>2. CASE StartFails
  BY <1>2 DEF StartFails
<1>3. CASE PutThread
  BY <1>3 DEF PutThread
<1>4. CASE CountUp
  BY <1>4 DEF CountUp
<1>5. CASE StoreUp
  BY <1>5 DEF StoreUp
<1> QED  BY <1>1, <1>2, <1>3, <1>4, <1>5 DEF Producer

LEMMA ConsumerType == ASSUME TypeOK, Consumer PROVE TypeOK'
<1> USE PoolAssumption DEF TypeOK, Request, producerVars, callerVars, workerVars
<1>1. CASE GetThread
  BY <1>1 DEF GetThread
<1>2. CASE JoinThread
  BY <1>2 DEF JoinThread
<1>3. CASE CountDown
  BY <1>3 DEF CountDown
<1>4. CASE StoreDown
  BY <1>4 DEF StoreDown
<1>5. CASE AppendResult
  <2>1. ResultOf(cur) \in 0 .. Body \cup {None}
    BY <1>5 DEF AppendResult, ResultOf
  <2> QED  BY <1>5, <2>1 DEF AppendResult
<1> QED  BY <1>1, <1>2, <1>3, <1>4, <1>5 DEF Consumer

LEMMA WorkerType == ASSUME TypeOK, NEW i \in Request, Worker(i) PROVE TypeOK'
<1> USE PoolAssumption DEF TypeOK, WorkerOnly, producerVars, consumerVars,
                           callerVars, poolQueue
<1>1. CASE WorkerBegins(i)
  BY <1>1 DEF WorkerBegins
<1>2. CASE Opened(i)
  BY <1>2 DEF Opened
<1>3. CASE CheckTime(i)
  BY <1>3 DEF CheckTime
<1>4. CASE ReadPiece(i)
  BY <1>4 DEF ReadPiece
<1>5. CASE ReadEmpty(i)
  BY <1>5 DEF ReadEmpty
<1>6. CASE TransferEnds(i)
  BY <1>6 DEF TransferEnds
<1>7. CASE ThreadDies(i)
  BY <1>7 DEF ThreadDies
<1> QED  BY <1>1, <1>2, <1>3, <1>4, <1>5, <1>6, <1>7 DEF Worker

LEMMA CallerType ==
  ASSUME TypeOK, CallerReturns \/ Expire \/ CtrlC PROVE TypeOK'
<1> USE DEF TypeOK, producerVars, consumerVars, workerVars, poolQueue
<1>1. CASE CallerReturns
  BY <1>1 DEF CallerReturns
<1>2. CASE Expire
  BY <1>2 DEF Expire
<1>3. CASE CtrlC
  BY <1>3 DEF CtrlC
<1> QED  BY <1>1, <1>2, <1>3

LEMMA StepType == TypeOK /\ [Next]_vars => TypeOK'
<1> SUFFICES ASSUME TypeOK, [Next]_vars PROVE TypeOK'
  OBVIOUS
<1>1. CASE UNCHANGED vars
  BY <1>1 DEF TypeOK, vars
<1>2. CASE Next
  BY <1>2, ProducerType, ConsumerType, WorkerType, CallerType DEF Next
<1> QED  BY <1>1, <1>2

(* Every reachable state of the pool is well typed, for any number of      *)
(* requests, threads and units.                                            *)
THEOREM PoolTypeCorrect == Spec => []TypeOK
BY InitType, StepType, PTL DEF Spec
-----------------------------------------------------------------------------
(* The order of the threads.                                               *)

LEMMA AppendFacts ==
  ASSUME NEW S, NEW q \in Seq(S), NEW e \in S
  PROVE  /\ Append(q, e) \in Seq(S)
         /\ Len(Append(q, e)) = Len(q) + 1
         /\ \A k \in 1 .. Len(q) : Append(q, e)[k] = q[k]
         /\ Append(q, e)[Len(q) + 1] = e
OBVIOUS

LEMMA TailFacts ==
  ASSUME NEW S, NEW q \in Seq(S), q # <<>>
  PROVE  /\ Len(q) \in Nat \ {0}
         /\ Len(Tail(q)) = Len(q) - 1
         /\ \A k \in 1 .. Len(q) - 1 : Tail(q)[k] = q[k + 1]
         /\ Head(q) = q[1]
OBVIOUS

(* The numbers of threads taken, queued and begun. *)
LEMMA Counts ==
  ASSUME TypeOK
  PROVE  /\ Taken \in Nat /\ Put \in Nat /\ Begun \in Nat
         /\ Len(queue) \in Nat /\ Len(finished) \in Nat /\ next \in Nat \ {0}
         /\ Put \in {next - 1, next} /\ Begun \in {Put, next}
         /\ Put <= Begun /\ Begun <= Requests
         /\ Len(finished) <= Taken /\ Taken <= Len(finished) + 1
BY PoolAssumption DEF TypeOK, Taken, Put, Begun, Request

LEMMA InitQueue == Init => QueueInv
<1> SUFFICES ASSUME Init PROVE QueueInv
  OBVIOUS
<1>1. Taken = 0 /\ Put = 0 /\ Begun = 0 /\ Len(queue) = 0 /\ Len(finished) = 0
  BY DEF Init, Taken, Put, Begun
<1>2. QueueOrder
  BY <1>1 DEF QueueOrder
<1>3. TakenInv
  BY <1>1, PoolAssumption DEF TakenInv, Init
<1>4. ThreadInv
  BY <1>1, PoolAssumption DEF ThreadInv, Init, Request
<1> QED  BY <1>2, <1>3, <1>4 DEF QueueInv

(* Producer and queue: what is appended is the next request in turn.       *)
LEMMA ProducerQueue == ASSUME TypeOK, QueueInv, Producer PROVE QueueInv'
<1> USE Counts DEF QueueInv
<1>0. /\ Taken' = Taken /\ finished' = finished /\ cons' = cons /\ cur' = cur
      /\ \A i \in Request : ResultOf(i)' = ResultOf(i)
      /\ moved' = moved /\ result' = result /\ upload' = upload
  BY DEF Producer, StartThread, StartFails, PutThread, CountUp, StoreUp,
         consumerVars, workerVars, callerVars, Taken, ResultOf
<1>1. CASE StartThread
  <2>1. /\ Put' = Put /\ Begun' = next /\ Begun = next - 1 /\ Put = next - 1
        /\ queue' = queue /\ next \in Request
        /\ worker' = [worker EXCEPT ![next] = "started"]
    BY <1>1 DEF StartThread, Put, Begun, TypeOK
  <2>2. QueueOrder'
    BY <1>0, <2>1 DEF QueueOrder
  <2>3. Taken < next /\ Len(finished) < next
    BY <2>1 DEF QueueOrder
  <2>4. TakenInv'
    BY <1>0, <2>1, <2>3 DEF TakenInv, TypeOK
  <2>5. ThreadInv'
    <3> SUFFICES ASSUME NEW i \in Request
        PROVE  /\ worker'[i] = "new" <=> i > Begun'
               /\ i <= Len(finished) => worker'[i] = "dead" /\ finished[i] = ResultOf(i)
               /\ worker'[i] \in {"new", "started"} => moved[i] = 0
               /\ IF worker'[i] = "dead" /\ upload THEN result[i] \in {moved[i], None}
                                                   ELSE result[i] = None
      BY <1>0 DEF ThreadInv
    <3>1. CASE i = next
      BY <2>1, <2>3, <3>1 DEF TypeOK, ThreadInv
    <3>2. CASE i # next
      <4>1. worker'[i] = worker[i]
        BY <2>1, <3>2 DEF TypeOK
      <4>2. i > next <=> i > next - 1
        BY <3>2, <2>1 DEF Request
      <4> QED  BY <2>1, <4>1, <4>2 DEF ThreadInv
    <3> QED  BY <3>1, <3>2
  <2> QED  BY <2>2, <2>4, <2>5
<1>2. CASE StartFails \/ CountUp \/ StoreUp
  <2>1. queue' = queue /\ worker' = worker
    BY <1>2 DEF StartFails, CountUp, StoreUp, workerVars
  <2>2. Put' = Put /\ Begun' = Begun
    <3>1. CASE StartFails
      BY <3>1 DEF StartFails, Put, Begun
    <3>2. CASE CountUp
      BY <3>2 DEF CountUp, Put, Begun
    <3>3. CASE StoreUp
      <4>1. prod = "store" /\ next' = next + 1 /\ prod' \in {"wait", "done"}
        BY <3>3 DEF StoreUp
      <4> QED  BY <4>1 DEF Put, Begun
    <3> QED  BY <1>2, <3>1, <3>2, <3>3
  <2>3. QueueOrder'
    BY <1>0, <2>1, <2>2 DEF QueueOrder
  <2>4. TakenInv'
    BY <1>0, <2>1 DEF TakenInv
  <2>5. ThreadInv'
    BY <1>0, <2>1, <2>2 DEF ThreadInv
  <2> QED  BY <2>3, <2>4, <2>5
<1>3. CASE PutThread
  <2>1. Put' = next /\ Put = next - 1 /\ Begun' = Begun /\ next \in Request
        /\ worker' = worker /\ queue' = Append(queue, next) /\ queue \in Seq(Request)
    BY <1>3 DEF PutThread, Put, Begun, TypeOK, workerVars
  <2>2. /\ Len(queue') = Len(queue) + 1
        /\ \A k \in 1 .. Len(queue) : queue'[k] = queue[k]
        /\ queue'[Len(queue) + 1] = next
    BY <2>1, AppendFacts
  <2>3. Len(queue') = Put' - Taken
    BY <2>1, <2>2 DEF QueueOrder
  <2>4. ASSUME NEW k \in 1 .. Len(queue') PROVE queue'[k] = Taken + k
    <3>1. CASE k \in 1 .. Len(queue)
      BY <2>2, <3>1 DEF QueueOrder
    <3>2. CASE k = Len(queue) + 1
      <4>1. queue'[k] = next
        BY <2>2, <3>2
      <4>2. Len(queue) = (next - 1) - Taken
        BY <2>1 DEF QueueOrder
      <4> QED  BY <3>2, <4>1, <4>2
    <3> QED  BY <2>2, <3>1, <3>2
  <2>5. QueueOrder'
    BY <1>0, <2>3, <2>4 DEF QueueOrder
  <2>6. TakenInv'
    BY <1>0, <2>1 DEF TakenInv
  <2>7. ThreadInv'
    BY <1>0, <2>1 DEF ThreadInv
  <2> QED  BY <2>5, <2>6, <2>7
<1> QED  BY <1>1, <1>2, <1>3 DEF Producer

LEMMA ConsumerQueue == ASSUME TypeOK, QueueInv, Consumer PROVE QueueInv'
<1> USE Counts DEF QueueInv
<1>0. /\ Put' = Put /\ Begun' = Begun /\ worker' = worker
      /\ \A i \in Request : ResultOf(i)' = ResultOf(i)
      /\ moved' = moved /\ result' = result /\ upload' = upload
  BY DEF Consumer, GetThread, JoinThread, CountDown, StoreDown, AppendResult,
         producerVars, workerVars, callerVars, Put, Begun, ResultOf
<1>1. CASE GetThread
  <2>1. /\ queue # <<>> /\ queue \in Seq(Request) /\ queue' = Tail(queue)
        /\ cur' = Head(queue) /\ finished' = finished
        /\ cons = "get" /\ cons' = "join"
    BY <1>1 DEF GetThread, TypeOK
  <2>2. Taken = Len(finished) /\ Taken' = Taken + 1
    BY <2>1 DEF Taken
  <2>3. /\ Len(queue) \in Nat \ {0} /\ Len(queue') = Len(queue) - 1
        /\ \A k \in 1 .. Len(queue) - 1 : queue'[k] = queue[k + 1]
        /\ cur' = queue[1]
    BY <2>1, TailFacts
  <2>4. cur' = Taken + 1
    BY <2>3 DEF QueueOrder
  <2>5. ASSUME NEW k \in 1 .. Len(queue') PROVE queue'[k] = Taken' + k
    <3>1. k \in 1 .. Len(queue) - 1 /\ k + 1 \in 1 .. Len(queue)
      BY <2>3
    <3>2. queue[k + 1] = Taken + (k + 1)
      BY <3>1 DEF QueueOrder
    <3> QED  BY <2>2, <2>3, <3>1, <3>2
  <2>6. Len(queue') = Put' - Taken'
    BY <1>0, <2>2, <2>3 DEF QueueOrder
  <2>7. QueueOrder'
    BY <2>5, <2>6 DEF QueueOrder
  <2>8. TakenInv'
    BY <1>0, <2>1, <2>2, <2>4 DEF TakenInv
  <2>9. ThreadInv'
    BY <1>0, <2>1 DEF ThreadInv
  <2> QED  BY <2>7, <2>8, <2>9
<1>2. CASE JoinThread \/ CountDown \/ StoreDown
  <2>1. /\ queue' = queue /\ finished' = finished /\ cur' = cur
        /\ cons \in {"join", "sub", "store"} /\ cons' \in {"sub", "store", "append"}
        /\ cons = "join" => worker[cur] = "dead"
    BY <1>2 DEF JoinThread, CountDown, StoreDown
  <2>2. Taken' = Taken
    BY <2>1 DEF Taken
  <2>3. QueueOrder'
    BY <1>0, <2>1, <2>2 DEF QueueOrder
  <2>4. TakenInv'
    BY <1>0, <2>1, <2>2 DEF TakenInv
  <2>5. ThreadInv'
    BY <1>0, <2>1 DEF ThreadInv
  <2> QED  BY <2>3, <2>4, <2>5
<1>3. CASE AppendResult
  <2> DEFINE n == Len(finished)
  <2>1. /\ queue' = queue /\ cons = "append" /\ cur \in Request
        /\ finished' = Append(finished, ResultOf(cur))
        /\ finished \in Seq(0 .. Body \cup {None})
        /\ ResultOf(cur) \in 0 .. Body \cup {None}
    BY <1>3 DEF AppendResult, TypeOK, ResultOf
  <2>2. /\ Len(finished') = n + 1
        /\ \A k \in 1 .. n : finished'[k] = finished[k]
        /\ finished'[n + 1] = ResultOf(cur)
    BY <2>1, AppendFacts
  <2>3. cons' = IF n + 1 = Requests THEN "done" ELSE "get"
    BY <1>3 DEF AppendResult
  <2>4. Taken = n + 1 /\ Taken' = Taken /\ cur = n + 1
    BY <2>1, <2>2, <2>3 DEF Taken, TakenInv
  <2>5. QueueOrder'
    BY <1>0, <2>1, <2>4 DEF QueueOrder
  <2>6. TakenInv'
    BY <2>2, <2>3 DEF TakenInv
  <2>7. ThreadInv'
    <3> SUFFICES ASSUME NEW i \in Request
        PROVE  i <= n + 1 => worker[i] = "dead" /\ finished'[i] = ResultOf(i)
      BY <1>0, <2>2 DEF ThreadInv
    <3>1. CASE i \in 1 .. n
      BY <2>2, <3>1 DEF ThreadInv
    <3>2. CASE i = n + 1
      BY <2>1, <2>2, <2>4, <3>2 DEF TakenInv
    <3>3. i <= n + 1 => i \in 1 .. n \/ i = n + 1
      BY DEF Request
    <3> QED  BY <3>1, <3>2, <3>3
  <2> QED  BY <2>5, <2>6, <2>7
<1> QED  BY <1>1, <1>2, <1>3 DEF Consumer

(* A worker touches its own entries only, and no longer once it is dead.   *)
LEMMA WorkerStep ==
  ASSUME TypeOK, ThreadInv, NEW i \in Request, Worker(i)
  PROVE  /\ worker[i] \notin {"new", "dead"}
         /\ worker'[i] \notin {"new", "started"}
         /\ IF worker'[i] = "dead" /\ upload THEN result'[i] \in {moved'[i], None}
                                             ELSE result'[i] = None
         /\ \A j \in Request \ {i} : /\ worker'[j] = worker[j]
                                     /\ moved'[j] = moved[j]
                                     /\ result'[j] = result[j]
         /\ WorkerOnly
<1> USE DEF TypeOK
<1>0. /\ worker[i] # "dead" => result[i] = None
      /\ worker[i] = "started" => moved[i] = 0
  BY DEF ThreadInv
<1>1. CASE WorkerBegins(i)
  BY <1>0, <1>1 DEF WorkerBegins
<1>2. CASE Opened(i)
  BY <1>0, <1>2 DEF Opened
<1>3. CASE CheckTime(i)
  BY <1>0, <1>3 DEF CheckTime
<1>4. CASE ReadPiece(i)
  BY <1>0, <1>4 DEF ReadPiece
<1>5. CASE ReadEmpty(i)
  BY <1>0, <1>5 DEF ReadEmpty
<1>6. CASE TransferEnds(i)
  BY <1>0, <1>6 DEF TransferEnds
<1>7. CASE ThreadDies(i)
  BY <1>0, <1>7 DEF ThreadDies
<1> QED  BY <1>1, <1>2, <1>3, <1>4, <1>5, <1>6, <1>7 DEF Worker

LEMMA WorkerQueue ==
  ASSUME TypeOK, QueueInv, NEW i \in Request, Worker(i) PROVE QueueInv'
<1> USE Counts DEF QueueInv
<1>1. /\ worker[i] \notin {"new", "dead"} /\ worker'[i] \notin {"new", "started"}
      /\ IF worker'[i] = "dead" /\ upload THEN result'[i] \in {moved'[i], None}
                                          ELSE result'[i] = None
      /\ \A j \in Request \ {i} : /\ worker'[j] = worker[j]
                                  /\ moved'[j] = moved[j]
                                  /\ result'[j] = result[j]
  BY WorkerStep
<1>2. WorkerOnly
  BY WorkerStep
<1>3. /\ queue' = queue /\ cons' = cons /\ cur' = cur /\ finished' = finished
      /\ Put' = Put /\ Taken' = Taken /\ Begun' = Begun /\ upload' = upload
  BY <1>2 DEF WorkerOnly, producerVars, consumerVars, callerVars, poolQueue,
              Put, Taken, Begun
<1>4. QueueOrder'
  BY <1>3 DEF QueueOrder
<1>5. TakenInv'
  BY <1>1, <1>3 DEF TakenInv, TypeOK
<1>6. ThreadInv'
  <2> SUFFICES ASSUME NEW j \in Request
      PROVE  /\ worker'[j] = "new" <=> j > Begun
             /\ j <= Len(finished) => worker'[j] = "dead" /\ finished[j] = ResultOf(j)'
             /\ worker'[j] \in {"new", "started"} => moved'[j] = 0
             /\ IF worker'[j] = "dead" /\ upload THEN result'[j] \in {moved'[j], None}
                                                 ELSE result'[j] = None
    BY <1>3 DEF ThreadInv
  <2>1. CASE j = i
    BY <1>1, <2>1 DEF ThreadInv
  <2>2. CASE j # i
    <3>1. worker'[j] = worker[j] /\ moved'[j] = moved[j] /\ result'[j] = result[j]
      BY <1>1, <2>2
    <3>2. ResultOf(j)' = ResultOf(j)
      BY <1>3, <3>1 DEF ResultOf
    <3> QED  BY <3>1, <3>2 DEF ThreadInv
  <2> QED  BY <2>1, <2>2
<1> QED  BY <1>4, <1>5, <1>6

LEMMA CallerQueue ==
  ASSUME QueueInv, CallerReturns \/ Expire \/ CtrlC \/ UNCHANGED vars
  PROVE  QueueInv'
<1>1. /\ UNCHANGED producerVars /\ UNCHANGED consumerVars
      /\ UNCHANGED workerVars /\ UNCHANGED poolQueue /\ upload' = upload
  BY DEF CallerReturns, Expire, CtrlC, vars, producerVars, consumerVars,
         workerVars, poolQueue
<1>2. /\ Put' = Put /\ Taken' = Taken /\ Begun' = Begun
      /\ \A i \in Request : ResultOf(i)' = ResultOf(i)
  BY <1>1 DEF producerVars, consumerVars, workerVars, Put, Taken, Begun, ResultOf
<1> QED
  BY <1>1, <1>2 DEF QueueInv, QueueOrder, TakenInv, ThreadInv, producerVars,
                    consumerVars, workerVars, poolQueue

LEMMA StepQueue == TypeOK /\ QueueInv /\ [Next]_vars => QueueInv'
BY ProducerQueue, ConsumerQueue, WorkerQueue, CallerQueue DEF Next
-----------------------------------------------------------------------------
(* The caller and the counter.                                             *)

LEMMA StepCaller == TypeOK /\ QueueInv /\ CallerInv /\ [Next]_vars => CallerInv'
<1> SUFFICES ASSUME TypeOK, QueueInv, CallerInv, [Next]_vars PROVE CallerInv'
  OBVIOUS
<1> USE PoolAssumption DEF QueueInv
<1>1. CASE CallerReturns
  BY <1>1 DEF CallerReturns, CallerInv, TakenInv, consumerVars, Request
<1>2. CASE CtrlC
  BY <1>2 DEF CtrlC, CallerInv
<1>3. CASE Consumer
  <2>1. main' = main
    BY <1>3 DEF Consumer, GetThread, JoinThread, CountDown, StoreDown, AppendResult,
                callerVars
  <2>2. CASE AppendResult
    <3>1. Len(finished) # Requests
      BY <2>2 DEF AppendResult, TakenInv
    <3> QED  BY <2>1, <3>1 DEF CallerInv
  <2>3. CASE GetThread \/ JoinThread \/ CountDown \/ StoreDown
    <3>1. finished' = finished
      BY <2>3 DEF GetThread, JoinThread, CountDown, StoreDown
    <3> QED  BY <2>1, <3>1 DEF CallerInv
  <2> QED  BY <1>3, <2>2, <2>3 DEF Consumer
<1>4. CASE Producer \/ Expire \/ UNCHANGED vars
  <2>1. main' = main /\ finished' = finished
    BY <1>4 DEF Producer, StartThread, StartFails, PutThread, CountUp, StoreUp,
                Expire, vars, callerVars, consumerVars
  <2> QED  BY <2>1 DEF CallerInv
<1>5. ASSUME NEW i \in Request, Worker(i) PROVE CallerInv'
  <2>1. WorkerOnly
    BY <1>5, WorkerStep
  <2>2. main' = main /\ finished' = finished
    BY <2>1 DEF WorkerOnly, callerVars, consumerVars
  <2> QED  BY <2>2 DEF CallerInv
<1> QED  BY <1>1, <1>2, <1>3, <1>4, <1>5 DEF Next

(* The counter stays near the number of requests that are not given back:  *)
(* a store that overwrites the other thread's costs one lost update.       *)
LEMMA StepCount == TypeOK /\ QueueInv /\ CountInv /\ [Next]_vars => CountInv'
<1> SUFFICES ASSUME TypeOK, QueueInv, CountInv, [Next]_vars PROVE CountInv'
  OBVIOUS
<1>0. /\ Ups \in Nat /\ Downs \in Nat /\ maxThreads \in Nat
      /\ inFlight \in Int /\ held \in Int /\ kept \in Int
      /\ lostUps \in Nat /\ lostDowns \in Nat
  BY PoolAssumption, Counts DEF TypeOK, Ups, Downs
<1>1. CASE StartThread \/ StartFails \/ PutThread
  <2>1. /\ Ups' = Ups /\ Downs' = Downs /\ inFlight' = inFlight /\ cons' = cons
        /\ kept' = kept /\ lostUps' = lostUps /\ lostDowns' = lostDowns
        /\ maxThreads' = maxThreads
    BY <1>1 DEF StartThread, StartFails, PutThread, consumerVars, callerVars, Ups, Downs
  <2>2. prod' \in {"put", "died", "add"} /\ prod \in {"wait", "put"}
        /\ (prod = "wait" => inFlight < maxThreads)
    BY <1>1 DEF StartThread, StartFails, PutThread
  <2>3. Ups - Downs < maxThreads + lostUps
    BY <1>0, <2>2 DEF CountInv, Near
  <2> QED  BY <1>0, <2>1, <2>2, <2>3 DEF CountInv, Near
<1>2. CASE CountUp
  <2>1. /\ Ups' = Ups /\ Downs' = Downs /\ inFlight' = inFlight /\ held' = inFlight
        /\ cons' = cons /\ kept' = kept /\ prod = "add" /\ prod' = "store"
        /\ lostUps' = lostUps /\ lostDowns' = lostDowns /\ maxThreads' = maxThreads
    BY <1>2 DEF CountUp, consumerVars, callerVars, Ups, Downs
  <2> QED  BY <1>0, <2>1 DEF CountInv, Near
<1>3. CASE StoreUp
  <2>1. /\ Ups' = Ups + 1 /\ Downs' = Downs /\ inFlight' = held + 1
        /\ cons' = cons /\ kept' = kept /\ prod = "store" /\ prod' \in {"wait", "done"}
        /\ lostDowns' = lostDowns /\ maxThreads' = maxThreads
        /\ lostUps' = IF cons = "store" THEN lostUps + 1 ELSE lostUps
    BY <1>0, <1>3, Counts DEF StoreUp, consumerVars, callerVars, Ups, Downs
  <2>2. Near(held) /\ (cons = "store" => Near(kept)) /\ lostUps <= Ups
        /\ Ups - Downs < maxThreads + lostUps
    BY <2>1 DEF CountInv
  <2>3. Near(inFlight)' /\ (cons = "store" => Near(kept)')
    BY <1>0, <2>1, <2>2 DEF Near
  <2>4. lostUps' <= Ups' /\ Ups' - Downs' <= maxThreads' + lostUps'
    BY <1>0, <2>1, <2>2
  <2> QED  BY <2>1, <2>3, <2>4 DEF CountInv
<1>4. CASE GetThread \/ JoinThread
  <2>1. /\ Ups' = Ups /\ Downs' = Downs /\ inFlight' = inFlight /\ prod' = prod
        /\ held' = held /\ cons' # "store" /\ maxThreads' = maxThreads
        /\ lostUps' = lostUps /\ lostDowns' = lostDowns
    BY <1>4 DEF GetThread, JoinThread, producerVars, callerVars, Ups, Downs
  <2> QED  BY <2>1 DEF CountInv, Near
<1>5. CASE CountDown
  <2>1. /\ Ups' = Ups /\ Downs' = Downs /\ inFlight' = inFlight /\ kept' = inFlight
        /\ prod' = prod /\ held' = held /\ maxThreads' = maxThreads
        /\ lostUps' = lostUps /\ lostDowns' = lostDowns
    BY <1>5 DEF CountDown, producerVars, callerVars, Ups, Downs
  <2> QED  BY <2>1 DEF CountInv, Near
<1>9. CASE StoreDown
  <2>1. /\ Ups' = Ups /\ Downs' = Downs + 1 /\ inFlight' = kept - 1
        /\ prod' = prod /\ held' = held /\ cons = "store" /\ cons' = "append"
        /\ lostUps' = lostUps /\ maxThreads' = maxThreads
        /\ lostDowns' = IF prod = "store" THEN lostDowns + 1 ELSE lostDowns
    BY <1>0, <1>9, Counts DEF StoreDown, producerVars, callerVars, Ups, Downs
  <2>2. Near(kept) /\ (prod = "store" => Near(held)) /\ lostUps <= Ups
        /\ Ups - Downs <= maxThreads + lostUps
        /\ (prod \in {"put", "add", "store"} => Ups - Downs < maxThreads + lostUps)
    BY <2>1 DEF CountInv
  <2>3. Near(inFlight)' /\ (prod = "store" => Near(held)')
    BY <1>0, <2>1, <2>2 DEF Near
  <2>4. /\ Ups' - Downs' <= maxThreads + lostUps
        /\ prod \in {"put", "add", "store"} => Ups' - Downs' < maxThreads + lostUps
    BY <1>0, <2>1, <2>2
  <2> QED  BY <2>1, <2>2, <2>3, <2>4 DEF CountInv
<1>6. CASE AppendResult
  <2>1. Len(finished') = Len(finished) + 1
    <3>1. finished \in Seq(0 .. Body \cup {None}) /\ ResultOf(cur) \in 0 .. Body \cup {None}
          /\ finished' = Append(finished, ResultOf(cur))
      BY <1>6 DEF AppendResult, TypeOK, ResultOf
    <3> QED  BY <3>1, AppendFacts
  <2>2. cons = "append" /\ cons' \notin {"append", "store"} /\ prod' = prod
        /\ held' = held /\ Ups' = Ups /\ inFlight' = inFlight
        /\ lostUps' = lostUps /\ lostDowns' = lostDowns /\ maxThreads' = maxThreads
    BY <1>6 DEF AppendResult, producerVars, callerVars, Ups
  <2>3. Downs' = Downs
    BY <2>1, <2>2, Counts DEF Downs
  <2> QED  BY <2>2, <2>3 DEF CountInv, Near
<1>7. CASE CallerReturns \/ Expire \/ CtrlC \/ UNCHANGED vars
  <2>1. UNCHANGED producerVars /\ UNCHANGED consumerVars /\ UNCHANGED poolQueue
        /\ maxThreads' = maxThreads
    BY <1>7 DEF CallerReturns, Expire, CtrlC, vars, producerVars, consumerVars, poolQueue
  <2> QED
    BY <2>1 DEF producerVars, consumerVars, poolQueue, CountInv, Near, Ups, Downs
<1>8. ASSUME NEW i \in Request, Worker(i) PROVE CountInv'
  <2>1. WorkerOnly
    BY <1>8, WorkerStep DEF QueueInv
  <2> QED
    BY <2>1 DEF WorkerOnly, producerVars, consumerVars, callerVars, poolQueue,
                CountInv, Near, Ups, Downs
<1> QED
  BY <1>1, <1>2, <1>3, <1>4, <1>5, <1>6, <1>7, <1>8, <1>9 DEF Next, Producer, Consumer

LEMMA InitPool == Init => PoolInv
<1> SUFFICES ASSUME Init PROVE PoolInv
  OBVIOUS
<1>1. CallerInv
  BY DEF Init, CallerInv
<1>2. CountInv
  <2>1. /\ Ups = 0 /\ Downs = 0 /\ inFlight = 0 /\ prod = "wait" /\ cons = "get"
        /\ lostUps = 0 /\ lostDowns = 0 /\ maxThreads \in Nat
    BY PoolAssumption DEF Init, Ups, Downs
  <2> QED  BY <2>1 DEF CountInv, Near
<1> QED  BY <1>1, <1>2, InitType, InitQueue DEF PoolInv

LEMMA StepPool == PoolInv /\ [Next]_vars => PoolInv'
BY StepType, StepQueue, StepCaller, StepCount DEF PoolInv

(* The invariant of the pool holds for every number of requests, threads   *)
(* and units, whichever updates of the counter are lost.                   *)
THEOREM PoolInvariant == Spec => []PoolInv
BY InitPool, StepPool, PTL DEF Spec

(* The caller sums up what the threads moved: every request once, after    *)
(* its thread has ended, even if the counter loses updates.                *)
THEOREM PoolAccounts == Spec => []Accounted
<1>1. PoolInv => Accounted
  <2> SUFFICES ASSUME PoolInv PROVE Accounted
    OBVIOUS
  <2>1. TypeOK /\ QueueInv /\ CallerInv
    BY DEF PoolInv
  <2>2. DOMAIN finished = 1 .. Len(finished) /\ Len(finished) <= Requests
        /\ Len(finished) \in Nat /\ Requests \in Nat
    <3>1. finished \in Seq(0 .. Body \cup {None})
      BY <2>1 DEF TypeOK
    <3>2. DOMAIN finished = 1 .. Len(finished)
      BY <3>1
    <3>3. Taken <= Put
      BY <2>1, Counts DEF QueueInv, QueueOrder
    <3> QED  BY <2>1, <3>2, <3>3, Counts, PoolAssumption
  <2>3. ASSUME NEW k \in 1 .. Len(finished)
        PROVE  /\ worker[k] = "dead" /\ finished[k] \in {moved[k], None}
               /\ finished[k] = None => upload
    <3>1. k \in Request /\ k <= Len(finished)
      <4>1. k \in Nat /\ 1 <= k /\ k <= Len(finished)
        BY <2>2
      <4> QED  BY <2>2, <4>1 DEF Request
    <3>2. worker[k] = "dead" /\ finished[k] = ResultOf(k)
      BY <2>1, <3>1 DEF QueueInv, ThreadInv
    <3>3. moved[k] # None
      BY <2>1, <3>1, PoolAssumption DEF TypeOK
    <3> QED  BY <2>1, <3>1, <3>2, <3>3 DEF QueueInv, ThreadInv, ResultOf
  <2>4. ASSUME main = "returned"
        PROVE  Len(finished) = Requests /\ \A k \in Request : finished[k] = moved[k]
    <3>1. Len(finished) = Requests /\ \A k \in Request : finished[k] # None
      BY <2>1, <2>4 DEF CallerInv
    <3> QED  BY <2>3, <3>1 DEF Request
  <2> QED  BY <2>2, <2>3, <2>4 DEF Accounted
<1> QED  BY <1>1, PoolInvariant, PTL

(* The thread that has just been started finds room in the queue unless an *)
(* update was lost, for any limit.                                         *)
THEOREM PoolPutBlocks == Spec => []PutBlocksByLoss
<1>1. PoolInv => PutBlocksByLoss
  <2> SUFFICES ASSUME PoolInv, prod = "put", Len(queue) = maxThreads PROVE lostUps > 0
    BY DEF PutBlocksByLoss
  <2>1. TypeOK /\ QueueOrder /\ CountInv
    BY DEF PoolInv, QueueInv
  <2>2. Len(queue) = (next - 1) - Taken
    BY <2>1 DEF QueueOrder, Put
  <2>3. Ups - Downs < maxThreads + lostUps
    BY <2>1 DEF CountInv
  <2>4. Downs <= Taken
    BY <2>1, Counts DEF Downs, Taken
  <2>5. Downs \in Int /\ Taken \in Int /\ next \in Int /\ maxThreads \in Int
        /\ lostUps \in Nat
    BY <2>1, Counts, PoolAssumption DEF Downs, TypeOK
  <2> QED  BY <2>2, <2>3, <2>4, <2>5 DEF Ups
<1> QED  BY <1>1, PoolInvariant, PTL

(* Producer and consumer never wait for each other with fewer lost updates *)
(* than there are places, for any limit.                                   *)
THEOREM PoolWaits == Spec => []WaitsByLoss
<1>1. PoolInv => WaitsByLoss
  <2> SUFFICES ASSUME PoolInv, MutualWait PROVE lostDowns >= maxThreads
    BY DEF WaitsByLoss
  <2>1. TypeOK /\ QueueOrder /\ CountInv
    BY DEF PoolInv, QueueInv
  <2>2. Put = Ups /\ Taken = Downs /\ Len(queue) = 0 /\ inFlight >= maxThreads
    BY <2>1, Counts DEF MutualWait, Put, Ups, Taken, Downs
  <2>3. Ups = Downs
    BY <2>1, <2>2, Counts DEF QueueOrder
  <2>4. inFlight <= Ups - Downs + lostDowns
    BY <2>1 DEF CountInv, Near
  <2>5. /\ Ups \in Int /\ inFlight \in Int /\ lostDowns \in Int /\ maxThreads \in Int
    BY <2>1, Counts, PoolAssumption DEF TypeOK, Ups
  <2> QED  BY <2>2, <2>3, <2>4, <2>5
<1> QED  BY <1>1, PoolInvariant, PTL

(* Never more than maxThreads connections and one for each lost update,    *)
(* for any number of requests, though a thread runs before it is counted.  *)
THEOREM PoolAtMostMax == Spec => []AtMostMax
<1>1. PoolInv => AtMostMax
  <2> SUFFICES ASSUME PoolInv PROVE AtMostMax
    OBVIOUS
  <2> DEFINE W == {i \in Request : Working(i)}
             S == (Downs + 1) .. Begun
  <2>1. TypeOK /\ QueueInv /\ CountInv
    BY DEF PoolInv
  <2>2. Downs \in Nat /\ Begun \in Nat /\ maxThreads + lostUps \in Nat \ {0}
    BY <2>1, Counts, PoolAssumption DEF Downs, TypeOK
  <2>3. Begun - Downs <= maxThreads + lostUps
    <3>1. /\ Ups - Downs <= maxThreads + lostUps
          /\ prod \in {"put", "add", "store"} => Ups - Downs < maxThreads + lostUps
      BY <2>1 DEF CountInv
    <3>2. next \in Nat
      BY <2>1, Counts
    <3>3. Begun = IF prod \in {"put", "add", "store"} THEN Ups + 1 ELSE Ups
      BY <3>1, <3>2 DEF Begun, Put, Ups
    <3>4. Ups \in Int
      BY <3>2 DEF Ups
    <3> QED  BY <2>2, <3>1, <3>3, <3>4
  <2>4. W \subseteq S
    <3> SUFFICES ASSUME NEW i \in Request, Working(i) PROVE i \in S
      OBVIOUS
    <3>1. worker[i] # "new" /\ worker[i] # "dead"
      BY DEF Working
    <3>2. i <= Begun /\ i > Len(finished)
      BY <2>1, <3>1, <2>2, Counts DEF QueueInv, ThreadInv, Request
    <3>3. cons = "append" => i # Len(finished) + 1
      BY <2>1, <3>1 DEF QueueInv, TakenInv, Taken
    <3>4. i > Downs
      BY <2>1, <3>2, <3>3, Counts DEF Downs, Request
    <3> QED  BY <2>2, <3>2, <3>4 DEF Request
  <2>5. IsFiniteSet(S) /\ Cardinality(S) <= maxThreads + lostUps
    <3>1. IsFiniteSet(S) /\ Cardinality(S) = IF Downs + 1 > Begun THEN 0
                                             ELSE Begun - (Downs + 1) + 1
      BY <2>2, FS_Interval
    <3> HIDE DEF S
    <3> QED  BY <2>2, <2>3, <3>1
  <2>6. Cardinality(W) <= Cardinality(S) /\ IsFiniteSet(W)
    BY <2>4, <2>5, FS_Subset
  <2>7. Cardinality(W) \in Nat /\ Cardinality(S) \in Nat
    BY <2>5, <2>6, FS_CardinalityType
  <2> HIDE DEF S, W
  <2>8. Cardinality(W) <= maxThreads + lostUps
    BY <2>2, <2>5, <2>6, <2>7
  <2> QED  BY <2>8 DEF AtMostMax, W
<1> QED  BY <1>1, PoolInvariant, PTL
-----------------------------------------------------------------------------
(* The pool implements TransferPool.                                       *)

Results == IF cons = "append" THEN Append(finished, ResultOf(cur)) ELSE finished

LEMMA InitPromise == Init => Promise!Init
<1> SUFFICES ASSUME Init PROVE Promise!Init
  OBVIOUS
<1>1. /\ Begun = 0 /\ cons = "get" /\ finished = <<>> /\ main = "join"
      /\ lostUps = 0 /\ maxThreads \in Limits
  BY DEF Init, Begun, Put
<1> QED  BY <1>1 DEF Promise!Init

(* The length of the abstract results is what was given back. *)
LEMMA ResultsLen ==
  ASSUME TypeOK PROVE Len(Results) = Downs /\ Results \in Seq(0 .. Body \cup {None})
<1>1. finished \in Seq(0 .. Body \cup {None})
  BY DEF TypeOK
<1>2. CASE cons = "append"
  <2>1. ResultOf(cur) \in 0 .. Body \cup {None}
    BY <1>2 DEF TypeOK, ResultOf
  <2> QED  BY <1>1, <1>2, <2>1, AppendFacts DEF Results, Downs
<1>3. CASE cons # "append"
  BY <1>1, <1>3 DEF Results, Downs
<1> QED  BY <1>2, <1>3

(* What each step of the pool is to the promise. *)
LEMMA StepPromise ==
  ASSUME PoolInv, [Next]_vars
  PROVE  \/ Promise!Next
         \/ UNCHANGED <<maxThreads, Begun, lostUps, Results, main \in {"raised", "returned"}>>
<1>0. TypeOK /\ QueueOrder /\ TakenInv /\ ThreadInv /\ CountInv
  BY DEF PoolInv, QueueInv
<1> DEFINE closed == main \in {"raised", "returned"}
<1>1. CASE StartThread
  <2>1. /\ prod = "wait" /\ prod' = "put" /\ next' = next /\ inFlight < maxThreads
        /\ maxThreads' = maxThreads /\ lostUps' = lostUps
        /\ finished' = finished /\ cons' = cons /\ cur' = cur /\ main' = main
        /\ moved' = moved /\ result' = result /\ upload' = upload
    BY <1>1 DEF StartThread, consumerVars, callerVars
  <2>2. Begun = next - 1 /\ Begun' = next /\ next \in Request
    BY <1>0, <2>1 DEF Begun, Put, TypeOK
  <2>3. Begun < Requests /\ Begun' = Begun + 1
    BY <2>2, PoolAssumption DEF Request
  <2>4. Begun - Len(Results) < maxThreads + lostUps
    <3>1. Ups - Downs <= inFlight + lostUps /\ Len(Results) = Downs
      BY <1>0, ResultsLen DEF CountInv, Near
    <3>2. /\ Ups \in Int /\ Downs \in Int /\ inFlight \in Int
          /\ maxThreads \in Int /\ lostUps \in Int
      BY <1>0, Counts, PoolAssumption DEF TypeOK, Ups, Downs
    <3> QED  BY <2>1, <2>2, <3>1, <3>2 DEF Ups
  <2>5. Results' = Results /\ closed' = closed
    BY <2>1 DEF Results, ResultOf
  <2> QED  BY <2>1, <2>3, <2>4, <2>5 DEF Promise!Next, Promise!Begin, Results
<1>2. CASE StartFails \/ PutThread \/ CountUp \/ StoreUp
  <2>1. finished' = finished /\ cons' = cons /\ cur' = cur /\ main' = main
        /\ moved' = moved /\ result' = result /\ upload' = upload
        /\ maxThreads' = maxThreads
    BY <1>2 DEF StartFails, PutThread, CountUp, StoreUp,
                consumerVars, callerVars, workerVars
  <2>2. Begun' = Begun
    <3>1. CASE StartFails
      BY <3>1 DEF StartFails, Begun, Put
    <3>2. CASE PutThread
      BY <3>2 DEF PutThread, Begun, Put
    <3>3. CASE CountUp
      BY <3>3 DEF CountUp, Begun, Put
    <3>4. CASE StoreUp
      <4>1. prod = "store" /\ prod' \in {"wait", "done"} /\ next' = next + 1
        BY <3>4 DEF StoreUp
      <4> QED  BY <1>0, <4>1, Counts DEF Begun, Put
    <3> QED  BY <1>2, <3>1, <3>2, <3>3, <3>4
  <2>3. Results' = Results /\ closed' = closed
    BY <2>1 DEF Results, ResultOf
  <2>4. CASE lostUps' = lostUps
    BY <2>1, <2>2, <2>3, <2>4
  <2>5. CASE lostUps' # lostUps
    <3>1. StoreUp
      BY <1>2, <2>5 DEF StartFails, PutThread, CountUp
    <3>2. lostUps' = lostUps + 1 /\ prod = "store"
      BY <2>5, <3>1 DEF StoreUp
    <3>3. lostUps < Begun
      <4>1. lostUps <= Ups /\ Begun = next /\ next \in Nat /\ lostUps \in Nat
        BY <1>0, <3>2, Counts DEF CountInv, Begun, Put, TypeOK
      <4> QED  BY <4>1 DEF Ups
    <3> QED  BY <2>1, <2>2, <2>3, <3>2, <3>3 DEF Promise!Next, Promise!Slip, Results
  <2> QED  BY <2>4, <2>5
<1>3. CASE Consumer
  <2>1. /\ Begun' = Begun /\ main' = main /\ moved' = moved /\ result' = result
        /\ upload' = upload /\ maxThreads' = maxThreads /\ lostUps' = lostUps
    BY <1>3 DEF Consumer, GetThread, JoinThread, CountDown, StoreDown, AppendResult,
                producerVars, callerVars, workerVars, Begun, Put
  <2>2. CASE GetThread \/ JoinThread \/ CountDown
    <3>1. finished' = finished /\ cons # "append" /\ cons' # "append"
      BY <2>2 DEF GetThread, JoinThread, CountDown
    <3> QED  BY <2>1, <3>1 DEF Results
  <2>3. CASE StoreDown
    <3>1. finished' = finished /\ cur' = cur /\ cons = "store" /\ cons' = "append"
      BY <2>3 DEF StoreDown
    <3>2. Results = finished /\ Results' = Append(finished, ResultOf(cur))
      BY <2>1, <3>1 DEF Results, ResultOf
    <3>3. ResultOf(cur) \in 0 .. Body \cup {None}
      BY <1>0, <3>1 DEF TypeOK, ResultOf
    <3>4. Taken = Len(finished) + 1 /\ Taken <= Put
      BY <1>0, <3>1, Counts DEF Taken, QueueOrder
    <3>5. Len(Results) < Begun
      BY <1>0, <3>2, <3>4, Counts
    <3>6. \E r \in 0 .. Body \cup {None} : Results' = Append(Results, r)
      BY <3>2, <3>3
    <3> QED  BY <2>1, <3>5, <3>6 DEF Promise!Next, Promise!Collect, Results
  <2>4. CASE AppendResult
    <3>1. cons = "append" /\ cons' # "append" /\ finished' = Append(finished, ResultOf(cur))
      BY <2>4 DEF AppendResult
    <3> QED  BY <2>1, <3>1 DEF Results
  <2> QED  BY <1>3, <2>2, <2>3, <2>4 DEF Consumer
<1>4. CASE CallerReturns
  <2>1. /\ main = "join" /\ main' \in {"raised", "returned"} /\ cons = "done"
        /\ finished' = finished /\ cons' = cons /\ cur' = cur /\ moved' = moved
        /\ result' = result /\ prod' = prod /\ next' = next /\ upload' = upload
        /\ maxThreads' = maxThreads /\ lostUps' = lostUps
    BY <1>4 DEF CallerReturns, producerVars, consumerVars, workerVars
  <2>2. Begun' = Begun /\ Results' = Results
    BY <2>1 DEF Begun, Put, Results, ResultOf
  <2>3. Results = finished /\ Len(finished) = Requests
    BY <1>0, <2>1 DEF Results, TakenInv
  <2>4. ~ closed /\ closed' /\ Len(Results) = Requests
    BY <2>1, <2>3
  <2>5. closed' = TRUE
    BY <2>4
  <2> QED  BY <2>1, <2>2, <2>4, <2>5 DEF Promise!Next, Promise!Close, Results
<1>5. CASE Expire \/ CtrlC \/ UNCHANGED vars
  <2>1. /\ finished' = finished /\ cons' = cons /\ cur' = cur /\ moved' = moved
        /\ result' = result /\ prod' = prod /\ next' = next /\ upload' = upload
        /\ main' = main \/ (main = "join" /\ main' = "exit")
        /\ maxThreads' = maxThreads /\ lostUps' = lostUps
    BY <1>5 DEF Expire, CtrlC, vars, producerVars, consumerVars, workerVars
  <2>2. closed' = closed
    BY <2>1
  <2> QED  BY <2>1, <2>2 DEF Begun, Put, Results, ResultOf
<1>6. ASSUME NEW i \in Request, Worker(i)
      PROVE  UNCHANGED <<maxThreads, Begun, lostUps, Results, closed>>
  <2>1. WorkerOnly /\ worker[i] # "dead"
        /\ \A j \in Request \ {i} : moved'[j] = moved[j] /\ result'[j] = result[j]
    BY <1>0, <1>6, WorkerStep
  <2>2. /\ finished' = finished /\ cons' = cons /\ cur' = cur
        /\ prod' = prod /\ next' = next /\ main' = main /\ upload' = upload
        /\ maxThreads' = maxThreads /\ lostUps' = lostUps
    BY <2>1 DEF WorkerOnly, producerVars, consumerVars, callerVars
  <2>3. Results' = Results
    <3>1. CASE cons = "append"
      <4>1. cur \in Request \ {i}
        BY <1>0, <2>1, <3>1 DEF TypeOK, TakenInv
      <4>2. ResultOf(cur)' = ResultOf(cur)
        BY <2>1, <2>2, <4>1 DEF ResultOf
      <4> QED  BY <2>2, <4>2 DEF Results
    <3>2. CASE cons # "append"
      BY <2>2, <3>2 DEF Results
    <3> QED  BY <3>1, <3>2
  <2> QED  BY <2>2, <2>3 DEF Begun, Put
<1> QED  BY <1>1, <1>2, <1>3, <1>4, <1>5, <1>6 DEF Next, Producer

(* Threads, queue and counter implement TransferPool: begun in order, as   *)
(* many as the limit and the lost updates allow, one result each, all      *)
(* delivered.                                                              *)
THEOREM PoolKeepsPromise == Spec => KeepsPromise
<1>1. PoolInv /\ [Next]_vars => [Promise!Next]_Promise!poolVars
  BY StepPromise DEF Results, Promise!poolVars
<1> QED
  BY <1>1, InitPromise, PoolInvariant, PTL DEF Spec, KeepsPromise, Promise!Safety
=============================================================================
