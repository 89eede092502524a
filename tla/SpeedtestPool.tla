---------------------------- MODULE SpeedtestPool ---------------------------
(***************************************************************************)
(* The threads of Speedtest.download and Speedtest.upload (speedtest.py):  *)
(* a producer starts one worker thread per request and queues it, a        *)
(* consumer takes the threads from the queue, waits for each and collects  *)
(* its result, and the caller joins both.  The dictionary in_flight is     *)
(* written by producer and consumer without a lock, each += and -= being a *)
(* read and a store, so an update may be lost.  A unit of data is a piece  *)
(* that one read of a worker moves.                                        *)
(***************************************************************************)
EXTENDS Integers, FiniteSets, Sequences

CONSTANTS
  Requests,      \* request_count
  Limits,        \* numbers of threads a measurement may be given
  Body,          \* units of a body that are counted: it has as many or more
  EventShared,   \* Speedtest was given the event that Ctrl-C sets
  ThreadErrors,  \* Thread.start may fail
  None           \* HTTPUploader.result before the thread has set it

ASSUME PoolAssumption ==
  /\ Requests \in Nat \ {0} /\ Limits \subseteq Nat \ {0} /\ Body \in Nat
  /\ {EventShared, ThreadErrors} \subseteq BOOLEAN
  /\ None \notin Nat

VARIABLES
  prod,          \* producer: where it is in its loop
  next,          \* producer: the request it is at
  held,          \* producer: in_flight as it has read it
  cons,          \* consumer: where it is in its loop
  cur,           \* consumer: the thread it has taken
  kept,          \* consumer: in_flight as it has read it
  inFlight,      \* in_flight['threads']
  queue,         \* the Queue of started threads
  worker,        \* state of each request's thread
  moved,         \* units each thread has read or sent
  result,        \* HTTPUploader.result
  finished,      \* results collected so far
  expired,       \* the test's length has passed since start
  interrupted,   \* Ctrl-C was pressed: shutdown_event is set
  main,          \* the calling thread
  upload,        \* it is in upload() rather than download()
  maxThreads,    \* max_threads, also the size of the queue
  lostUps,       \* history: += 1 stored between the read and the store of a -= 1
  lostDowns      \* history: -= 1 stored between the read and the store of a += 1

vars == <<prod, next, held, cons, cur, kept, inFlight, queue, worker, moved,
          result, finished, expired, interrupted, main, upload,
          maxThreads, lostUps, lostDowns>>
producerVars == <<prod, next, held, lostUps>>
consumerVars == <<cons, cur, kept, finished, lostDowns>>
workerVars == <<worker, moved, result>>
callerVars == <<expired, interrupted, main, upload, maxThreads>>

Request == 1 .. Requests

Init ==
  /\ prod = "wait" /\ next = 1 /\ held = 0
  /\ cons = "get" /\ cur = 0 /\ kept = 0
  /\ inFlight = 0 /\ queue = <<>> /\ lostUps = 0 /\ lostDowns = 0
  /\ worker = [i \in Request |-> "new"]
  /\ moved = [i \in Request |-> 0]
  /\ result = [i \in Request |-> None]
  /\ finished = <<>>
  /\ expired = FALSE /\ interrupted = FALSE /\ main = "join"
  /\ upload \in BOOLEAN /\ maxThreads \in Limits
-----------------------------------------------------------------------------
(* The producer.                                                           *)

\* Mutant: one thread too many.
StartThreadOverLimit ==
  /\ prod = "wait" /\ inFlight <= maxThreads
  /\ worker' = [worker EXCEPT ![next] = "started"]
  /\ prod' = "put"
  /\ UNCHANGED <<next, held, lostUps, inFlight, queue, moved, result>>
  /\ UNCHANGED consumerVars /\ UNCHANGED callerVars

\* The loop sleeps while in_flight is at the limit, then starts the thread.
StartThread ==
  /\ prod = "wait" /\ inFlight < maxThreads
  /\ worker' = [worker EXCEPT ![next] = "started"]
  /\ prod' = "put"
  /\ UNCHANGED <<next, held, lostUps, inFlight, queue, moved, result>>
  /\ UNCHANGED consumerVars /\ UNCHANGED callerVars

\* RuntimeError in Thread.start ends the producer with a traceback.
StartFails ==
  /\ ThreadErrors
  /\ prod = "wait" /\ inFlight < maxThreads
  /\ prod' = "died"
  /\ UNCHANGED <<next, held, lostUps, inFlight, queue>>
  /\ UNCHANGED consumerVars /\ UNCHANGED callerVars /\ UNCHANGED workerVars

PutThread ==
  /\ prod = "put" /\ Len(queue) < maxThreads
  /\ queue' = Append(queue, next)
  /\ prod' = "add"
  /\ UNCHANGED <<next, held, lostUps, inFlight>>
  /\ UNCHANGED consumerVars /\ UNCHANGED callerVars /\ UNCHANGED workerVars

\* in_flight += 1: the read.
CountUp ==
  /\ prod = "add"
  /\ held' = inFlight
  /\ prod' = "store"
  /\ UNCHANGED <<next, lostUps, inFlight, queue>>
  /\ UNCHANGED consumerVars /\ UNCHANGED callerVars /\ UNCHANGED workerVars

\* And the store, which a consumer that has read before will overwrite.
StoreUp ==
  /\ prod = "store"
  /\ inFlight' = held + 1
  /\ lostUps' = IF cons = "store" THEN lostUps + 1 ELSE lostUps
  /\ prod' = IF next = Requests THEN "done" ELSE "wait"
  /\ next' = next + 1
  /\ UNCHANGED <<held, queue>>
  /\ UNCHANGED consumerVars /\ UNCHANGED callerVars /\ UNCHANGED workerVars

Producer == StartThread \/ StartFails \/ PutThread \/ CountUp \/ StoreUp
-----------------------------------------------------------------------------
(* The consumer.                                                           *)

GetThread ==
  /\ cons = "get" /\ queue # <<>>
  /\ cur' = Head(queue) /\ queue' = Tail(queue)
  /\ cons' = "join"
  /\ UNCHANGED <<kept, finished, lostDowns, inFlight>>
  /\ UNCHANGED producerVars /\ UNCHANGED callerVars /\ UNCHANGED workerVars

\* Mutant: join with a timeout, once.
JoinThreadOnce ==
  /\ cons = "join"
  /\ cons' = "sub"
  /\ UNCHANGED <<cur, kept, finished, lostDowns, inFlight, queue>>
  /\ UNCHANGED producerVars /\ UNCHANGED callerVars /\ UNCHANGED workerVars

JoinThread ==
  /\ cons = "join" /\ worker[cur] = "dead"
  /\ cons' = "sub"
  /\ UNCHANGED <<cur, kept, finished, lostDowns, inFlight, queue>>
  /\ UNCHANGED producerVars /\ UNCHANGED callerVars /\ UNCHANGED workerVars

CountDown ==
  /\ cons = "sub"
  /\ kept' = inFlight
  /\ cons' = "store"
  /\ UNCHANGED <<cur, finished, lostDowns, inFlight, queue>>
  /\ UNCHANGED producerVars /\ UNCHANGED callerVars /\ UNCHANGED workerVars

\* Mutant: a thread that is done keeps its place.
StoreDownNot ==
  /\ cons = "store"
  /\ inFlight' = kept
  /\ lostDowns' = IF prod = "store" THEN lostDowns + 1 ELSE lostDowns
  /\ cons' = "append"
  /\ UNCHANGED <<cur, kept, finished, queue>>
  /\ UNCHANGED producerVars /\ UNCHANGED callerVars /\ UNCHANGED workerVars

StoreDown ==
  /\ cons = "store"
  /\ inFlight' = kept - 1
  /\ lostDowns' = IF prod = "store" THEN lostDowns + 1 ELSE lostDowns
  /\ cons' = "append"
  /\ UNCHANGED <<cur, kept, finished, queue>>
  /\ UNCHANGED producerVars /\ UNCHANGED callerVars /\ UNCHANGED workerVars

\* What the consumer appends: the sum of the downloader's pieces, or the
\* uploader's result.
ResultOf(i) == IF upload THEN result[i] ELSE moved[i]

AppendResult ==
  /\ cons = "append"
  /\ finished' = Append(finished, ResultOf(cur))
  /\ cons' = IF Len(finished) + 1 = Requests THEN "done" ELSE "get"
  /\ UNCHANGED <<cur, kept, lostDowns, inFlight, queue>>
  /\ UNCHANGED producerVars /\ UNCHANGED callerVars /\ UNCHANGED workerVars

Consumer == GetThread \/ JoinThread \/ CountDown \/ StoreDown \/ AppendResult
-----------------------------------------------------------------------------
(* The worker threads: HTTPDownloader.run and HTTPUploader.run with the    *)
(* file-like HTTPUploaderData.                                             *)

Halted == expired \/ (EventShared /\ interrupted)

poolQueue == <<inFlight, queue>>

WorkerOnly ==
  /\ UNCHANGED producerVars /\ UNCHANGED consumerVars
  /\ UNCHANGED callerVars /\ UNCHANGED poolQueue

\* The downloader looks at the time only, the uploader at the event too; a
\* late uploader has the result 0.
WorkerBegins(i) ==
  LET late == IF upload THEN Halted ELSE expired
  IN  /\ worker[i] = "started"
      /\ worker' = [worker EXCEPT ![i] = IF late THEN "dead" ELSE "open"]
      /\ result' = IF late /\ upload THEN [result EXCEPT ![i] = 0] ELSE result
      /\ UNCHANGED moved
      /\ WorkerOnly

\* A downloader's request is answered and it starts to read; an uploader's
\* connection is up and the request's body is asked for.
Opened(i) ==
  /\ worker[i] = "open"
  /\ worker' = [worker EXCEPT ![i] = "loop"]
  /\ UNCHANGED <<moved, result>>
  /\ WorkerOnly

\* Mutant: the event is not looked at.
CheckTimeOnly(i) ==
  /\ worker[i] = "loop"
  /\ worker' = [worker EXCEPT ![i] = IF expired THEN "dead" ELSE "reading"]
  /\ result' = IF upload /\ expired THEN [result EXCEPT ![i] = moved[i]]
                                    ELSE result
  /\ UNCHANGED moved
  /\ WorkerOnly

\* The head of the downloader's loop, and of HTTPUploaderData.read, which
\* raises SpeedtestUploadTimeout when it is too late.
CheckTime(i) ==
  /\ worker[i] = "loop"
  /\ worker' = [worker EXCEPT ![i] = IF Halted THEN "dead" ELSE "reading"]
  /\ result' = IF upload /\ Halted THEN [result EXCEPT ![i] = moved[i]]
                                   ELSE result
  /\ UNCHANGED moved
  /\ WorkerOnly

\* Mutant: reads on behind the end.
ReadPieceBeyond(i) ==
  /\ worker[i] = "reading"
  /\ moved' = [moved EXCEPT ![i] = @ + 1]
  /\ worker' = [worker EXCEPT ![i] = "loop"]
  /\ UNCHANGED result
  /\ WorkerOnly

ReadPiece(i) ==
  /\ worker[i] = "reading"
  /\ moved' = IF moved[i] < Body THEN [moved EXCEPT ![i] = @ + 1] ELSE moved
  /\ worker' = [worker EXCEPT ![i] = "loop"]
  /\ UNCHANGED result
  /\ WorkerOnly

\* An empty piece: the downloader stops, the uploader has sent its body and
\* waits for the answer.
ReadEmpty(i) ==
  /\ worker[i] = "reading" /\ moved[i] = Body
  /\ worker' = [worker EXCEPT ![i] = IF upload THEN "answer" ELSE "dead"]
  /\ UNCHANGED <<moved, result>>
  /\ WorkerOnly

\* The answer has come, or any call failed with an IOError.
TransferEnds(i) ==
  /\ \/ worker[i] \in {"open", "reading", "answer"}
     \/ upload /\ worker[i] = "loop"
  /\ worker' = [worker EXCEPT ![i] = "dead"]
  /\ result' = IF upload THEN [result EXCEPT ![i] = moved[i]] ELSE result
  /\ UNCHANGED moved
  /\ WorkerOnly

\* Any other exception, BadStatusLine or want of memory for the body, ends the
\* thread as it is: an uploader leaves its result at None.
ThreadDies(i) ==
  /\ worker[i] \in {"open", "reading", "answer"}
  /\ worker' = [worker EXCEPT ![i] = "dead"]
  /\ UNCHANGED <<moved, result>>
  /\ WorkerOnly

Worker(i) ==
  \/ WorkerBegins(i) \/ Opened(i) \/ CheckTime(i) \/ ReadPiece(i)
  \/ ReadEmpty(i) \/ TransferEnds(i) \/ ThreadDies(i)
-----------------------------------------------------------------------------
(* The calling thread, time, and the user.                                 *)

\* The caller polls until producer and consumer are dead, so it hangs with
\* the consumer when the producer has died.  sum(finished) raises a TypeError on a None.
CallerReturns ==
  /\ main = "join" /\ prod = "done" /\ cons = "done"
  /\ main' = IF \E k \in Request : finished[k] = None THEN "raised" ELSE "returned"
  /\ UNCHANGED <<expired, interrupted, upload, maxThreads>>
  /\ UNCHANGED producerVars /\ UNCHANGED consumerVars
  /\ UNCHANGED workerVars /\ UNCHANGED poolQueue

Expire ==
  /\ ~expired
  /\ expired' = TRUE
  /\ UNCHANGED <<interrupted, main, upload, maxThreads>>
  /\ UNCHANGED producerVars /\ UNCHANGED consumerVars
  /\ UNCHANGED workerVars /\ UNCHANGED poolQueue

\* The handler of ctrl_c sets the event and leaves the main thread; the
\* process lives on until its other threads have ended.
CtrlC ==
  /\ main = "join" /\ ~interrupted
  /\ interrupted' = TRUE /\ main' = "exit"
  /\ UNCHANGED <<expired, upload, maxThreads>>
  /\ UNCHANGED producerVars /\ UNCHANGED consumerVars
  /\ UNCHANGED workerVars /\ UNCHANGED poolQueue

Next ==
  \/ Producer \/ Consumer \/ CallerReturns \/ Expire \/ CtrlC
  \/ \E i \in Request : Worker(i)

\* Threads are scheduled, and a read returns or times out.  No time has to
\* pass: Expire is not fair.
ThreadFairness ==
  /\ WF_vars(Producer) /\ WF_vars(Consumer) /\ WF_vars(CallerReturns)
  /\ \A i \in Request : WF_vars(Worker(i))

Spec == Init /\ [][Next]_vars
FairSpec == Spec /\ ThreadFairness
-----------------------------------------------------------------------------
Working(i) == worker[i] \in {"started", "open", "loop", "reading", "answer"}

(* Types of the shared and the threads' own state, and that producer and   *)
(* consumer are at a request whenever they handle one.                     *)
TypeOK ==
  /\ prod \in {"wait", "put", "add", "store", "done", "died"}
  /\ next \in 1 .. Requests + 1 /\ held \in Int
  /\ cons \in {"get", "join", "sub", "store", "append", "done"}
  /\ cur \in 0 .. Requests /\ kept \in Int
  /\ inFlight \in Int /\ lostUps \in Nat /\ lostDowns \in Nat
  /\ queue \in Seq(Request)
  /\ worker \in [Request -> {"new", "started", "open", "loop", "reading",
                             "answer", "dead"}]
  /\ moved \in [Request -> 0 .. Body]
  /\ result \in [Request -> 0 .. Body \cup {None}]
  /\ finished \in Seq(0 .. Body \cup {None})
  /\ expired \in BOOLEAN /\ interrupted \in BOOLEAN
  /\ main \in {"join", "raised", "returned", "exit"} /\ upload \in BOOLEAN
  /\ maxThreads \in Limits
  /\ IF prod = "done" THEN next = Requests + 1 ELSE next \in Request
  /\ cons \notin {"get", "done"} => cur \in Request

(* Never more than maxThreads connections, although in_flight is raised    *)
(* only after the thread has been started and queued: each connection too  *)
(* many is one += 1 that a -= 1 has overwritten, and such an update costs  *)
(* no more than one.                                                       *)
AtMostMax == Cardinality({i \in Request : Working(i)}) <= maxThreads + lostUps

(* The queue of max_threads places has room for the thread that has just   *)
(* been started, so q.put blocks the producer only after a lost += 1.      *)
PutBlocksByLoss == (prod = "put" /\ Len(queue) = maxThreads) => lostUps > 0

(* Producer and consumer wait for each other, the one for in_flight to     *)
(* fall, the other for a thread in the queue, only when as many -= 1 as    *)
(* threads may run have been overwritten: then they wait for ever.         *)
MutualWait ==
  /\ prod = "wait" /\ inFlight >= maxThreads
  /\ cons = "get" /\ queue = <<>>

WaitsByLoss == MutualWait => lostDowns >= maxThreads

(* What the caller sums up is what the threads have moved: every request   *)
(* counted once, under its own number, after its thread has ended.  A      *)
(* thread that died under an exception leaves a hole, never a wrong number.*)
Accounted ==
  /\ \A k \in DOMAIN finished :
        /\ worker[k] = "dead"
        /\ finished[k] \in {moved[k], None}
        /\ finished[k] = None => upload
  /\ main = "returned" => /\ Len(finished) = Requests
                          /\ \A k \in Request : finished[k] = moved[k]

(* The count and the queue as the producer and the consumer keep them: the *)
(* threads the consumer has taken come first, those in the queue next, and *)
(* in_flight is their number, late by the steps that are under way and off *)
(* by the updates that were lost.                                          *)
Taken == Len(finished) + (IF cons \in {"get", "done"} THEN 0 ELSE 1)
Put == IF prod \in {"add", "store"} THEN next ELSE next - 1
Begun == IF prod = "put" THEN next ELSE Put
Ups == next - 1
Downs == Len(finished) + (IF cons = "append" THEN 1 ELSE 0)

\* A count that producer or consumer has read or stored, against the requests
\* between the two ends.
Near(count) ==
  /\ Ups - Downs <= count + lostUps
  /\ count <= Ups - Downs + lostDowns

CountInv ==
  /\ Near(inFlight)
  /\ prod = "store" => Near(held)
  /\ cons = "store" => Near(kept)
  /\ lostUps <= Ups
  /\ Ups - Downs <= maxThreads + lostUps
  /\ prod \in {"put", "add", "store"} => Ups - Downs < maxThreads + lostUps

QueueOrder ==
  /\ Len(queue) = Put - Taken
  /\ \A k \in 1 .. Len(queue) : queue[k] = Taken + k

TakenInv ==
  /\ cons \notin {"get", "done"} => cur = Taken
  /\ cons \in {"sub", "store", "append"} => worker[cur] = "dead"
  /\ cons = "done" <=> Len(finished) = Requests

ThreadInv ==
  \A i \in Request :
    /\ worker[i] = "new" <=> i > Begun
    /\ i <= Len(finished) => worker[i] = "dead" /\ finished[i] = ResultOf(i)
    /\ worker[i] \in {"new", "started"} => moved[i] = 0
    /\ IF worker[i] = "dead" /\ upload THEN result[i] \in {moved[i], None}
                                       ELSE result[i] = None

QueueInv == QueueOrder /\ TakenInv /\ ThreadInv

CallerInv ==
  main \in {"raised", "returned"} =>
    /\ Len(finished) = Requests
    /\ main = "returned" => \A k \in Request : finished[k] # None

PoolInv == TypeOK /\ QueueInv /\ CallerInv /\ CountInv

(* Once the time is over, or Ctrl-C was pressed and the event is shared,   *)
(* every thread ends, whatever the requests come to and however long the   *)
(* bodies are, though the producer still starts a thread for every request *)
(* that is left.  Only a producer that has died, or as many lost -= 1 as   *)
(* there are places, keep the caller waiting.                              *)
Ends ==
  Halted ~> \/ lostDowns >= maxThreads
            \/ /\ prod \in {"done", "died"}
               /\ \A i \in Request : worker[i] \in {"new", "dead"}
               /\ prod = "done" => cons = "done" /\ main # "join"

(* The pool keeps the promise of TransferPool.  A request is over as soon  *)
(* as its in_flight is given back, before its result is in the list.       *)
Promise == INSTANCE TransferPool WITH
  Results <- 0 .. Body \cup {None},
  limit <- maxThreads,
  begun <- Begun,
  results <- IF cons = "append" THEN Append(finished, ResultOf(cur)) ELSE finished,
  excess <- lostUps,
  closed <- main \in {"raised", "returned"}

KeepsPromise == Promise!Safety
-----------------------------------------------------------------------------
(* What help texts and docstrings say, and the code does not do.           *)

(* --single, speedtest.py:1720: "Only use a single connection instead of   *)
(* multiple."                                                              *)
SingleConnection ==
  maxThreads = 1 => \A i, j \in Request : Working(i) /\ Working(j) => i = j
=============================================================================
