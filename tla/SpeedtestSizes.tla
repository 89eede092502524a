--------------------------- MODULE SpeedtestSizes --------------------------
(***************************************************************************)
(* The arithmetic of an upload in speedtest.py: get_config derives sizes   *)
(* and counts of the requests from the configuration, upload builds the    *)
(* requests, and HTTPUploaderData is read as the body of one of them until *)
(* it is at its end, the time is over or the user interrupts.              *)
(***************************************************************************)
EXTENDS Integers, Sequences, Functions

CONSTANTS
  Ratios,      \* upload ratio of the configuration
  MaxChunks,   \* maxchunkcount of the configuration
  Block        \* what the HTTP library reads at a time

ASSUME SizesAssumption ==
  Ratios \subseteq Int /\ MaxChunks \subseteq Nat \ {0} /\ Block \in Nat \ {0}

VARIABLES
  ratio, maxchunk,
  phase,       \* "config", "upload", "send", "sent", "timeout" or an exception
  sizes,       \* self.config['sizes']['upload']
  count,       \* self.config['counts']['upload']
  uploadMax,   \* self.config['upload_max']
  requests,    \* number of requests built for each size
  length,      \* HTTPUploaderData: length of the one being sent
  total        \* the bytes read from it

vars == <<ratio, maxchunk, phase, sizes, count, uploadMax, requests, length, total>>

up_sizes == <<32768, 65536, 131072, 262144, 524288, 1048576, 7340032>>

Clip(i, low, high) == IF i < low THEN low ELSE IF i > high THEN high ELSE i

\* Python's list[i:]: a negative index counts from the end, none is out of range.
From(list, i) ==
  LET n == Len(list)
  IN  SubSeq(list, Clip(IF i < 0 THEN n + i ELSE i, 0, n) + 1, n)

\* Mutant: the division is one of integers.
FloorDiv(a, n) == a \div n

CeilDiv(a, n) == -((-a) \div n)

\* round: a half goes to the even neighbour.
Round(a, n) ==
  LET q == a \div n
      r == 2 * (a % n)
  IN  IF r < n \/ (r = n /\ q % 2 = 0) THEN q ELSE q + 1
-----------------------------------------------------------------------------
Init ==
  /\ ratio \in Ratios /\ maxchunk \in MaxChunks /\ phase = "config"
  /\ sizes = <<>> /\ count = 0 /\ uploadMax = 0 /\ requests = <<>> /\ length = 0 /\ total = 0

\* Without sizes the division fails, and self.config stays empty.
GetConfig ==
  /\ phase = "config"
  /\ LET chosen == From(up_sizes, ratio - 1)
     IN  IF chosen = <<>>
           THEN phase' = "ZeroDivisionError" /\ UNCHANGED <<sizes, count, uploadMax>>
           ELSE /\ phase' = "upload" /\ sizes' = chosen
                /\ count' = CeilDiv(maxchunk, Len(chosen))
                /\ uploadMax' = count' * Len(chosen)
  /\ UNCHANGED <<ratio, maxchunk, requests, length, total>>

BuildRequests ==
  /\ phase = "upload" /\ phase' = "send"
  /\ requests' = [i \in DOMAIN sizes |-> count]
  /\ UNCHANGED <<ratio, maxchunk, sizes, count, uploadMax, length, total>>

\* Mutant: the 9 characters of "content1=" come on top.
BodyWithName(size) ==
  LET chars == 36 * Round(size, 36)
  IN  9 + (IF chars < size THEN chars ELSE size)

\* pre_allocate: "content1=" and the alphabet, repeated and cut.
Body(size) ==
  LET chars == 36 * Round(size, 36)
  IN  9 + (IF chars < size - 9 THEN chars ELSE size - 9)

SendRequest ==
  /\ phase = "send" /\ length = 0
  /\ \E i \in DOMAIN requests : requests[i] > 0 /\ length' = sizes[i]
  /\ UNCHANGED <<ratio, maxchunk, phase, sizes, count, uploadMax, requests, total>>

Read ==
  /\ phase = "send" /\ length > 0
  /\ LET chunk == Clip(Body(length) - total, 0, Block)
     IN  /\ total' = total + chunk
         /\ phase' = IF chunk = 0 THEN "sent" ELSE phase
  /\ UNCHANGED <<ratio, maxchunk, sizes, count, uploadMax, requests, length>>

\* The time is over, or shutdown_event is set.
ReadTimesOut ==
  /\ phase = "send" /\ length > 0 /\ phase' = "timeout"
  /\ UNCHANGED <<ratio, maxchunk, sizes, count, uploadMax, requests, length, total>>

Next == GetConfig \/ BuildRequests \/ SendRequest \/ Read \/ ReadTimesOut

Spec == Init /\ [][Next]_vars
-----------------------------------------------------------------------------
(* upload_max, by which the producer and the consumer of upload count, is  *)
(* the number of requests built, at least maxchunkcount, and no size could *)
(* do with one request less.                                               *)
CountsAgree ==
  phase \in {"send", "sent", "timeout"} =>
    /\ uploadMax = FoldFunction(LAMBDA m, n : m + n, 0, requests)
    /\ maxchunk <= uploadMax /\ uploadMax - maxchunk < Len(sizes)

(* No body is longer than the Content-length announced for it (1609), and  *)
(* one that is read to its end is at most the 9 of "content1=" shorter.    *)
NeverMore == total <= length /\ (phase = "sent" => length - 9 <= total)
=============================================================================
