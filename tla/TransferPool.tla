---------------------------- MODULE TransferPool ----------------------------
(***************************************************************************)
(* What Speedtest.download and Speedtest.upload promise to their caller:   *)
(* the requests are begun in order, at most "limit" are in flight, and     *)
(* one more for each request that has slipped through uncounted, each      *)
(* gives exactly one result, the results come in the order of the requests *)
(* and in the end the caller has all of them.                              *)
(***************************************************************************)
EXTENDS Naturals, Sequences

CONSTANTS
  Requests,     \* number of requests of the measurement
  Limits,       \* limits a measurement may be given
  Results       \* what a request can end with

VARIABLES
  limit,        \* requests that may be in flight together
  begun,        \* requests begun so far
  excess,       \* requests that may have slipped through
  results,      \* results of the requests that are over
  closed        \* the caller has the results

poolVars == <<limit, begun, excess, results, closed>>

Init ==
  limit \in Limits /\ begun = 0 /\ excess = 0 /\ results = <<>> /\ closed = FALSE

Begin ==
  /\ begun < Requests
  /\ begun - Len(results) < limit + excess
  /\ begun' = begun + 1
  /\ UNCHANGED <<limit, excess, results, closed>>

\* Each of those begun may slip through once.
Slip ==
  /\ excess < begun
  /\ excess' = excess + 1
  /\ UNCHANGED <<limit, begun, results, closed>>

Collect ==
  /\ Len(results) < begun
  /\ \E r \in Results : results' = Append(results, r)
  /\ UNCHANGED <<limit, begun, excess, closed>>

Close ==
  /\ ~closed
  /\ Len(results) = Requests
  /\ closed' = TRUE
  /\ UNCHANGED <<limit, begun, excess, results>>

Next == Begin \/ Slip \/ Collect \/ Close

Safety == Init /\ [][Next]_poolVars
=============================================================================
