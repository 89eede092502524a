------------------------------ MODULE MCRelay ------------------------------
(***************************************************************************)
(* Instances of Relay for TLC: peers that write a few units, buffers of    *)
(* one unit so that every writer blocks, a header long enough to be read   *)
(* short at both of its Reads.                                             *)
(***************************************************************************)
EXTENDS RelayProperties

\* Both peers write one unit; the application or the destination two.
OneEach == [e \in Side |-> 1]
TwoUp   == [e \in Side |-> IF e = "client" THEN 2 ELSE 1]
TwoDown == [e \in Side |-> IF e = "client" THEN 1 ELSE 2]
=============================================================================
