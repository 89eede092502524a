---------------------------- MODULE MCQpepHeader ----------------------------
(***************************************************************************)
(* QpepHeader with the lengths of package net and one address of each kind *)
(* a socket can report.                                                    *)
(***************************************************************************)
EXTENDS QpepHeader

\* sixteen bytes: ten equal ones, two more, and the four of 198.18.0.9.
Sixteen(b, c, d) == [i \in 1 .. 10 |-> b] \o <<c, d>> \o <<198, 18, 0, 9>>

\* IPv4, the same IPv4 mapped, an IPv6 that is one bit short of being mapped,
\* and one whose bytes look like types; ports that need one byte, the other,
\* and both.
MCAddress ==
  { [ip |-> <<198, 18, 0, 9>>,      port |-> 80],
    [ip |-> Sixteen(0, 255, 255),   port |-> 65535],
    [ip |-> Sixteen(0, 255, 254),   port |-> 256],
    [ip |-> Sixteen(4, 6, 4),       port |-> 1024 + 6] }

\* Nothing yet, less than a misread can swallow, and more.
MCPayload == { <<>>, <<4, 6, 4>>, [i \in 1 .. 20 |-> i] }
=============================================================================
