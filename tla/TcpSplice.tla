----------------------------- MODULE TcpSplice -----------------------------
(***************************************************************************)
(* What QPEP promises to the two TCP hosts it stands between: that each    *)
(* receives what the other writes as over one connection, and that none of *)
(* its two connections is closed before a host ends its side or the path   *)
(* between client and server is lost.  Nothing of the tunnel is visible    *)
(* but that the path can be lost, and one flaw of the code: its header may *)
(* be misread before the destination has received anything, which then     *)
(* receives pieces of the header and of the data.                          *)
(***************************************************************************)
EXTENDS Naturals, Sequences

VARIABLES
  peer,     \* peer[e]: "open", "half" (has shut down its sending), "gone"
  sent,     \* sent[e]: units numbered 1, 2, ... that the peer of side e wrote
  got,      \* got[e]: what it has received
  lost,     \* the path between client and server is lost, at least to one
  hung,     \* sides whose TCP connection the proxy has closed
  garbled   \* the header was misread

spliceVars == <<peer, sent, got, lost, hung, garbled>>

Side == {"client", "server"}
Other(e) == IF e = "client" THEN "server" ELSE "client"

Init ==
  /\ peer = [e \in Side |-> "open"]
  /\ sent = [e \in Side |-> 0]
  /\ got = [e \in Side |-> <<>>]
  /\ ~lost /\ hung = {} /\ ~garbled

Write(e) ==
  /\ peer[e] = "open"
  /\ sent' = [sent EXCEPT ![e] = @ + 1]
  /\ UNCHANGED <<peer, got, lost, hung, garbled>>

\* The next unit of the other peer; behind a misread header any unit it wrote,
\* or one of the header.
Receive(e) ==
  /\ peer[e] # "gone"
  /\ \E u \in 0 .. sent[Other(e)] :
       /\ u = Len(got[e]) + 1 \/ (e = "server" /\ garbled)
       /\ got' = [got EXCEPT ![e] = Append(@, u)]
  /\ UNCHANGED <<peer, sent, lost, hung, garbled>>

\* For ever, and never back from a full close to half of one.
EndSide(e) ==
  /\ \E p \in {"half", "gone"} :
       /\ peer[e] = "open" \/ p = "gone"
       /\ peer' = [peer EXCEPT ![e] = p]
  /\ UNCHANGED <<sent, got, lost, hung, garbled>>

LosePath ==
  /\ lost' = TRUE
  /\ UNCHANGED <<peer, sent, got, hung, garbled>>

HangUp(e) ==
  /\ lost \/ \E f \in Side : peer[f] # "open"
  /\ hung' = hung \cup {e}
  /\ UNCHANGED <<peer, sent, got, lost, garbled>>

Misread ==
  /\ got["server"] = <<>> /\ "server" \notin hung
  /\ garbled' = TRUE
  /\ UNCHANGED <<peer, sent, got, lost, hung>>

Next ==
  \/ \E e \in Side : Write(e) \/ Receive(e) \/ EndSide(e) \/ HangUp(e)
  \/ LosePath \/ Misread

Service == Init /\ [][Next]_spliceVars
=============================================================================
