-------------------------- MODULE RelayProperties --------------------------
(***************************************************************************)
(* What one relayed connection promises.  RelayProofs proves the safety    *)
(* properties for every value of the constants; TLC checks them and the    *)
(* liveness properties on the instances of MCRelay.                        *)
(***************************************************************************)
EXTENDS Relay

-----------------------------------------------------------------------------
(* Every variable has its type and every queue keeps its bound: the copies *)
(* respect the socket buffers and the flow-control window.                 *)
Copier == {"off", "read", "write", "done"}
Phases == {"open", "wait", "preamble", "address", "dial", "relay", "end", "abandoned"}

PeersOK ==
  /\ peer \in [Side -> {"open", "half", "gone"}]
  /\ sent \in [Side -> Nat] /\ \A e \in Side : sent[e] <= Units[e]
  /\ got \in [Side -> Seq(Nat)]

SocketsOK ==
  /\ sock \in [Side -> {"none", "open", "closed"}]
  /\ inq \in [Side -> Seq(Nat)] /\ \A e \in Side : Len(inq[e]) <= SockBuf
  /\ outq \in [Side -> Seq(Nat)] /\ \A e \in Side : Len(outq[e]) <= SockBuf

CopiesOK ==
  /\ t2q \in [Side -> Copier] /\ q2t \in [Side -> Copier]
  /\ tbuf \in [Side -> Nat] /\ qbuf \in [Side -> Nat]

StreamOK ==
  /\ strm \in [Side -> Seq(Nat)] /\ \A e \in Side : Len(strm[e]) <= StreamWindow
  /\ ended \in [Side -> {"open", "fin", "reset"}]
  /\ stop \in BOOLEAN

HandlersOK ==
  /\ sess \in [Side -> {"up", "down"}]
  /\ phase \in [Side -> Phases]
  /\ phase["client"] \in {"open", "relay", "end"} /\ phase["server"] # "open"
  /\ garbled \in BOOLEAN

TypeOK == PeersOK /\ SocketsOK /\ CopiesOK /\ StreamOK /\ HandlersOK

-----------------------------------------------------------------------------
\* s is the units n + 1, n + 2, ...
RunFrom(s, n) == \A i \in 1 .. Len(s) : s[i] = n + i

(* The tunnel is transparent: whatever the interleaving of the copies, the *)
(* shared sockets and the closes, a peer receives a prefix of the units    *)
(* the other peer wrote, in order, none twice and no header among them.    *)
(* The destination's side needs a header that was not parsed short: what   *)
(* is left of a garbled header is relayed as payload.                      *)
InOrder ==
  \A e \in Side :
    e = "server" \/ ~ garbled =>
      RunFrom(got[Other(e)], 0) /\ Len(got[Other(e)]) <= sent[e]

(* The proxy never hangs up on its own: if it has closed either TCP        *)
(* connection then a peer has ended its side or a side has lost the        *)
(* session.  The four copies and two handlers close on each other's        *)
(* account; this excludes a circle of closes with no outer cause.          *)
OuterCause == \E e \in Side : peer[e] # "open" \/ sess[e] = "down"
CloseHasCause == (\E e \in Side : sock[e] = "closed") => OuterCause

(* Header, copies, stream and handlers together behave as the one TCP      *)
(* connection of TcpSplice: nothing comes out twice, out of order or from  *)
(* the header, a close has a cause and is for good, and a header is        *)
(* misread, if at all, before the destination has received anything.       *)
Splice == INSTANCE TcpSplice WITH
  lost <- \E e \in Side : sess[e] = "down",
  hung <- {e \in Side : sock[e] = "closed"}

OneConnection == Splice!Service

-----------------------------------------------------------------------------
(* The inductive invariants behind these.                                  *)

(* Where the goroutines of a handler are, given where the handler is, and  *)
(* what a finished copy, a cancelled stream or an ended stream presuppose. *)
Control ==
  /\ phase["client"] = "open" => phase["server"] = "wait" /\ strm["client"] = <<>>
  /\ \A e \in Side :
       /\ phase[e] \notin {"relay", "end"} =>
            t2q[e] = "off" /\ q2t[e] = "off" /\ sock[e] # "closed"
       /\ t2q[e] = "done" \/ q2t[e] = "done" => sock[e] = "closed"
       /\ sock[e] = "closed" => inq[e] = <<>>
       /\ ended[e] # "open" => phase[e] = "end"
       /\ phase[e] = "end" => sock[e] = "closed"
  /\ stop => phase["server"] = "end"

(* How much of the header is still in front of the payload in the stream.  *)
HeaderLeft(e) ==
  IF e = "server" \/ phase["client"] = "open" THEN 0
  ELSE IF phase["server"] \in {"wait", "preamble"} THEN PreambleLen + AddressLen
  ELSE IF phase["server"] = "address" THEN AddressLen
  ELSE 0

\* Units from side e that the other side's copy has taken out of the stream.
Arrived(e) ==
  Len(got[Other(e)]) + Len(outq[Other(e)])
    + (IF q2t[Other(e)] = "write" THEN 1 ELSE 0)

\* Units from side e's peer that this side's copy has taken out of TCP.
Taken(e) ==
  Arrived(e) + Len(strm[e]) - HeaderLeft(e) + (IF t2q[e] = "write" THEN 1 ELSE 0)

Clean(e) == e = "server" \/ ~ garbled

\* The path from side e to the other peer is whole, so nothing on it is lost.
Whole(e) ==
  /\ Clean(e) /\ sock[Other(e)] # "closed"
  /\ e = "client" => phase["server"] # "abandoned"

\* No unit of s is numbered above n.
AtMost(s, n) == \A i \in 1 .. Len(s) : s[i] <= n

\* s is what is left of the header, h units, and then n + 1, n + 2, ...
HeaderThen(s, h, n) ==
  \A i \in 1 .. Len(s) : s[i] = IF i <= h THEN 0 ELSE n + i - h

(* Every unit on its way was written by the peer it is said to come from.  *)
Genuine(e) ==
  /\ AtMost(inq[e], sent[e]) /\ tbuf[e] <= sent[e]
  /\ AtMost(strm[e], sent[e]) /\ qbuf[Other(e)] <= sent[e]

(* What has come out at the other end, and waits there in the socket.      *)
Delivered(e) ==
  Clean(e) =>
    /\ RunFrom(got[Other(e)], 0)
    /\ RunFrom(outq[Other(e)], Len(got[Other(e)]))
    /\ Len(got[Other(e)]) + Len(outq[Other(e)]) <= sent[e]

(* The stream holds the rest of the header, then the next units without a  *)
(* gap, and the reading copy holds the one before them.                    *)
InStream(e) ==
  Whole(e) =>
    /\ q2t[Other(e)] = "write" => qbuf[Other(e)] = Arrived(e)
    /\ HeaderThen(strm[e], HeaderLeft(e), Arrived(e))

(* While the stream can be written, so do the writing copy and the socket  *)
(* it reads: the header is out, and the units that follow are in order.    *)
Entering(e) ==
  Whole(e) /\ sess[e] = "up" =>
    /\ Len(strm[e]) >= HeaderLeft(e)
    /\ t2q[e] = "write" => tbuf[e] = Taken(e)
    /\ RunFrom(inq[e], Taken(e))
    /\ sock[e] # "closed" /\ peer[e] = "open" => sent[e] = Taken(e) + Len(inq[e])

DataOf(e) == Genuine(e) /\ Delivered(e) /\ InStream(e) /\ Entering(e)
OrderInv == TypeOK /\ Control /\ \A e \in Side : DataOf(e)

(* What a closing step goes by and passes on: every end has an outer cause. *)
Ends == (\E e \in Side : sock[e] = "closed" \/ ended[e] # "open") \/ stop
CauseInv == Control /\ (Ends => OuterCause)

-----------------------------------------------------------------------------
(* Liveness, under FairSpec. *)

Released(e) ==
  /\ e = "client" => phase[e] = "end"
  /\ e = "server" => phase[e] \in {"wait", "end", "abandoned"}

(* When the session carries nothing else, an application that goes away    *)
(* releases both handlers and their connections, by way of the session's   *)
(* idle timeout if the destination never speaks.                           *)
GoneReleases ==
  (\A e \in Side : WF_vars(QuietTimeout(e)))
    => (peer["client"] = "gone" ~> \A e \in Side : Released(e))

(* Once one side has lost the session both sides release everything, with  *)
(* or without other streams.                                               *)
SessionLossReleases ==
  (\E e \in Side : sess[e] = "down") ~> \A e \in Side : Released(e)

(* After the application's connection was closed, one more unit from the   *)
(* destination makes the client finish its stream and the server close the *)
(* destination's connection: no timeout of a shared session is needed.     *)
LateDataReleases ==
  q2t["client"] = "write" /\ sock["client"] = "closed"
    ~> phase["client"] = "end" /\ sock["server"] = "closed"

(* Every unit the application writes reaches the destination's socket,     *)
(* also when the application shuts down its sending right after, unless    *)
(* the application leaves, the destination ends, the dial fails or reads a *)
(* garbled header, or the session dies.                                    *)
UpReachesSocket ==
  \A n \in 1 .. Units["client"] :
    sent["client"] >= n /\ sock["server"] # "closed"
      ~> \/ Len(got["server"]) + Len(outq["server"]) >= n
         \/ peer["client"] = "gone" \/ peer["server"] # "open"
         \/ phase["server"] = "abandoned" \/ garbled
         \/ \E e \in Side : sess[e] = "down"

(* Every unit the destination writes reaches the application's socket,     *)
(* also when the destination shuts down its sending right after, unless    *)
(* the application ends (even by half), the destination goes away, the     *)
(* server resets the stream on its way out or the session dies.            *)
(* A destination that closes takes nothing back that the server's socket   *)
(* has received: that reaches the application too, unless the application  *)
(* ends, the server comes to write to the destination that has gone (the   *)
(* error closes the connection for both directions) or the session dies.   *)
ComesDown(n) ==
  \/ Len(got["client"]) + Len(outq["client"]) >= n
  \/ peer["client"] # "open"
  \/ \E e \in Side : sess[e] = "down"

DownReachesSocket ==
  \A n \in 1 .. Units["server"] :
    /\ sent["server"] >= n
         ~> ComesDown(n) \/ peer["server"] = "gone" \/ ended["server"] = "reset"
    /\ peer["server"] = "gone" /\ (\E i \in DOMAIN inq["server"] : inq["server"][i] = n)
         ~> ComesDown(n) \/ q2t["server"] = "write"

-----------------------------------------------------------------------------
(* What the comments and the README say, and the code does not do.         *)

(* client.go:124: the header is sent "so the server can generate the       *)
(* correct TCP handshake on the other side".                               *)
CorrectHandshake == sock["server"] # "none" => ~ garbled
=============================================================================
