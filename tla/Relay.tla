------------------------------- MODULE Relay -------------------------------
(***************************************************************************)
(* One TCP connection carried through the tunnel.                          *)
(*                                                                         *)
(*   application <-TCP-> QPEP client <-QUIC stream-> QPEP server <-TCP->   *)
(*   destination                                                           *)
(*                                                                         *)
(* The module starts where handleTCPConn of client.go has its QUIC stream  *)
(* (how it gets one is ClientSession) and follows both handlers to their   *)
(* ends: the header the client writes and the server parses, the dial, the *)
(* two copying goroutines of each side, the two closing sequences.  The    *)
(* two programs relay alike, so everything after the header is written     *)
(* once for a side e; peer[e] is the TCP host on that side (application or *)
(* destination).  TCP, QUIC streams and sessions are external: modelled by *)
(* what net and quic-go promise to the calls made here.                    *)
(*                                                                         *)
(* A unit is a piece of payload; the units a peer writes are numbered      *)
(* 1, 2, ... and the units of the QPEP header are all 0.                   *)
(***************************************************************************)
EXTENDS Integers, Sequences

CONSTANTS
  Units,          \* Units[e]: how many units the peer of side e writes at most
  SockBuf,        \* units a TCP connection holds between proxy and peer, each way
  StreamWindow,   \* flow-control window of the stream, in units
  PreambleLen,    \* QPEP_PREAMBLE_LENGTH
  AddressLen,     \* the two addresses and ports, as long as the preamble says
  LongAddressLen  \* the length a truncated preamble makes the server expect
                  \* (not less than AddressLen: QpepHeader, NeverAsksForLess)

Side == {"client", "server"}
Other(e) == IF e = "client" THEN "server" ELSE "client"

ASSUME UnitsAssumption == Units \in [Side -> Nat]
ASSUME SockBufAssumption == SockBuf \in Nat \ {0}
ASSUME HeaderAssumption ==
  /\ PreambleLen \in Nat \ {0}
  /\ AddressLen \in Nat \ {0}
  /\ LongAddressLen \in Nat
  /\ LongAddressLen >= AddressLen
ASSUME WindowAssumption ==
  StreamWindow \in Nat /\ StreamWindow >= PreambleLen + AddressLen

VARIABLES
  peer,    \* "open", "half" (has shut down its sending), "gone"
  sent,    \* units the peer of a side has written
  got,     \* what the peer of a side has received
  sock,    \* the proxy's TCP connection: "none", "open", "closed"
  inq,     \* TCP, from the peer to the proxy
  outq,    \* TCP, from the proxy to the peer
  t2q,     \* streamTCPtoQUIC: "off", "read", "write", "done"
  q2t,     \* streamQUICtoTCP: "off", "read", "write", "done"
  tbuf,    \* the unit streamTCPtoQUIC has read and not yet written
  qbuf,    \* the unit streamQUICtoTCP has read and not yet written
  strm,    \* strm[e]: the direction of the stream that side e writes
  ended,   \* how side e ended its direction: "open", "fin", "reset"
  stop,    \* the server has called CancelRead
  sess,    \* the QUIC session as a side sees it: "up", "down"
  phase,   \* where the side's handler is
  garbled  \* the server has parsed a header out of a short read

peerVars == <<peer, sent, got>>
tcpVars  == <<sock, inq, outq>>
copyVars == <<t2q, q2t, tbuf, qbuf>>
quicVars == <<strm, ended, stop>>
vars == <<peerVars, tcpVars, copyVars, quicVars, sess, phase, garbled>>

Lesser(a, b) == IF a < b THEN a ELSE b
\* Mutant: every address written as 16 bytes, whatever its type byte says.
HeaderTo16 == [i \in 1 .. PreambleLen + LongAddressLen |-> 0]

Header == [i \in 1 .. PreambleLen + AddressLen |-> 0]

-----------------------------------------------------------------------------
(* The application is connected and its handler has a stream; the server   *)
(* has not heard of the stream.                                            *)
Init ==
  /\ peer = [e \in Side |-> "open"]
  /\ sent = [e \in Side |-> 0]
  /\ got = [e \in Side |-> <<>>]
  /\ sock = [e \in Side |-> IF e = "client" THEN "open" ELSE "none"]
  /\ inq = [e \in Side |-> <<>>]
  /\ outq = [e \in Side |-> <<>>]
  /\ t2q = [e \in Side |-> "off"]
  /\ q2t = [e \in Side |-> "off"]
  /\ tbuf = [e \in Side |-> 0]
  /\ qbuf = [e \in Side |-> 0]
  /\ strm = [e \in Side |-> <<>>]
  /\ ended = [e \in Side |-> "open"]
  /\ stop = FALSE
  /\ sess = [e \in Side |-> "up"]
  /\ phase = [e \in Side |-> IF e = "client" THEN "open" ELSE "wait"]
  /\ garbled = FALSE

-----------------------------------------------------------------------------
(* The environment: the peers, the kernel's sockets, the QUIC session.     *)

\* A peer may write to a connection the proxy has closed: the unit is lost.
PeerSends(e) ==
  /\ peer[e] = "open" /\ sock[e] # "none"
  /\ sent[e] < Units[e]
  /\ Len(inq[e]) < SockBuf
  /\ sent' = [sent EXCEPT ![e] = @ + 1]
  /\ inq' = IF sock[e] = "open" THEN [inq EXCEPT ![e] = Append(@, sent[e] + 1)]
                                ELSE inq
  /\ UNCHANGED <<peer, got, sock, outq, copyVars, quicVars, sess, phase, garbled>>

\* The kernel delivers what the proxy wrote, after the proxy's close too.
PeerReceives(e) ==
  /\ peer[e] # "gone" /\ outq[e] # <<>>
  /\ got' = [got EXCEPT ![e] = Append(@, Head(outq[e]))]
  /\ outq' = [outq EXCEPT ![e] = Tail(@)]
  /\ UNCHANGED <<peer, sent, sock, inq, copyVars, quicVars, sess, phase, garbled>>

PeerShutsDown(e) ==
  /\ peer[e] = "open" /\ sock[e] # "none"
  /\ peer' = [peer EXCEPT ![e] = "half"]
  /\ UNCHANGED <<sent, got, tcpVars, copyVars, quicVars, sess, phase, garbled>>

\* Closing (k the whole queue) or resetting: a suffix in flight is lost.
PeerLeaves(e) ==
  /\ peer[e] # "gone" /\ sock[e] # "none"
  /\ peer' = [peer EXCEPT ![e] = "gone"]
  /\ \E k \in 0 .. Len(inq[e]) : inq' = [inq EXCEPT ![e] = SubSeq(@, 1, k)]
  /\ UNCHANGED <<sent, got, sock, outq, copyVars, quicVars, sess, phase, garbled>>

\* SetLinger(3): three seconds after the close, what is undelivered is dropped.
LingerExpires(e) ==
  /\ sock[e] = "closed" /\ outq[e] # <<>>
  /\ outq' = [outq EXCEPT ![e] = <<>>]
  /\ UNCHANGED <<peerVars, sock, inq, copyVars, quicVars, sess, phase, garbled>>

\* A side's view of the session dies: path lost, idle timeout, peer closed it.
SessionDown(e) ==
  /\ sess[e] = "up"
  /\ sess' = [sess EXCEPT ![e] = "down"]
  /\ UNCHANGED <<peerVars, tcpVars, copyVars, quicVars, phase, garbled>>

-----------------------------------------------------------------------------
(* The two handlers up to the start of the relay.                          *)

StartCopying(e) ==
  /\ t2q' = [t2q EXCEPT ![e] = "read"]
  /\ q2t' = [q2t EXCEPT ![e] = "read"]
  /\ phase' = [phase EXCEPT ![e] = "relay"]

\* The error of this Write is ignored: a dead session loses the header only.
WriteHeader ==
  /\ phase["client"] = "open"
  /\ strm' = IF sess["client"] = "up" THEN [strm EXCEPT !["client"] = Header] ELSE strm
  /\ StartCopying("client")
  /\ UNCHANGED <<peerVars, tcpVars, tbuf, qbuf, ended, stop, sess, garbled>>

AcceptStream ==
  /\ phase["server"] = "wait"
  /\ sess["server"] = "up" /\ strm["client"] # <<>>
  /\ phase' = [phase EXCEPT !["server"] = "preamble"]
  /\ UNCHANGED <<peerVars, tcpVars, copyVars, quicVars, sess, garbled>>

\* One Read of the stream returns what has arrived, at most want units.
ReadOnce(want, nextPhase) ==
  /\ sess["server"] = "up" /\ strm["client"] # <<>>
  /\ \E k \in 1 .. Lesser(want, Len(strm["client"])) :
       /\ strm' = [strm EXCEPT !["client"] = SubSeq(@, k + 1, Len(@))]
       /\ garbled' = (garbled \/ k < want)
  /\ phase' = [phase EXCEPT !["server"] = nextPhase]
  /\ UNCHANGED <<peerVars, tcpVars, copyVars, ended, stop, sess>>

ReadPreamble ==
  /\ phase["server"] = "preamble"
  /\ ReadOnce(PreambleLen, "address")

\* Mutant: the length without the last byte of the destination's port.
ReadAddressesOffByOne ==
  /\ phase["server"] = "address"
  /\ ReadOnce(IF garbled THEN LongAddressLen ELSE AddressLen - 1, "dial")

\* The missing type byte of a short preamble reads as "not IPv4".
ReadAddresses ==
  /\ phase["server"] = "address"
  /\ ReadOnce(IF garbled THEN LongAddressLen ELSE AddressLen, "dial")

\* Either Read errs: the handler returns and leaves the stream as it is.
HeaderFails ==
  /\ phase["server"] \in {"preamble", "address"}
  /\ sess["server"] = "down"
  /\ phase' = [phase EXCEPT !["server"] = "abandoned"]
  /\ UNCHANGED <<peerVars, tcpVars, copyVars, quicVars, sess, garbled>>

DialOk ==
  /\ phase["server"] = "dial"
  /\ sock' = [sock EXCEPT !["server"] = "open"]
  /\ StartCopying("server")
  /\ UNCHANGED <<peerVars, inq, outq, tbuf, qbuf, quicVars, sess, garbled>>

\* Refused, unreachable or 10 seconds: again the stream is left as it is.
DialFails ==
  /\ phase["server"] = "dial"
  /\ phase' = [phase EXCEPT !["server"] = "abandoned"]
  /\ UNCHANGED <<peerVars, tcpVars, copyVars, quicVars, sess, garbled>>

-----------------------------------------------------------------------------
(* streamTCPtoQUIC on side e.                                              *)

\* Mutant: CloseWrite, as the commented-out line has it, instead of Close.
CloseTcpWriteOnly(e) == UNCHANGED tcpVars

\* What both goroutines do when their io.Copy returns: the whole connection
\* is closed, for reading and writing, whichever direction has ended.
CloseTcp(e) ==
  /\ sock' = [sock EXCEPT ![e] = "closed"]
  /\ inq' = [inq EXCEPT ![e] = <<>>]
  /\ UNCHANGED outq

EndT2Q(e) ==
  /\ t2q' = [t2q EXCEPT ![e] = "done"]
  /\ CloseTcp(e)
  /\ UNCHANGED <<peerVars, q2t, tbuf, qbuf, quicVars, sess, phase, garbled>>

TcpRead(e) ==
  /\ t2q[e] = "read" /\ sock[e] = "open" /\ inq[e] # <<>>
  /\ tbuf' = [tbuf EXCEPT ![e] = Head(inq[e])]
  /\ inq' = [inq EXCEPT ![e] = Tail(@)]
  /\ t2q' = [t2q EXCEPT ![e] = "write"]
  /\ UNCHANGED <<peerVars, sock, outq, q2t, qbuf, quicVars, sess, phase, garbled>>

\* Mutant: the peer's FIN is obeyed before the data in front of it is read.
TcpReadEndsEarly(e) ==
  /\ t2q[e] = "read"
  /\ sock[e] = "closed" \/ peer[e] # "open"
  /\ EndT2Q(e)

\* End of file, a reset, or the other goroutine has closed the connection.
TcpReadEnds(e) ==
  /\ t2q[e] = "read"
  /\ sock[e] = "closed" \/ (inq[e] = <<>> /\ peer[e] # "open")
  /\ EndT2Q(e)

\* The server's CancelRead makes the client's writes fall on the floor ...
Discarded(e) == e = "client" /\ stop
RoomIn(e) == Discarded(e) \/ Len(strm[e]) < StreamWindow

StreamWrite(e) ==
  /\ t2q[e] = "write" /\ sess[e] = "up" /\ RoomIn(e)
  /\ strm' = IF Discarded(e) THEN strm ELSE [strm EXCEPT ![e] = Append(@, tbuf[e])]
  /\ t2q' = [t2q EXCEPT ![e] = "read"]
  /\ UNCHANGED <<peerVars, tcpVars, q2t, tbuf, qbuf, ended, stop, sess, phase, garbled>>

\* ... until STOP_SENDING arrives and they err, as they do on a dead session.
StreamWriteFails(e) ==
  /\ t2q[e] = "write"
  /\ sess[e] = "down" \/ Discarded(e)
  /\ EndT2Q(e)

-----------------------------------------------------------------------------
(* streamQUICtoTCP on side e.                                              *)

EndQ2T(e) ==
  /\ q2t' = [q2t EXCEPT ![e] = "done"]
  /\ CloseTcp(e)
  /\ UNCHANGED <<peerVars, t2q, tbuf, qbuf, quicVars, sess, phase, garbled>>

StreamRead(e) ==
  /\ q2t[e] = "read" /\ sess[e] = "up" /\ strm[Other(e)] # <<>>
  /\ qbuf' = [qbuf EXCEPT ![e] = Head(strm[Other(e)])]
  /\ strm' = [strm EXCEPT ![Other(e)] = Tail(@)]
  /\ q2t' = [q2t EXCEPT ![e] = "write"]
  /\ UNCHANGED <<peerVars, tcpVars, t2q, tbuf, ended, stop, sess, phase, garbled>>

\* Mutant: a stream that has nothing to read is taken for one that has ended.
StreamReadEndsOnEmpty(e) ==
  /\ q2t[e] = "read"
  /\ sess[e] = "down" \/ strm[Other(e)] = <<>>
  /\ EndQ2T(e)

\* Mutant: the error of a dead session is swallowed and the Read repeated.
StreamReadEndsNotOnError(e) ==
  /\ q2t[e] = "read"
  /\ \/ ended[Other(e)] = "reset"
     \/ ended[Other(e)] = "fin" /\ strm[Other(e)] = <<>>
  /\ EndQ2T(e)

\* FIN after the last unit; a reset at once, whatever is still unread.
StreamReadEnds(e) ==
  /\ q2t[e] = "read"
  /\ \/ sess[e] = "down"
     \/ ended[Other(e)] = "reset"
     \/ ended[Other(e)] = "fin" /\ strm[Other(e)] = <<>>
  /\ EndQ2T(e)

\* The kernel takes data for a peer that has gone, until its reset arrives.
TcpWrite(e) ==
  /\ q2t[e] = "write" /\ sock[e] = "open" /\ Len(outq[e]) < SockBuf
  /\ outq' = [outq EXCEPT ![e] = Append(@, qbuf[e])]
  /\ q2t' = [q2t EXCEPT ![e] = "read"]
  /\ UNCHANGED <<peerVars, sock, inq, t2q, tbuf, qbuf, quicVars, sess, phase, garbled>>

TcpWriteFails(e) ==
  /\ q2t[e] = "write"
  /\ sock[e] = "closed" \/ peer[e] = "gone"
  /\ EndQ2T(e)

-----------------------------------------------------------------------------
(* The ends of the two handlers, after streamWait.Wait().                  *)

CopiesDone(e) == t2q[e] = "done" /\ q2t[e] = "done"

\* Mutant: the handler ends without quicStream.Close().
CloseStreamForgotten ==
  /\ phase["client"] = "relay" /\ CopiesDone("client")
  /\ phase' = [phase EXCEPT !["client"] = "end"]
  /\ UNCHANGED <<peerVars, tcpVars, copyVars, quicVars, sess, garbled>>

CloseStream ==
  /\ phase["client"] = "relay" /\ CopiesDone("client")
  /\ phase' = [phase EXCEPT !["client"] = "end"]
  /\ ended' = IF sess["client"] = "up" THEN [ended EXCEPT !["client"] = "fin"] ELSE ended
  /\ UNCHANGED <<peerVars, tcpVars, copyVars, strm, stop, sess, garbled>>

\* CancelRead and CancelWrite; the server never sends a FIN.
CancelStream ==
  /\ phase["server"] = "relay" /\ CopiesDone("server")
  /\ phase' = [phase EXCEPT !["server"] = "end"]
  /\ IF sess["server"] = "up"
       THEN /\ stop' = TRUE
            /\ strm' = [strm EXCEPT !["client"] = <<>>]
            /\ ended' = [ended EXCEPT !["server"] = "reset"]
       ELSE UNCHANGED <<stop, strm, ended>>
  /\ UNCHANGED <<peerVars, tcpVars, copyVars, sess, garbled>>

-----------------------------------------------------------------------------
CopyT2Q(e) == TcpRead(e) \/ TcpReadEnds(e) \/ StreamWrite(e) \/ StreamWriteFails(e)
CopyQ2T(e) == StreamRead(e) \/ StreamReadEnds(e) \/ TcpWrite(e) \/ TcpWriteFails(e)
ClientHandler == WriteHeader \/ CloseStream
ServerHandler ==
  \/ AcceptStream \/ ReadPreamble \/ ReadAddresses \/ HeaderFails
  \/ DialOk \/ DialFails \/ CancelStream
Environment(e) ==
  \/ PeerSends(e) \/ PeerReceives(e) \/ PeerShutsDown(e) \/ PeerLeaves(e)
  \/ LingerExpires(e) \/ SessionDown(e)

Next ==
  \/ ClientHandler
  \/ ServerHandler
  \/ \E e \in Side : CopyT2Q(e) \/ CopyQ2T(e) \/ Environment(e)

Spec == Init /\ [][Next]_vars

(* No packet of this stream is due: its reader has caught up, its writer   *)
(* has nothing to write or no window to write it in.                       *)
Quiet ==
  /\ phase["client"] # "open"
  /\ phase["server"] \in {"wait", "preamble", "address"} => strm["client"] = <<>>
  /\ \A e \in Side : /\ t2q[e] = "write" => ~ RoomIn(e)
                     /\ q2t[e] = "read" => strm[Other(e)] = <<>>

\* The idle timeout (300 s) of a session whose other end is dead.
DeadTimeout(e) == sess[Other(e)] = "down" /\ SessionDown(e)

\* The idle timeout of a session that carries no other stream.
QuietTimeout(e) == Quiet /\ SessionDown(e)

(* Goroutines are scheduled; a peer that is there reads what it is sent; a *)
(* session without its other end dies.  Nobody has to send, to close or to *)
(* fail, and other streams may keep the session alive for ever.            *)
Fairness ==
  /\ WF_vars(ClientHandler) /\ WF_vars(ServerHandler)
  /\ \A e \in Side : /\ WF_vars(CopyT2Q(e)) /\ WF_vars(CopyQ2T(e))
                     /\ WF_vars(PeerReceives(e)) /\ WF_vars(DeadTimeout(e))

FairSpec == Spec /\ Fairness
=============================================================================
