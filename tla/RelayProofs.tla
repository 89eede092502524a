---------------------------- MODULE RelayProofs ----------------------------
(***************************************************************************)
(* Proofs that the safety properties of RelayProperties hold of Spec, for  *)
(* any number of units, any buffers, any header.                           *)
(***************************************************************************)
EXTENDS RelayProperties, SequenceTheorems, TLAPS

USE UnitsAssumption, SockBufAssumption, HeaderAssumption, WindowAssumption

-----------------------------------------------------------------------------
(* Facts about the operators the model is built from.                      *)

(* A side has one other side, whose other side it is.                      *)
LEMMA OtherSide ==
  ASSUME NEW e \in Side
  PROVE  Other(e) \in Side /\ Other(e) # e /\ Other(Other(e)) = e
BY DEF Side, Other

(* There are two sides: a function of sides is its two values.             *)
LEMMA BothSides ==
  ASSUME NEW e \in Side, NEW f \in Side
  PROVE  f = e \/ f = Other(e)
BY DEF Side, Other

(* Consuming the first k members of a sequence.                            *)
LEMMA DropFirst ==
  ASSUME NEW S, NEW s \in Seq(S), NEW k \in 0 .. Len(s)
  PROVE  /\ SubSeq(s, k + 1, Len(s)) \in Seq(S)
         /\ Len(SubSeq(s, k + 1, Len(s))) = Len(s) - k
         /\ \A i \in 1 .. Len(s) - k : SubSeq(s, k + 1, Len(s))[i] = s[i + k]
OBVIOUS

(* Appending a member to a sequence.                                       *)
LEMMA AppendOne ==
  ASSUME NEW S, NEW s \in Seq(S), NEW x \in S
  PROVE  /\ Append(s, x) \in Seq(S)
         /\ Len(Append(s, x)) = Len(s) + 1
         /\ \A i \in 1 .. Len(s) : Append(s, x)[i] = s[i]
         /\ Append(s, x)[Len(s) + 1] = x
OBVIOUS

(* Taking the head off a sequence.                                         *)
LEMMA TakeHead ==
  ASSUME NEW S, NEW s \in Seq(S), s # <<>>
  PROVE  /\ Head(s) \in S /\ Head(s) = s[1]
         /\ Len(s) \in Nat \ {0}
         /\ Tail(s) \in Seq(S) /\ Len(Tail(s)) = Len(s) - 1
         /\ \A i \in 1 .. Len(s) - 1 : Tail(s)[i] = s[i + 1]
OBVIOUS

(* Keeping the first k members of a sequence.                              *)
LEMMA KeepFirst ==
  ASSUME NEW S, NEW s \in Seq(S), NEW k \in 0 .. Len(s)
  PROVE  /\ SubSeq(s, 1, k) \in Seq(S)
         /\ Len(SubSeq(s, 1, k)) = k
         /\ \A i \in 1 .. k : SubSeq(s, 1, k)[i] = s[i]
OBVIOUS

(* The header is PreambleLen + AddressLen zeros.                           *)
LEMMA HeaderType ==
  /\ Header \in Seq(Nat) /\ Len(Header) = PreambleLen + AddressLen
  /\ \A i \in 1 .. PreambleLen + AddressLen : Header[i] = 0
BY DEF Header

(* The empty sequence, as a sequence of units.                             *)
LEMMA NoUnits == <<>> \in Seq(Nat) /\ Len(<<>>) = 0
OBVIOUS

-----------------------------------------------------------------------------
(* The type invariant is five groups of variables; a step that leaves a    *)
(* group alone keeps its part of it.                                       *)
LEMMA TypesStay ==
  /\ PeersOK /\ UNCHANGED peerVars => PeersOK'
  /\ SocketsOK /\ UNCHANGED tcpVars => SocketsOK'
  /\ CopiesOK /\ UNCHANGED copyVars => CopiesOK'
  /\ StreamOK /\ UNCHANGED quicVars => StreamOK'
  /\ HandlersOK /\ UNCHANGED <<sess, phase, garbled>> => HandlersOK'
<1>1. PeersOK /\ UNCHANGED peerVars => PeersOK'
  BY DEF PeersOK, peerVars
<1>2. SocketsOK /\ UNCHANGED tcpVars => SocketsOK'
  BY DEF SocketsOK, tcpVars
<1>3. CopiesOK /\ UNCHANGED copyVars => CopiesOK'
  BY DEF CopiesOK, copyVars
<1>4. StreamOK /\ UNCHANGED quicVars => StreamOK'
  BY DEF StreamOK, quicVars
<1>5. HandlersOK /\ UNCHANGED <<sess, phase, garbled>> => HandlersOK'
  BY DEF HandlersOK
<1> QED
  BY <1>1, <1>2, <1>3, <1>4, <1>5

LEMMA InitType == Init => TypeOK
<1> SUFFICES ASSUME Init PROVE TypeOK
  OBVIOUS
<1> USE DEF Init, Side
<1>1. PeersOK
  BY DEF PeersOK
<1>2. SocketsOK
  BY DEF SocketsOK
<1>3. CopiesOK
  BY DEF CopiesOK, Copier
<1>4. StreamOK
  <2>1. stop \in BOOLEAN
    OBVIOUS
  <2>2. strm \in [Side -> Seq(Nat)] /\ \A e \in Side : Len(strm[e]) <= StreamWindow
    OBVIOUS
  <2>3. ended \in [Side -> {"open", "fin", "reset"}]
    OBVIOUS
  <2> QED
    BY <2>1, <2>2, <2>3 DEF StreamOK
<1>5. HandlersOK
  BY DEF HandlersOK, Phases
<1> QED
  BY <1>1, <1>2, <1>3, <1>4, <1>5 DEF TypeOK

LEMMA HandlersType ==
  ASSUME TypeOK, ClientHandler \/ ServerHandler
  PROVE  TypeOK'
<1> USE TypesStay DEF TypeOK
<1>1. CASE WriteHeader
  <2>1. CopiesOK'
    BY <1>1 DEF WriteHeader, StartCopying, CopiesOK, Copier
  <2>2. StreamOK'
    BY <1>1, HeaderType DEF WriteHeader, StreamOK, Side
  <2>3. HandlersOK'
    BY <1>1 DEF WriteHeader, StartCopying, HandlersOK, Phases, Side
  <2> QED
    BY <1>1, <2>1, <2>2, <2>3 DEF WriteHeader
<1>2. CASE AcceptStream
  <2>1. HandlersOK'
    BY <1>2 DEF AcceptStream, HandlersOK, Phases, Side
  <2> QED
    BY <1>2, <2>1 DEF AcceptStream
<1>3. ASSUME NEW want \in Nat, NEW nextPhase \in {"address", "dial"},
             ReadOnce(want, nextPhase)
      PROVE  TypeOK'
  <2>1. StreamOK'
    <3>1. PICK k \in 1 .. Lesser(want, Len(strm["client"])) :
            strm' = [strm EXCEPT !["client"] = SubSeq(@, k + 1, Len(@))]
      BY <1>3 DEF ReadOnce
    <3>2. strm["client"] \in Seq(Nat) /\ Len(strm["client"]) \in Nat
      BY DEF StreamOK, Side
    <3>3. Lesser(want, Len(strm["client"])) \in 0 .. Len(strm["client"])
      BY <3>2 DEF Lesser
    <3>4. k \in 0 .. Len(strm["client"])
      BY <3>1, <3>2, <3>3
    <3>5. /\ SubSeq(strm["client"], k + 1, Len(strm["client"])) \in Seq(Nat)
          /\ Len(SubSeq(strm["client"], k + 1, Len(strm["client"]))) <= StreamWindow
      BY <3>2, <3>4, DropFirst DEF StreamOK, Side
    <3> QED
      BY <1>3, <3>1, <3>5 DEF ReadOnce, StreamOK, Side
  <2>2. HandlersOK'
    BY <1>3 DEF ReadOnce, HandlersOK, Phases, Side
  <2> QED
    BY <1>3, <2>1, <2>2 DEF ReadOnce
<1>4. CASE ReadPreamble
  BY <1>4, <1>3 DEF ReadPreamble
<1>5. CASE ReadAddresses
  BY <1>5, <1>3 DEF ReadAddresses
<1>6. CASE HeaderFails
  <2>1. HandlersOK'
    BY <1>6 DEF HeaderFails, HandlersOK, Phases, Side
  <2> QED
    BY <1>6, <2>1 DEF HeaderFails
<1>7. CASE DialOk
  <2>1. SocketsOK'
    BY <1>7 DEF DialOk, SocketsOK
  <2>2. CopiesOK'
    BY <1>7 DEF DialOk, StartCopying, CopiesOK, Copier
  <2>3. HandlersOK'
    BY <1>7 DEF DialOk, StartCopying, HandlersOK, Phases, Side
  <2> QED
    BY <1>7, <2>1, <2>2, <2>3 DEF DialOk
<1>8. CASE DialFails
  <2>1. HandlersOK'
    BY <1>8 DEF DialFails, HandlersOK, Phases, Side
  <2> QED
    BY <1>8, <2>1 DEF DialFails
<1>9. CASE CancelStream
  <2>1. StreamOK'
    <3>1. CASE sess["server"] = "up"
      <4>1. stop' \in BOOLEAN
        BY <1>9, <3>1 DEF CancelStream
      <4>2. strm' \in [Side -> Seq(Nat)] /\ \A e \in Side : Len(strm'[e]) <= StreamWindow
        <5>1. strm' = [strm EXCEPT !["client"] = <<>>]
          BY <1>9, <3>1 DEF CancelStream
        <5>2. /\ strm \in [Side -> Seq(Nat)]
              /\ \A e \in Side : Len(strm[e]) <= StreamWindow
          BY DEF StreamOK
        <5> HIDE DEF TypeOK
        <5>3. strm' \in [Side -> Seq(Nat)]
          BY <5>1, <5>2, NoUnits
        <5>4. \A e \in Side : Len(strm'[e]) <= StreamWindow
          BY <5>1, <5>2, NoUnits
        <5> QED
          BY <5>3, <5>4
      <4>3. ended' \in [Side -> {"open", "fin", "reset"}]
        BY <1>9, <3>1 DEF CancelStream, StreamOK
      <4> QED
        BY <4>1, <4>2, <4>3 DEF StreamOK
    <3>2. CASE sess["server"] # "up"
      BY <1>9, <3>2 DEF CancelStream, StreamOK
    <3> QED
      BY <3>1, <3>2
  <2>2. HandlersOK'
    BY <1>9 DEF CancelStream, HandlersOK, Phases, Side
  <2> QED
    BY <1>9, <2>1, <2>2 DEF CancelStream
<1>10. CASE CloseStream
  <2>1. StreamOK'
    BY <1>10 DEF CloseStream, StreamOK
  <2>2. HandlersOK'
    BY <1>10 DEF CloseStream, HandlersOK, Phases, Side
  <2> QED
    BY <1>10, <2>1, <2>2 DEF CloseStream
<1> QED
  BY <1>1, <1>2, <1>4, <1>5, <1>6, <1>7, <1>8, <1>9, <1>10
  DEF ClientHandler, ServerHandler

LEMMA CopiesType ==
  ASSUME TypeOK, NEW e \in Side, CopyT2Q(e) \/ CopyQ2T(e)
  PROVE  TypeOK'
<1> USE TypesStay DEF TypeOK
<1>1. CASE TcpRead(e)
  <2>1. SocketsOK'
    BY <1>1 DEF TcpRead, SocketsOK
  <2>2. CopiesOK'
    BY <1>1 DEF TcpRead, CopiesOK, SocketsOK, Copier
  <2> QED
    BY <1>1, <2>1, <2>2 DEF TcpRead
<1>2. CASE TcpReadEnds(e)
  <2>1. SocketsOK'
    BY <1>2 DEF TcpReadEnds, EndT2Q, CloseTcp, SocketsOK
  <2>2. CopiesOK'
    BY <1>2 DEF TcpReadEnds, EndT2Q, CloseTcp, CopiesOK, Copier
  <2> QED
    BY <1>2, <2>1, <2>2 DEF TcpReadEnds, EndT2Q, CloseTcp
<1>3. CASE StreamWrite(e)
  <2>1. CopiesOK'
    BY <1>3 DEF StreamWrite, CopiesOK, Copier
  <2>2. StreamOK'
    <3>1. CASE Discarded(e)
      BY <1>3, <3>1 DEF StreamWrite, StreamOK
    <3>2. CASE ~ Discarded(e)
      BY <1>3, <3>2, AppendOne DEF StreamWrite, RoomIn, CopiesOK, StreamOK
    <3> QED
      BY <3>1, <3>2
  <2> QED
    BY <1>3, <2>1, <2>2 DEF StreamWrite
<1>4. CASE StreamWriteFails(e)
  <2>1. SocketsOK'
    BY <1>4 DEF StreamWriteFails, EndT2Q, CloseTcp, SocketsOK
  <2>2. CopiesOK'
    BY <1>4 DEF StreamWriteFails, EndT2Q, CloseTcp, CopiesOK, Copier
  <2> QED
    BY <1>4, <2>1, <2>2 DEF StreamWriteFails, EndT2Q, CloseTcp
<1>5. CASE StreamRead(e)
  <2>0. strm[Other(e)] \in Seq(Nat) /\ Head(strm[Other(e)]) \in Nat
    BY <1>5, OtherSide DEF StreamRead, StreamOK
  <2>1. CopiesOK'
    BY <1>5, <2>0 DEF StreamRead, CopiesOK, Copier
  <2>2. StreamOK'
    BY <1>5, OtherSide DEF StreamRead, StreamOK
  <2> QED
    BY <1>5, <2>1, <2>2 DEF StreamRead
<1>6. CASE StreamReadEnds(e)
  <2>1. SocketsOK'
    BY <1>6 DEF StreamReadEnds, EndQ2T, CloseTcp, SocketsOK
  <2>2. CopiesOK'
    BY <1>6 DEF StreamReadEnds, EndQ2T, CloseTcp, CopiesOK, Copier
  <2> QED
    BY <1>6, <2>1, <2>2 DEF StreamReadEnds, EndQ2T, CloseTcp
<1>7. CASE TcpWrite(e)
  <2>1. SocketsOK'
    BY <1>7, AppendOne DEF TcpWrite, CopiesOK, SocketsOK
  <2>2. CopiesOK'
    BY <1>7 DEF TcpWrite, CopiesOK, Copier
  <2> QED
    BY <1>7, <2>1, <2>2 DEF TcpWrite
<1>8. CASE TcpWriteFails(e)
  <2>1. SocketsOK'
    BY <1>8 DEF TcpWriteFails, EndQ2T, CloseTcp, SocketsOK
  <2>2. CopiesOK'
    BY <1>8 DEF TcpWriteFails, EndQ2T, CloseTcp, CopiesOK, Copier
  <2> QED
    BY <1>8, <2>1, <2>2 DEF TcpWriteFails, EndQ2T, CloseTcp
<1> QED
  BY <1>1, <1>2, <1>3, <1>4, <1>5, <1>6, <1>7, <1>8 DEF CopyT2Q, CopyQ2T

LEMMA EnvironmentType ==
  ASSUME TypeOK, NEW e \in Side, Environment(e)
  PROVE  TypeOK'
<1> USE TypesStay DEF TypeOK
<1>1. CASE PeerSends(e)
  <2>1. PeersOK'
    BY <1>1 DEF PeerSends, PeersOK
  <2>2. SocketsOK'
    BY <1>1, AppendOne DEF PeerSends, PeersOK, SocketsOK
  <2> QED
    BY <1>1, <2>1, <2>2 DEF PeerSends
<1>2. CASE PeerReceives(e)
  <2>1. PeersOK'
    BY <1>2, AppendOne, TakeHead DEF PeerReceives, PeersOK, SocketsOK
  <2>2. SocketsOK'
    BY <1>2 DEF PeerReceives, SocketsOK
  <2> QED
    BY <1>2, <2>1, <2>2 DEF PeerReceives
<1>3. CASE PeerShutsDown(e)
  <2>1. PeersOK'
    BY <1>3 DEF PeerShutsDown, PeersOK
  <2> QED
    BY <1>3, <2>1 DEF PeerShutsDown
<1>4. CASE PeerLeaves(e)
  <2>1. PeersOK'
    BY <1>4 DEF PeerLeaves, PeersOK
  <2>2. SocketsOK'
    BY <1>4, KeepFirst DEF PeerLeaves, SocketsOK
  <2> QED
    BY <1>4, <2>1, <2>2 DEF PeerLeaves
<1>5. CASE LingerExpires(e)
  <2>1. SocketsOK'
    BY <1>5 DEF LingerExpires, SocketsOK
  <2> QED
    BY <1>5, <2>1 DEF LingerExpires
<1>6. CASE SessionDown(e)
  <2>1. HandlersOK'
    BY <1>6 DEF SessionDown, HandlersOK, Phases, Side
  <2> QED
    BY <1>6, <2>1 DEF SessionDown
<1> QED
  BY <1>1, <1>2, <1>3, <1>4, <1>5, <1>6 DEF Environment

LEMMA NextType ==
  ASSUME TypeOK, [Next]_vars
  PROVE  TypeOK'
<1>1. CASE Next
  BY <1>1, HandlersType, CopiesType, EnvironmentType DEF Next
<1>2. CASE UNCHANGED vars
  BY <1>2, TypesStay DEF vars, TypeOK
<1> QED
  BY <1>1, <1>2

(* Type correctness: every variable of the relay keeps its type, every     *)
(* socket queue its buffer and every stream its flow-control window.       *)
THEOREM TypeCorrect == Spec => []TypeOK
<1>1. Init => TypeOK
  BY InitType
<1>2. TypeOK /\ [Next]_vars => TypeOK'
  BY NextType
<1> QED
  BY <1>1, <1>2, PTL DEF Spec

-----------------------------------------------------------------------------
(* Control is inductive: a copy that is done, or a handler that has ended, *)
(* has left its connection closed and drained.                             *)

LEMMA InitControl == Init => Control
BY DEF Init, Control, Side

LEMMA ControlStays ==
  ASSUME TypeOK, Control,
         UNCHANGED <<sock, inq, t2q, q2t, strm, ended, stop, phase>>
  PROVE  Control'
BY DEF Control

LEMMA HandlersControl ==
  ASSUME TypeOK, Control, ClientHandler \/ ServerHandler
  PROVE  Control'
<1> USE DEF Control, Side, peerVars, tcpVars, copyVars, quicVars,
        TypeOK, SocketsOK, CopiesOK, StreamOK, HandlersOK
<1>1. CASE WriteHeader
  BY <1>1 DEF WriteHeader, StartCopying
<1>2. CASE AcceptStream
  BY <1>2 DEF AcceptStream
<1>3. CASE ReadPreamble
  BY <1>3 DEF ReadPreamble, ReadOnce
<1>4. CASE ReadAddresses
  BY <1>4 DEF ReadAddresses, ReadOnce
<1>5. CASE HeaderFails
  BY <1>5 DEF HeaderFails
<1>6. CASE DialOk
  BY <1>6 DEF DialOk, StartCopying
<1>7. CASE DialFails
  BY <1>7 DEF DialFails
<1>8. CASE CancelStream
  BY <1>8 DEF CancelStream, CopiesDone
<1>9. CASE CloseStream
  BY <1>9 DEF CloseStream, CopiesDone
<1> QED
  BY <1>1, <1>2, <1>3, <1>4, <1>5, <1>6, <1>7, <1>8, <1>9
  DEF ClientHandler, ServerHandler

LEMMA CopiesControl ==
  ASSUME TypeOK, Control, NEW e \in Side, CopyT2Q(e) \/ CopyQ2T(e)
  PROVE  Control'
<1> USE DEF Control, peerVars, tcpVars, copyVars, quicVars, CloseTcp,
        TypeOK, SocketsOK, CopiesOK, StreamOK, HandlersOK
<1>1. CASE TcpRead(e)
  BY <1>1 DEF TcpRead
<1>2. CASE TcpReadEnds(e)
  BY <1>2 DEF TcpReadEnds, EndT2Q
<1>3. CASE StreamWrite(e)
  BY <1>3 DEF StreamWrite, Side
<1>4. CASE StreamWriteFails(e)
  BY <1>4 DEF StreamWriteFails, EndT2Q
<1>5. CASE StreamRead(e)
  BY <1>5 DEF StreamRead, Side, Other
<1>6. CASE StreamReadEnds(e)
  BY <1>6 DEF StreamReadEnds, EndQ2T
<1>7. CASE TcpWrite(e)
  BY <1>7 DEF TcpWrite
<1>8. CASE TcpWriteFails(e)
  BY <1>8 DEF TcpWriteFails, EndQ2T
<1> QED
  BY <1>1, <1>2, <1>3, <1>4, <1>5, <1>6, <1>7, <1>8 DEF CopyT2Q, CopyQ2T

LEMMA EnvironmentControl ==
  ASSUME TypeOK, Control, NEW e \in Side, Environment(e)
  PROVE  Control'
<1> USE DEF Control, peerVars, tcpVars, copyVars, quicVars, TypeOK, SocketsOK
<1>1. CASE PeerSends(e)
  BY <1>1 DEF PeerSends
<1>2. CASE PeerReceives(e)
  BY <1>2 DEF PeerReceives
<1>3. CASE PeerShutsDown(e)
  BY <1>3 DEF PeerShutsDown
<1>4. CASE PeerLeaves(e)
  BY <1>4 DEF PeerLeaves
<1>5. CASE LingerExpires(e)
  BY <1>5 DEF LingerExpires
<1>6. CASE SessionDown(e)
  BY <1>6 DEF SessionDown
<1> QED
  BY <1>1, <1>2, <1>3, <1>4, <1>5, <1>6 DEF Environment

LEMMA NextControl ==
  ASSUME TypeOK, Control, [Next]_vars
  PROVE  Control'
<1>1. CASE Next
  BY <1>1, HandlersControl, CopiesControl, EnvironmentControl DEF Next
<1>2. CASE UNCHANGED vars
  BY <1>2, ControlStays DEF vars, tcpVars, copyVars, quicVars
<1> QED
  BY <1>1, <1>2

-----------------------------------------------------------------------------
(* Every end has an outer cause: without one no copy can return, so no     *)
(* handler gets to its closing calls.                                      *)

LEMMA InitCause == Init => CauseInv
BY InitControl DEF Init, CauseInv, Ends, Side

(* A peer does not come back and a session does not recover.               *)
LEMMA CauseStays ==
  ASSUME TypeOK, OuterCause, [Next]_vars
  PROVE  OuterCause'
<1> USE DEF OuterCause, TypeOK, PeersOK, HandlersOK
<1>1. CASE UNCHANGED <<peer, sess>>
  BY <1>1
<1>2. ASSUME NEW e \in Side, PeerShutsDown(e) \/ PeerLeaves(e)
      PROVE  OuterCause'
  BY <1>2 DEF PeerShutsDown, PeerLeaves
<1>3. ASSUME NEW e \in Side, SessionDown(e)
      PROVE  OuterCause'
  BY <1>3 DEF SessionDown, peerVars
<1>4. ClientHandler \/ ServerHandler => UNCHANGED <<peer, sess>>
  BY DEF ClientHandler, ServerHandler, peerVars, WriteHeader, AcceptStream, ReadPreamble,
     ReadAddresses, ReadOnce, HeaderFails, DialOk, DialFails, CancelStream, CloseStream
<1>5. ASSUME NEW e \in Side, CopyT2Q(e) \/ CopyQ2T(e)
      PROVE  UNCHANGED <<peer, sess>>
  BY <1>5 DEF CopyT2Q, CopyQ2T, peerVars, TcpRead, TcpReadEnds, StreamWrite,
     StreamWriteFails, StreamRead, StreamReadEnds, TcpWrite, TcpWriteFails, EndT2Q, EndQ2T
<1>6. ASSUME NEW e \in Side, PeerSends(e) \/ PeerReceives(e) \/ LingerExpires(e)
      PROVE  UNCHANGED <<peer, sess>>
  BY <1>6 DEF PeerSends, PeerReceives, LingerExpires, peerVars
<1>7. CASE UNCHANGED vars
  BY <1>1, <1>7 DEF vars, peerVars
<1> QED
  BY <1>1, <1>2, <1>3, <1>4, <1>5, <1>6, <1>7 DEF Next, Environment

(* A step taken while nothing has ended ends nothing, unless it has itself *)
(* an outer cause to go by.                                                *)
LEMMA NoEndByItself ==
  ASSUME TypeOK, CauseInv, ~ OuterCause, Next
  PROVE  ~ Ends'
<1>1. /\ \A e \in Side : /\ peer[e] = "open" /\ sess[e] = "up"
                         /\ sock[e] # "closed" /\ ended[e] = "open"
                         /\ t2q[e] # "done" /\ q2t[e] # "done"
      /\ ~ stop
  BY DEF CauseInv, Control, Ends, OuterCause, TypeOK, HandlersOK
<1>2. SUFFICES /\ UNCHANGED <<ended, stop>>
               /\ \A e \in Side : sock'[e] # "closed"
  BY <1>1 DEF Ends
<1>3. ClientHandler => UNCHANGED <<sock, ended, stop>>
  BY <1>1 DEF ClientHandler, WriteHeader, CloseStream, CopiesDone, Side, tcpVars
<1>4. ServerHandler /\ ~ DialOk => UNCHANGED <<sock, ended, stop>>
  BY <1>1 DEF ServerHandler, AcceptStream, ReadPreamble, ReadAddresses, ReadOnce,
     HeaderFails, DialFails, CancelStream, CopiesDone, Side, tcpVars, quicVars
<1>5. DialOk => UNCHANGED <<ended, stop>> /\ \A e \in Side : sock'[e] # "closed"
  BY <1>1 DEF DialOk, quicVars, TypeOK, SocketsOK
<1>6. ASSUME NEW e \in Side, CopyT2Q(e) \/ CopyQ2T(e)
      PROVE  UNCHANGED <<sock, ended, stop>>
  <2>1. Other(e) \in Side
    BY OtherSide
  <2>2. ~ TcpReadEnds(e) /\ ~ StreamWriteFails(e)
    BY <1>1 DEF TcpReadEnds, StreamWriteFails, Discarded
  <2>3. ~ StreamReadEnds(e) /\ ~ TcpWriteFails(e)
    BY <1>1, <2>1 DEF StreamReadEnds, TcpWriteFails
  <2> QED
    BY <1>6, <2>2, <2>3 DEF CopyT2Q, CopyQ2T, TcpRead, StreamWrite, StreamRead,
       TcpWrite, tcpVars, quicVars
<1>7. ASSUME NEW e \in Side, Environment(e)
      PROVE  UNCHANGED <<sock, ended, stop>>
  BY <1>7 DEF Environment, PeerSends, PeerReceives, PeerShutsDown, PeerLeaves,
     LingerExpires, SessionDown, tcpVars, quicVars
<1> QED
  BY <1>1, <1>3, <1>4, <1>5, <1>6, <1>7 DEF Next

LEMMA NextCause ==
  ASSUME TypeOK, CauseInv, [Next]_vars
  PROVE  CauseInv'
<1>1. Control'
  BY NextControl DEF CauseInv
<1>2. CASE OuterCause
  BY <1>1, <1>2, CauseStays DEF CauseInv
<1>3. CASE ~ OuterCause /\ Next
  BY <1>1, <1>3, NoEndByItself DEF CauseInv
<1>4. CASE UNCHANGED vars
  BY <1>1, <1>4 DEF CauseInv, Ends, OuterCause, vars, peerVars, tcpVars, quicVars
<1> QED
  BY <1>2, <1>3, <1>4

(* Every end that a copy or a handler goes by or passes on, a closed       *)
(* socket, an ended stream or a CancelRead, has an outer cause.            *)
THEOREM EveryEndHasACause == Spec => []CauseInv
<1>1. Init => TypeOK /\ CauseInv
  BY InitType, InitCause
<1>2. TypeOK /\ CauseInv /\ [Next]_vars => TypeOK' /\ CauseInv'
  BY NextType, NextCause
<1> QED
  BY <1>1, <1>2, PTL DEF Spec

(* The proxy never hangs up on its own: in every reachable state in which  *)
(* it has closed a TCP connection, a peer has ended its side or a side has *)
(* lost the session.                                                       *)
THEOREM EveryCloseHasACause == Spec => []CloseHasCause
<1>1. CauseInv => CloseHasCause
  BY DEF CauseInv, Ends, CloseHasCause
<1> QED
  BY <1>1, EveryEndHasACause, PTL

-----------------------------------------------------------------------------
(***************************************************************************)
(* The tunnel is transparent (InOrder).  OrderInv follows a unit through   *)
(* one direction of the relay, from side e's peer to the other peer:       *)
(* socket, copy, stream, copy, socket.  The lemmas below say what each     *)
(* step does to the direction DataOf(e) speaks of; the other direction is  *)
(* the same lemma with Other(e) in place of e.                             *)
(***************************************************************************)

(* What consuming and extending a sequence of units does to its numbering. *)

LEMMA UnitAdded ==
  ASSUME NEW s \in Seq(Nat), NEW x \in Nat
  PROVE  Append(s, x) \in Seq(Nat) /\ Len(Append(s, x)) = Len(s) + 1
OBVIOUS

LEMMA UnitRemoved ==
  ASSUME NEW s \in Seq(Nat), s # <<>>
  PROVE  Head(s) \in Nat /\ Tail(s) \in Seq(Nat) /\ Len(Tail(s)) = Len(s) - 1
BY TakeHead

LEMMA OneMoreFits ==
  ASSUME NEW a \in Nat, NEW b \in Nat, NEW q \in Nat, NEW s \in Nat,
         q = a + b + 1, q <= s
  PROVE  a + (b + 1) <= s
OBVIOUS

LEMMA FitStill ==
  ASSUME NEW a \in Nat, NEW b \in Nat, NEW s \in Nat, a + b <= s
  PROVE  a + b <= s + 1
OBVIOUS

LEMMA FewerFit ==
  ASSUME NEW a \in Nat, NEW b \in Nat, NEW s \in Nat, a + b <= s
  PROVE  a <= s
OBVIOUS

LEMMA AtMostEmpty == ASSUME NEW n PROVE AtMost(<<>>, n)
BY DEF AtMost

LEMMA AtMostMore ==
  ASSUME NEW s \in Seq(Nat), NEW n \in Nat, AtMost(s, n)
  PROVE  AtMost(s, n + 1)
BY DEF AtMost

LEMMA AtMostAppend ==
  ASSUME NEW s \in Seq(Nat), NEW n \in Nat, AtMost(s, n), NEW x \in Nat, x <= n
  PROVE  AtMost(Append(s, x), n)
BY AppendOne DEF AtMost

LEMMA AtMostTail ==
  ASSUME NEW s \in Seq(Nat), NEW n \in Nat, AtMost(s, n), s # <<>>
  PROVE  AtMost(Tail(s), n) /\ Head(s) <= n
BY TakeHead DEF AtMost

LEMMA AtMostKeep ==
  ASSUME NEW s \in Seq(Nat), NEW n \in Nat, AtMost(s, n), NEW k \in 0 .. Len(s)
  PROVE  AtMost(SubSeq(s, 1, k), n)
BY KeepFirst DEF AtMost

LEMMA AtMostDrop ==
  ASSUME NEW s \in Seq(Nat), NEW n \in Nat, AtMost(s, n), NEW k \in 0 .. Len(s)
  PROVE  AtMost(SubSeq(s, k + 1, Len(s)), n)
BY DropFirst DEF AtMost

LEMMA NoRun == ASSUME NEW n PROVE RunFrom(<<>>, n)
BY DEF RunFrom

LEMMA RunAppend ==
  ASSUME NEW s \in Seq(Nat), NEW n \in Int, RunFrom(s, n),
         NEW x \in Nat, x = n + Len(s) + 1
  PROVE  RunFrom(Append(s, x), n)
<1> SUFFICES ASSUME NEW i \in 1 .. Len(s) + 1
             PROVE  Append(s, x)[i] = n + i
  BY UnitAdded DEF RunFrom
<1>1. CASE i = Len(s) + 1
  BY <1>1, AppendOne
<1>2. CASE i \in 1 .. Len(s)
  BY <1>2, AppendOne DEF RunFrom
<1> QED
  BY <1>1, <1>2

LEMMA RunTail ==
  ASSUME NEW s \in Seq(Nat), NEW n \in Int, RunFrom(s, n), s # <<>>
  PROVE  RunFrom(Tail(s), n + 1) /\ Head(s) = n + 1
BY TakeHead DEF RunFrom

LEMMA RunKeep ==
  ASSUME NEW s \in Seq(Nat), NEW n \in Int, RunFrom(s, n), NEW k \in 0 .. Len(s)
  PROVE  RunFrom(SubSeq(s, 1, k), n)
BY KeepFirst DEF RunFrom

LEMMA HeaderThenAppend ==
  ASSUME NEW s \in Seq(Nat), NEW h \in Nat, NEW n \in Nat, HeaderThen(s, h, n),
         Len(s) >= h, NEW x \in Nat, x = n + Len(s) - h + 1
  PROVE  HeaderThen(Append(s, x), h, n)
BY AppendOne DEF HeaderThen

LEMMA HeaderThenDrop ==
  ASSUME NEW s \in Seq(Nat), NEW h \in Nat, NEW n \in Nat, HeaderThen(s, h, n),
         NEW k \in 0 .. Len(s), k <= h
  PROVE  HeaderThen(SubSeq(s, k + 1, Len(s)), h - k, n)
BY DropFirst DEF HeaderThen

LEMMA HeaderThenIsRun ==
  ASSUME NEW s \in Seq(Nat), NEW n \in Nat, HeaderThen(s, 0, n)
  PROVE  RunFrom(s, n)
BY DEF HeaderThen, RunFrom

LEMMA RunIsHeaderThen ==
  ASSUME NEW s \in Seq(Nat), NEW n \in Nat, RunFrom(s, n)
  PROVE  HeaderThen(s, 0, n)
BY DEF HeaderThen, RunFrom

LEMMA HeaderItself ==
  /\ \A n \in Nat : HeaderThen(Header, PreambleLen + AddressLen, n)
  /\ \A n \in Nat : AtMost(Header, n)
BY HeaderType DEF HeaderThen, AtMost

-----------------------------------------------------------------------------
(* The types of what DataOf speaks of, now and after the step.             *)
DataTypes ==
  /\ sent \in [Side -> Nat] /\ tbuf \in [Side -> Nat] /\ qbuf \in [Side -> Nat]
  /\ inq \in [Side -> Seq(Nat)] /\ outq \in [Side -> Seq(Nat)]
  /\ strm \in [Side -> Seq(Nat)] /\ got \in [Side -> Seq(Nat)]

Numbers(e) ==
  /\ sent[e] \in Nat /\ tbuf[e] \in Nat /\ qbuf[Other(e)] \in Nat
  /\ HeaderLeft(e) \in Nat /\ Arrived(e) \in Nat /\ Taken(e) \in Int

Queues(e) ==
  /\ inq[e] \in Seq(Nat) /\ strm[e] \in Seq(Nat)
  /\ outq[Other(e)] \in Seq(Nat) /\ got[Other(e)] \in Seq(Nat)

LEMMA DirectionTypes ==
  ASSUME TypeOK, NEW e \in Side
  PROVE  /\ DataTypes /\ Numbers(e) /\ Queues(e)
         /\ Other(e) \in Side /\ Other(e) # e
<1>1. DataTypes
  BY DEF DataTypes, TypeOK, PeersOK, SocketsOK, CopiesOK, StreamOK
<1>2. HeaderLeft(e) \in Nat
  BY HeaderAssumption DEF HeaderLeft
<1>3. Other(e) \in Side /\ Other(e) # e
  BY OtherSide
<1>4. Arrived(e) \in Nat
  BY <1>1, <1>3 DEF Arrived, DataTypes
<1>5. Taken(e) \in Int
  BY <1>1, <1>2, <1>4 DEF Taken, DataTypes
<1>6. Queues(e)
  BY <1>1, <1>3 DEF DataTypes, Queues
<1>7. Numbers(e)
  BY <1>1, <1>2, <1>3, <1>4, <1>5 DEF DataTypes, Numbers
<1> QED
  BY <1>1, <1>3, <1>6, <1>7

(* A step that touches nothing of a direction, or only makes less of it    *)
(* whole, keeps what is known of it.                                       *)
LEMMA DataStays ==
  ASSUME TypeOK, TypeOK', NEW e \in Side, DataOf(e),
         sent'[e] = sent[e], inq'[e] = inq[e], tbuf'[e] = tbuf[e],
         strm'[e] = strm[e], qbuf'[Other(e)] = qbuf[Other(e)],
         outq'[Other(e)] = outq[Other(e)], got'[Other(e)] = got[Other(e)],
         Clean(e)' => Clean(e),
         Whole(e)' => /\ Whole(e) /\ HeaderLeft(e)' = HeaderLeft(e)
                      /\ q2t'[Other(e)] = "write" <=> q2t[Other(e)] = "write",
         Whole(e)' /\ sess'[e] = "up" =>
           sess[e] = "up" /\ (t2q'[e] = "write" <=> t2q[e] = "write"),
         sock'[e] # "closed" /\ peer'[e] = "open" =>
           sock[e] # "closed" /\ peer[e] = "open"
  PROVE  DataOf(e)'
<1>1. Genuine(e)'
  BY DEF DataOf, Genuine
<1>2. Delivered(e)'
  BY DEF DataOf, Delivered
<1>3. Whole(e)' => Arrived(e)' = Arrived(e)
  BY DEF Arrived
<1>4. InStream(e)'
  BY <1>3 DEF DataOf, InStream
<1>5. Whole(e)' /\ sess'[e] = "up" => Taken(e)' = Taken(e)
  BY <1>3 DEF Taken
<1>6. Entering(e)'
  BY <1>3, <1>5 DEF DataOf, Entering
<1> QED
  BY <1>1, <1>2, <1>4, <1>6 DEF DataOf

(* A copy of side e returns: the connection is closed and drained.         *)
LEMMA DataCloses ==
  ASSUME TypeOK, TypeOK', NEW e \in Side, DataOf(e),
         sent'[e] = sent[e], inq'[e] = <<>>, sock'[e] = "closed", tbuf'[e] = tbuf[e],
         strm'[e] = strm[e], qbuf'[Other(e)] = qbuf[Other(e)],
         outq'[Other(e)] = outq[Other(e)], got'[Other(e)] = got[Other(e)],
         q2t'[Other(e)] = q2t[Other(e)], t2q'[e] = "done" \/ t2q'[e] = t2q[e],
         sock'[Other(e)] = sock[Other(e)],
         UNCHANGED <<garbled, phase, sess>>
  PROVE  DataOf(e)'
<1>1. Genuine(e)'
  BY DEF DataOf, Genuine, AtMost
<1>2. Delivered(e)'
  BY DEF DataOf, Delivered, Clean
<1>3. /\ Arrived(e)' = Arrived(e) /\ HeaderLeft(e)' = HeaderLeft(e)
      /\ Whole(e)' = Whole(e)
  BY DEF Arrived, HeaderLeft, Whole, Clean
<1>4. InStream(e)'
  BY <1>3 DEF DataOf, InStream
<1>5. t2q'[e] = "write" => t2q[e] = "write" /\ Taken(e)' = Taken(e)
  BY <1>3 DEF Taken
<1>6. Entering(e)'
  BY <1>3, <1>5, NoRun DEF DataOf, Entering
<1> QED
  BY <1>1, <1>2, <1>4, <1>6 DEF DataOf

-----------------------------------------------------------------------------
(* The steps of the environment.                                           *)

LEMMA DataPeerSends ==
  ASSUME TypeOK, TypeOK', NEW e \in Side, DataOf(e), PeerSends(e)
  PROVE  DataOf(e)'
<1>0. /\ DataTypes /\ DataTypes' /\ Numbers(e) /\ Queues(e)
      /\ Other(e) \in Side /\ Other(e) # e
  BY DirectionTypes DEF DataTypes, TypeOK, PeersOK, SocketsOK, CopiesOK, StreamOK
<1>1. /\ sent'[e] = sent[e] + 1
      /\ UNCHANGED <<peer, got, sock, outq, t2q, q2t, tbuf, qbuf, strm, sess, phase, garbled>>
  BY <1>0 DEF PeerSends, copyVars, quicVars, DataTypes
<1>2. /\ Arrived(e)' = Arrived(e) /\ HeaderLeft(e)' = HeaderLeft(e)
      /\ Taken(e)' = Taken(e) /\ Whole(e)' = Whole(e) /\ Clean(e)' = Clean(e)
  BY <1>1 DEF Arrived, HeaderLeft, Taken, Whole, Clean
<1>3. Delivered(e)' /\ InStream(e)'
  <2>1. /\ Len(got[Other(e)]) \in Nat /\ Len(outq[Other(e)]) \in Nat /\ sent[e] \in Nat
    BY <1>0 DEF Queues, Numbers
  <2>2. Len(got[Other(e)]) + Len(outq[Other(e)]) <= sent[e]
          => Len(got[Other(e)]) + Len(outq[Other(e)]) <= sent[e] + 1
    BY <2>1, FitStill
  <2>3. Delivered(e)'
    BY <1>1, <1>2, <2>2 DEF DataOf, Delivered
  <2>4. InStream(e)'
    BY <1>1, <1>2 DEF DataOf, InStream
  <2> QED
    BY <2>3, <2>4
<1>4. AtMost(inq[e], sent[e] + 1) /\ AtMost(strm[e], sent[e] + 1)
  BY <1>0, AtMostMore DEF DataOf, Genuine, Numbers, Queues
<1>5. tbuf[e] <= sent[e] + 1 /\ qbuf[Other(e)] <= sent[e] + 1
  BY <1>0 DEF DataOf, Genuine, Numbers
<1>6. CASE sock[e] = "open"
  <2>1. inq'[e] = Append(inq[e], sent[e] + 1)
    BY <1>0, <1>6 DEF PeerSends, DataTypes
  <2>2. sent[e] + 1 \in Nat /\ sent[e] + 1 <= sent[e] + 1
    BY <1>0 DEF Numbers
  <2>3. AtMost(Append(inq[e], sent[e] + 1), sent[e] + 1)
    BY <1>0, <1>4, <2>2, AtMostAppend DEF Queues
  <2>4. Genuine(e)'
    BY <1>1, <1>4, <1>5, <2>1, <2>3 DEF Genuine
  <2>5. ASSUME Whole(e), sess[e] = "up"
        PROVE  /\ RunFrom(inq'[e], Taken(e))
               /\ peer[e] = "open" => sent[e] + 1 = Taken(e) + Len(inq'[e])
    <3>1. RunFrom(inq[e], Taken(e)) /\ sent[e] = Taken(e) + Len(inq[e])
      BY <1>6, <2>5 DEF DataOf, Entering, PeerSends
    <3>2. Len(inq[e]) \in Nat /\ Len(Append(inq[e], sent[e] + 1)) = Len(inq[e]) + 1
      BY <1>0, <2>2, UnitAdded DEF Queues
    <3>3. sent[e] + 1 = Taken(e) + Len(inq[e]) + 1
      BY <1>0, <3>1, <3>2 DEF Numbers
    <3>4. RunFrom(Append(inq[e], sent[e] + 1), Taken(e))
      BY <1>0, <2>2, <3>1, <3>3, RunAppend DEF Queues, Numbers
    <3> QED
      BY <1>0, <2>1, <3>2, <3>3, <3>4 DEF Numbers
  <2>6. Entering(e)'
    BY <1>1, <1>2, <2>5 DEF DataOf, Entering, PeerSends
  <2> QED
    BY <1>3, <2>4, <2>6 DEF DataOf
<1>7. CASE sock[e] # "open"
  <2>1. sock[e] = "closed" /\ inq'[e] = inq[e]
    BY <1>7 DEF PeerSends, TypeOK, SocketsOK
  <2>2. Genuine(e)'
    BY <1>1, <1>4, <1>5, <2>1 DEF Genuine
  <2>3. Entering(e)'
    BY <1>1, <1>2, <2>1 DEF DataOf, Entering
  <2> QED
    BY <1>3, <2>2, <2>3 DEF DataOf
<1> QED
  BY <1>6, <1>7

LEMMA DataPeerReceives ==
  ASSUME TypeOK, TypeOK', NEW e \in Side, DataOf(e), PeerReceives(Other(e))
  PROVE  DataOf(e)'
<1>0. /\ DataTypes /\ DataTypes' /\ Numbers(e) /\ Queues(e)
      /\ Other(e) \in Side /\ Other(e) # e
  BY DirectionTypes DEF DataTypes, TypeOK, PeersOK, SocketsOK, CopiesOK, StreamOK
<1>1. /\ outq[Other(e)] # <<>>
      /\ got'[Other(e)] = Append(got[Other(e)], Head(outq[Other(e)]))
      /\ outq'[Other(e)] = Tail(outq[Other(e)])
      /\ UNCHANGED <<peer, sent, sock, inq, t2q, q2t, tbuf, qbuf, strm, sess, phase, garbled>>
  BY <1>0 DEF PeerReceives, copyVars, quicVars, DataTypes
<1>2. /\ Len(got'[Other(e)]) = Len(got[Other(e)]) + 1
      /\ Len(outq'[Other(e)]) = Len(outq[Other(e)]) - 1
      /\ Head(outq[Other(e)]) \in Nat
  BY <1>0, <1>1, UnitAdded, UnitRemoved DEF Queues
<1>3. Arrived(e)' = Arrived(e) /\ HeaderLeft(e)' = HeaderLeft(e)
  BY <1>0, <1>1, <1>2 DEF Arrived, HeaderLeft, DataTypes
<1>4. Taken(e)' = Taken(e) /\ Whole(e)' = Whole(e) /\ Clean(e)' = Clean(e)
  BY <1>1, <1>3 DEF Taken, Whole, Clean
<1>5. Genuine(e)' /\ InStream(e)' /\ Entering(e)'
  BY <1>1, <1>3, <1>4 DEF DataOf, Genuine, InStream, Entering
<1>6. ASSUME Clean(e)
      PROVE  Delivered(e)'
  <2>1. /\ RunFrom(got[Other(e)], 0) /\ RunFrom(outq[Other(e)], Len(got[Other(e)]))
        /\ Len(got[Other(e)]) + Len(outq[Other(e)]) <= sent[e]
    BY <1>6 DEF DataOf, Delivered
  <2>2. Len(got[Other(e)]) \in Nat /\ Len(outq[Other(e)]) \in Nat
    BY <1>0 DEF Queues
  <2>3. /\ RunFrom(Tail(outq[Other(e)]), Len(got[Other(e)]) + 1)
        /\ Head(outq[Other(e)]) = Len(got[Other(e)]) + 1
    BY <1>0, <1>1, <2>1, <2>2, RunTail DEF Queues
  <2>4. Head(outq[Other(e)]) = 0 + Len(got[Other(e)]) + 1
    BY <2>2, <2>3
  <2>5. RunFrom(Append(got[Other(e)], Head(outq[Other(e)])), 0)
    BY <1>0, <1>2, <2>1, <2>4, RunAppend DEF Queues
  <2>6. Len(got'[Other(e)]) + Len(outq'[Other(e)]) <= sent'[e]
    BY <1>0, <1>1, <1>2, <2>1, <2>2 DEF DataTypes
  <2> QED
    BY <1>1, <1>2, <2>3, <2>5, <2>6 DEF Delivered
<1> QED
  BY <1>4, <1>5, <1>6 DEF DataOf, Delivered

LEMMA DataPeerLeaves ==
  ASSUME TypeOK, TypeOK', NEW e \in Side, DataOf(e), PeerLeaves(e)
  PROVE  DataOf(e)'
<1>0. /\ DataTypes /\ DataTypes' /\ Numbers(e) /\ Queues(e)
      /\ Other(e) \in Side /\ Other(e) # e
  BY DirectionTypes DEF DataTypes, TypeOK, PeersOK, SocketsOK, CopiesOK, StreamOK
<1>1. PICK k \in 0 .. Len(inq[e]) : inq' = [inq EXCEPT ![e] = SubSeq(@, 1, k)]
  BY DEF PeerLeaves
<1>2. inq'[e] = SubSeq(inq[e], 1, k)
  BY <1>0, <1>1 DEF DataTypes
<1>3. /\ peer'[e] = "gone"
      /\ UNCHANGED <<sent, got, sock, outq, t2q, q2t, tbuf, qbuf, strm, sess, phase, garbled>>
  BY DEF PeerLeaves, copyVars, quicVars, TypeOK, PeersOK
<1>4. /\ Arrived(e)' = Arrived(e) /\ HeaderLeft(e)' = HeaderLeft(e)
      /\ Taken(e)' = Taken(e) /\ Whole(e)' = Whole(e) /\ Clean(e)' = Clean(e)
  BY <1>3 DEF Arrived, HeaderLeft, Taken, Whole, Clean
<1>5. AtMost(inq'[e], sent[e])
  BY <1>0, <1>2, AtMostKeep DEF DataOf, Genuine, Numbers, Queues
<1>6. Genuine(e)'
  BY <1>3, <1>5 DEF DataOf, Genuine
<1>7. Delivered(e)' /\ InStream(e)'
  BY <1>3, <1>4 DEF DataOf, Delivered, InStream
<1>8. ASSUME RunFrom(inq[e], Taken(e))
      PROVE  RunFrom(inq'[e], Taken(e))
  BY <1>0, <1>2, <1>8, RunKeep DEF Numbers, Queues
<1>9. Entering(e)'
  BY <1>3, <1>4, <1>8 DEF DataOf, Entering
<1> QED
  BY <1>6, <1>7, <1>9 DEF DataOf

LEMMA DataLingerExpires ==
  ASSUME TypeOK, TypeOK', NEW e \in Side, DataOf(e), LingerExpires(Other(e))
  PROVE  DataOf(e)'
<1>0. /\ DataTypes /\ DataTypes' /\ Numbers(e) /\ Queues(e)
      /\ Other(e) \in Side /\ Other(e) # e
  BY DirectionTypes DEF DataTypes, TypeOK, PeersOK, SocketsOK, CopiesOK, StreamOK
<1>1. /\ outq'[Other(e)] = <<>> /\ sock[Other(e)] = "closed"
      /\ UNCHANGED <<peer, sent, got, sock, inq, t2q, q2t, tbuf, qbuf, strm, sess, phase, garbled>>
  BY <1>0 DEF LingerExpires, peerVars, copyVars, quicVars, DataTypes
<1>2. ~ Whole(e)' /\ Clean(e)' = Clean(e)
  BY <1>1 DEF Whole, Clean
<1>3. Genuine(e)'
  BY <1>1 DEF DataOf, Genuine
<1>4. Delivered(e)'
  BY <1>0, <1>1, <1>2, NoRun, NoUnits DEF DataOf, Delivered, DataTypes
<1> QED
  BY <1>2, <1>3, <1>4 DEF DataOf, InStream, Entering

LEMMA EnvironmentData ==
  ASSUME TypeOK, TypeOK', NEW e \in Side, DataOf(e), NEW f \in Side, Environment(f)
  PROVE  DataOf(e)'
<1> USE DEF peerVars, tcpVars, copyVars, quicVars, HeaderLeft, Whole, Clean
<1>1. f = e \/ f = Other(e)
  BY BothSides
<1>2. CASE PeerSends(f)
  <2>1. CASE f = e
    BY <1>2, <2>1, DataPeerSends
  <2>2. CASE f = Other(e)
    BY <1>2, <2>2, DataStays, OtherSide DEF PeerSends, TypeOK, PeersOK, SocketsOK
  <2> QED
    BY <1>1, <2>1, <2>2
<1>3. CASE PeerReceives(f)
  <2>1. CASE f = Other(e)
    BY <1>3, <2>1, DataPeerReceives
  <2>2. CASE f = e
    BY <1>3, <2>2, DataStays, OtherSide DEF PeerReceives, TypeOK, PeersOK, SocketsOK
  <2> QED
    BY <1>1, <2>1, <2>2
<1>4. CASE PeerShutsDown(f)
  BY <1>4, DataStays DEF PeerShutsDown, TypeOK, PeersOK
<1>5. CASE PeerLeaves(f)
  <2>1. CASE f = e
    BY <1>5, <2>1, DataPeerLeaves
  <2>2. CASE f = Other(e)
    BY <1>5, <2>2, DataStays, OtherSide DEF PeerLeaves, TypeOK, PeersOK, SocketsOK
  <2> QED
    BY <1>1, <2>1, <2>2
<1>6. CASE LingerExpires(f)
  <2>1. CASE f = Other(e)
    BY <1>6, <2>1, DataLingerExpires
  <2>2. CASE f = e
    BY <1>6, <2>2, DataStays, OtherSide DEF LingerExpires, TypeOK, SocketsOK
  <2> QED
    BY <1>1, <2>1, <2>2
<1>7. CASE SessionDown(f)
  BY <1>7, DataStays DEF SessionDown, TypeOK, HandlersOK
<1> QED
  BY <1>2, <1>3, <1>4, <1>5, <1>6, <1>7 DEF Environment

-----------------------------------------------------------------------------
(* The steps of the copies.                                                *)

LEMMA DataTcpRead ==
  ASSUME TypeOK, TypeOK', Control, NEW e \in Side, DataOf(e), TcpRead(e)
  PROVE  DataOf(e)'
<1>0. /\ DataTypes /\ DataTypes' /\ Numbers(e) /\ Queues(e)
      /\ Other(e) \in Side /\ Other(e) # e
  BY DirectionTypes DEF DataTypes, TypeOK, PeersOK, SocketsOK, CopiesOK, StreamOK
<1>1. /\ t2q[e] = "read" /\ inq[e] # <<>> /\ tbuf'[e] = Head(inq[e])
      /\ inq'[e] = Tail(inq[e]) /\ t2q'[e] = "write"
      /\ UNCHANGED <<peer, sent, got, sock, outq, q2t, qbuf, strm, sess, phase, garbled>>
  BY <1>0 DEF TcpRead, peerVars, quicVars, DataTypes, TypeOK, CopiesOK
<1>2. /\ Arrived(e)' = Arrived(e) /\ HeaderLeft(e)' = HeaderLeft(e)
      /\ Whole(e)' = Whole(e) /\ Clean(e)' = Clean(e)
  BY <1>1 DEF Arrived, HeaderLeft, Whole, Clean
<1>3. Taken(e)' = Taken(e) + 1
  <2>1. Taken(e) = Arrived(e) + Len(strm[e]) - HeaderLeft(e) + 0
    BY <1>1 DEF Taken
  <2>2. Taken(e)' = Arrived(e) + Len(strm[e]) - HeaderLeft(e) + 1
    BY <1>1, <1>2 DEF Taken
  <2>3. Len(strm[e]) \in Nat
    BY <1>0 DEF Queues
  <2> QED
    BY <1>0, <2>1, <2>2, <2>3 DEF Numbers
<1>4. AtMost(inq'[e], sent[e]) /\ tbuf'[e] <= sent[e]
  BY <1>0, <1>1, AtMostTail DEF DataOf, Genuine, Numbers, Queues
<1>5. Genuine(e)'
  BY <1>1, <1>4 DEF DataOf, Genuine
<1>6. Delivered(e)' /\ InStream(e)'
  BY <1>1, <1>2 DEF DataOf, Delivered, InStream
<1>7. ASSUME RunFrom(inq[e], Taken(e))
      PROVE  RunFrom(inq'[e], Taken(e) + 1) /\ tbuf'[e] = Taken(e) + 1
  BY <1>0, <1>1, <1>7, RunTail DEF Numbers, Queues
<1>8. Len(inq[e]) \in Nat /\ Len(inq'[e]) = Len(inq[e]) - 1
  BY <1>0, <1>1, UnitRemoved DEF Queues
<1>9. ASSUME sent[e] = Taken(e) + Len(inq[e])
      PROVE  sent'[e] = Taken(e) + 1 + Len(inq'[e])
  BY <1>0, <1>1, <1>8, <1>9 DEF Numbers
<1>10. Entering(e)'
  BY <1>1, <1>2, <1>3, <1>7, <1>9 DEF DataOf, Entering
<1> QED
  BY <1>5, <1>6, <1>10 DEF DataOf

LEMMA DataStreamWrite ==
  ASSUME TypeOK, TypeOK', Control, NEW e \in Side, DataOf(e), StreamWrite(e)
  PROVE  DataOf(e)'
<1>0. /\ DataTypes /\ DataTypes' /\ Numbers(e) /\ Queues(e)
      /\ Other(e) \in Side /\ Other(e) # e
  BY DirectionTypes DEF DataTypes, TypeOK, PeersOK, SocketsOK, CopiesOK, StreamOK
<1>1. /\ t2q[e] = "write" /\ t2q'[e] = "read"
      /\ UNCHANGED <<peer, sent, got, sock, inq, outq, q2t, tbuf, qbuf, sess, phase, garbled>>
  BY DEF StreamWrite, peerVars, tcpVars, TypeOK, CopiesOK
<1>2. /\ Arrived(e)' = Arrived(e) /\ HeaderLeft(e)' = HeaderLeft(e)
      /\ Whole(e)' = Whole(e) /\ Clean(e)' = Clean(e)
  BY <1>1 DEF Arrived, HeaderLeft, Whole, Clean
<1>3. Delivered(e)'
  BY <1>1, <1>2 DEF DataOf, Delivered
<1>4. CASE Discarded(e)
  <2>1. strm' = strm
    BY <1>4 DEF StreamWrite
  <2>2. sock[Other(e)] = "closed"
    BY <1>0, <1>4 DEF Discarded, Control, Other
  <2>3. ~ Whole(e)'
    BY <1>1, <2>2 DEF Whole
  <2>4. Genuine(e)'
    BY <1>1, <2>1 DEF DataOf, Genuine
  <2> QED
    BY <1>3, <2>3, <2>4 DEF DataOf, InStream, Entering
<1>5. CASE ~ Discarded(e)
  <2>1. strm'[e] = Append(strm[e], tbuf[e])
    BY <1>0, <1>5 DEF StreamWrite, DataTypes
  <2>2. Len(strm[e]) \in Nat /\ Len(strm'[e]) = Len(strm[e]) + 1
    BY <1>0, <2>1, UnitAdded DEF Numbers, Queues
  <2>3. Taken(e)' = Taken(e)
    <3>1. Taken(e) = Arrived(e) + Len(strm[e]) - HeaderLeft(e) + 1
      BY <1>1 DEF Taken
    <3>2. Taken(e)' = Arrived(e) + Len(strm'[e]) - HeaderLeft(e) + 0
      BY <1>1, <1>2 DEF Taken
    <3> QED
      BY <1>0, <2>2, <3>1, <3>2 DEF Numbers
  <2>4. AtMost(strm'[e], sent[e])
    BY <1>0, <2>1, AtMostAppend DEF DataOf, Genuine, Numbers, Queues
  <2>5. Genuine(e)'
    BY <1>1, <2>4 DEF DataOf, Genuine
  <2>6. ASSUME Whole(e)
        PROVE  /\ HeaderThen(strm'[e], HeaderLeft(e), Arrived(e))
               /\ Len(strm'[e]) >= HeaderLeft(e)
    <3>1. HeaderThen(strm[e], HeaderLeft(e), Arrived(e))
      BY <2>6 DEF DataOf, InStream
    <3>2. Len(strm[e]) >= HeaderLeft(e) /\ tbuf[e] = Taken(e)
      BY <1>1, <2>6 DEF DataOf, Entering, StreamWrite
    <3>3. Taken(e) = Arrived(e) + Len(strm[e]) - HeaderLeft(e) + 1
      BY <1>1 DEF Taken
    <3>4. tbuf[e] = Arrived(e) + Len(strm[e]) - HeaderLeft(e) + 1
      BY <3>2, <3>3
    <3>5. HeaderThen(Append(strm[e], tbuf[e]), HeaderLeft(e), Arrived(e))
      BY <1>0, <3>1, <3>2, <3>4, HeaderThenAppend DEF Numbers, Queues
    <3> QED
      BY <1>0, <2>1, <2>2, <3>2, <3>5 DEF Numbers
  <2>7. InStream(e)'
    BY <1>1, <1>2, <2>6 DEF DataOf, InStream
  <2>8. Entering(e)'
    BY <1>1, <1>2, <2>3, <2>6 DEF DataOf, Entering
  <2> QED
    BY <1>3, <2>5, <2>7, <2>8 DEF DataOf
<1> QED
  BY <1>4, <1>5

LEMMA DataStreamRead ==
  ASSUME TypeOK, TypeOK', Control, NEW e \in Side, DataOf(e), StreamRead(Other(e))
  PROVE  DataOf(e)'
<1>0. /\ DataTypes /\ DataTypes' /\ Numbers(e) /\ Queues(e)
      /\ Other(e) \in Side /\ Other(e) # e
  BY DirectionTypes DEF DataTypes, TypeOK, PeersOK, SocketsOK, CopiesOK, StreamOK
<1>1. /\ q2t[Other(e)] = "read" /\ strm[e] # <<>>
      /\ qbuf'[Other(e)] = Head(strm[e]) /\ strm'[e] = Tail(strm[e])
      /\ q2t'[Other(e)] = "write"
      /\ UNCHANGED <<peer, sent, got, sock, inq, outq, t2q, tbuf, sess, phase, garbled>>
  BY <1>0, OtherSide DEF StreamRead, peerVars, tcpVars, DataTypes, TypeOK, CopiesOK
<1>2. HeaderLeft(e) = 0 /\ HeaderLeft(e)' = 0
  BY <1>0, <1>1 DEF HeaderLeft, Control, Other, Side
<1>3. Whole(e)' = Whole(e) /\ Clean(e)' = Clean(e)
  BY <1>1 DEF Whole, Clean
<1>4. Arrived(e)' = Arrived(e) + 1
  BY <1>0, <1>1 DEF Arrived, DataTypes
<1>5. Len(strm[e]) \in Nat /\ Len(strm'[e]) = Len(strm[e]) - 1 /\ Len(strm'[e]) \in Nat
  BY <1>0, <1>1, UnitRemoved DEF Queues, DataTypes
<1>6. Taken(e)' = Taken(e)
  BY <1>0, <1>1, <1>2, <1>4, <1>5 DEF Taken, Numbers
<1>7. AtMost(strm'[e], sent[e]) /\ qbuf'[Other(e)] <= sent[e]
  BY <1>0, <1>1, AtMostTail DEF DataOf, Genuine, Numbers, Queues
<1>8. Genuine(e)'
  BY <1>1, <1>7 DEF DataOf, Genuine
<1>9. Delivered(e)'
  BY <1>1, <1>3 DEF DataOf, Delivered
<1>10. InStream(e)'
  <2> SUFFICES ASSUME Whole(e)
               PROVE  /\ qbuf'[Other(e)] = Arrived(e) + 1
                      /\ HeaderThen(strm'[e], 0, Arrived(e) + 1)
    BY <1>2, <1>3, <1>4 DEF InStream
  <2>1. RunFrom(strm[e], Arrived(e))
    BY <1>0, <1>2, HeaderThenIsRun DEF DataOf, InStream, Numbers, Queues
  <2>2. RunFrom(strm'[e], Arrived(e) + 1) /\ qbuf'[Other(e)] = Arrived(e) + 1
    BY <1>0, <1>1, <2>1, RunTail DEF Numbers, Queues
  <2>3. strm'[e] \in Seq(Nat)
    BY <1>0 DEF DataTypes
  <2>4. Arrived(e) + 1 \in Nat
    BY <1>0 DEF Numbers
  <2> QED
    BY <2>2, <2>3, <2>4, RunIsHeaderThen
<1>11. Entering(e)'
  BY <1>1, <1>2, <1>3, <1>5, <1>6 DEF DataOf, Entering
<1> QED
  BY <1>8, <1>9, <1>10, <1>11 DEF DataOf

LEMMA DataTcpWrite ==
  ASSUME TypeOK, TypeOK', Control, NEW e \in Side, DataOf(e), TcpWrite(Other(e))
  PROVE  DataOf(e)'
<1>0. /\ DataTypes /\ DataTypes' /\ Numbers(e) /\ Queues(e)
      /\ Other(e) \in Side /\ Other(e) # e
  BY DirectionTypes DEF DataTypes, TypeOK, PeersOK, SocketsOK, CopiesOK, StreamOK
<1>1. /\ q2t[Other(e)] = "write" /\ sock[Other(e)] = "open"
      /\ outq'[Other(e)] = Append(outq[Other(e)], qbuf[Other(e)])
      /\ q2t'[Other(e)] = "read"
      /\ UNCHANGED <<peer, sent, got, sock, inq, t2q, tbuf, qbuf, strm, sess, phase, garbled>>
  BY <1>0 DEF TcpWrite, peerVars, quicVars, DataTypes, TypeOK, CopiesOK
<1>2. HeaderLeft(e)' = HeaderLeft(e) /\ Whole(e)' = Whole(e) /\ Clean(e)' = Clean(e)
  BY <1>1 DEF HeaderLeft, Whole, Clean
<1>3. /\ Len(got[Other(e)]) \in Nat /\ Len(outq[Other(e)]) \in Nat
      /\ Len(outq'[Other(e)]) = Len(outq[Other(e)]) + 1
  BY <1>0, <1>1, UnitAdded DEF Numbers, Queues
<1>4. Arrived(e) = Len(got[Other(e)]) + Len(outq[Other(e)]) + 1
  BY <1>1 DEF Arrived
<1>5. Arrived(e)' = Arrived(e)
  BY <1>0, <1>1, <1>3, <1>4 DEF Arrived, DataTypes
<1>6. Taken(e)' = Taken(e)
  BY <1>1, <1>2, <1>5 DEF Taken
<1>7. Genuine(e)' /\ InStream(e)' /\ Entering(e)'
  BY <1>1, <1>2, <1>5, <1>6 DEF DataOf, Genuine, InStream, Entering
<1>8. ASSUME Clean(e)
      PROVE  Delivered(e)'
  <2>1. Whole(e)
    BY <1>0, <1>1, <1>8 DEF Whole, Control, Other
  <2>2. qbuf[Other(e)] = Len(got[Other(e)]) + Len(outq[Other(e)]) + 1
    BY <1>1, <1>4, <2>1 DEF DataOf, InStream
  <2>3. qbuf[Other(e)] <= sent[e]
    BY DEF DataOf, Genuine
  <2>4. RunFrom(got[Other(e)], 0) /\ RunFrom(outq[Other(e)], Len(got[Other(e)]))
    BY <1>8 DEF DataOf, Delivered
  <2>5. RunFrom(Append(outq[Other(e)], qbuf[Other(e)]), Len(got[Other(e)]))
    <3>1. qbuf[Other(e)] \in Nat /\ outq[Other(e)] \in Seq(Nat)
      BY <1>0 DEF Numbers, Queues
    <3>2. Len(got[Other(e)]) \in Int
      BY <1>3
    <3> QED
      BY <2>2, <2>4, <3>1, <3>2, RunAppend
  <2>6. Len(got[Other(e)]) + (Len(outq[Other(e)]) + 1) <= sent[e]
    <3>1. qbuf[Other(e)] \in Nat /\ sent[e] \in Nat
      BY <1>0 DEF Numbers
    <3> QED
      BY <1>3, <2>2, <2>3, <3>1, OneMoreFits
  <2> QED
    BY <1>1, <1>3, <2>4, <2>5, <2>6 DEF Delivered
<1> QED
  BY <1>2, <1>7, <1>8 DEF DataOf, Delivered

LEMMA CopiesData ==
  ASSUME TypeOK, TypeOK', Control, NEW e \in Side, DataOf(e),
         NEW f \in Side, CopyT2Q(f) \/ CopyQ2T(f)
  PROVE  DataOf(e)'
<1>0. /\ Other(e) \in Side /\ Other(e) # e /\ Other(Other(e)) = e
      /\ f = e \/ f = Other(e)
  BY OtherSide, BothSides
<1> USE <1>0 DEF peerVars, tcpVars, quicVars, HeaderLeft, Whole, Clean,
      TypeOK, SocketsOK, CopiesOK, StreamOK
<1>1. CASE f = e
  <2>1. CASE TcpRead(e)
    BY <2>1, DataTcpRead
  <2>2. CASE TcpReadEnds(e)
    BY <2>2, DataCloses DEF TcpReadEnds, EndT2Q, CloseTcp
  <2>3. CASE StreamWrite(e)
    BY <2>3, DataStreamWrite
  <2>4. CASE StreamWriteFails(e)
    BY <2>4, DataCloses DEF StreamWriteFails, EndT2Q, CloseTcp
  <2>5. CASE StreamRead(e)
    BY <2>5, DataStays DEF StreamRead
  <2>6. CASE StreamReadEnds(e)
    BY <2>6, DataCloses DEF StreamReadEnds, EndQ2T, CloseTcp
  <2>7. CASE TcpWrite(e)
    BY <2>7, DataStays DEF TcpWrite
  <2>8. CASE TcpWriteFails(e)
    BY <2>8, DataCloses DEF TcpWriteFails, EndQ2T, CloseTcp
  <2> QED
    BY <1>1, <2>1, <2>2, <2>3, <2>4, <2>5, <2>6, <2>7, <2>8 DEF CopyT2Q, CopyQ2T
<1>2. CASE f = Other(e)
  <2>1. CASE TcpRead(f)
    BY <1>2, <2>1, DataStays DEF TcpRead
  <2>2. CASE TcpReadEnds(f)
    BY <1>2, <2>2, DataStays DEF TcpReadEnds, EndT2Q, CloseTcp
  <2>3. CASE StreamWrite(f)
    BY <1>2, <2>3, DataStays DEF StreamWrite
  <2>4. CASE StreamWriteFails(f)
    BY <1>2, <2>4, DataStays DEF StreamWriteFails, EndT2Q, CloseTcp
  <2>5. CASE StreamRead(f)
    BY <1>2, <2>5, DataStreamRead
  <2>6. CASE StreamReadEnds(f)
    BY <1>2, <2>6, DataStays DEF StreamReadEnds, EndQ2T, CloseTcp
  <2>7. CASE TcpWrite(f)
    BY <1>2, <2>7, DataTcpWrite
  <2>8. CASE TcpWriteFails(f)
    BY <1>2, <2>8, DataStays DEF TcpWriteFails, EndQ2T, CloseTcp
  <2> QED
    BY <2>1, <2>2, <2>3, <2>4, <2>5, <2>6, <2>7, <2>8 DEF CopyT2Q, CopyQ2T
<1> QED
  BY <1>1, <1>2

-----------------------------------------------------------------------------
(* The steps of the handlers.                                              *)

(* The header goes into an empty stream, and what the client has taken out *)
(* of its socket does not change by it.                                    *)
LEMMA DataWriteHeader ==
  ASSUME TypeOK, TypeOK', Control, DataOf("client"), WriteHeader
  PROVE  DataOf("client")'
<1> DEFINE e == "client"
<1>0. /\ e \in Side /\ DataTypes /\ DataTypes' /\ Numbers(e) /\ Queues(e)
      /\ Other(e) = "server" /\ Other(e) \in Side
  BY DirectionTypes DEF DataTypes, TypeOK, PeersOK, SocketsOK, CopiesOK, StreamOK, Side, Other
<1>1. /\ phase[e] = "open" /\ phase[Other(e)] = "wait" /\ strm[e] = <<>>
      /\ t2q[e] = "off" /\ q2t[Other(e)] = "off"
  BY <1>0 DEF WriteHeader, Control
<1>2. /\ phase'[e] = "relay" /\ phase'[Other(e)] = "wait" /\ t2q'[e] = "read"
      /\ q2t'[Other(e)] = "off" /\ strm'[e] = IF sess[e] = "up" THEN Header ELSE <<>>
      /\ UNCHANGED <<peer, sent, got, sock, inq, outq, tbuf, qbuf, sess, garbled>>
  BY <1>0, <1>1 DEF WriteHeader, StartCopying, peerVars, tcpVars, DataTypes,
                    TypeOK, CopiesOK, HandlersOK, Side
<1>3. /\ HeaderLeft(e) = 0 /\ HeaderLeft(e)' = PreambleLen + AddressLen
      /\ Whole(e)' = Whole(e) /\ Clean(e)' = Clean(e)
  BY <1>0, <1>1, <1>2 DEF HeaderLeft, Whole, Clean
<1>4. Arrived(e)' = Arrived(e)
  BY <1>1, <1>2 DEF Arrived
<1>5. Taken(e) = Arrived(e)
  <2>1. Taken(e) = Arrived(e) + Len(strm[e]) - HeaderLeft(e) + 0
    BY <1>1 DEF Taken
  <2>2. Len(strm[e]) = 0
    BY <1>1, NoUnits
  <2> QED
    BY <1>0, <1>3, <2>1, <2>2 DEF Numbers
<1>6. ASSUME sess[e] = "up"
      PROVE  /\ Taken(e)' = Taken(e) /\ Len(strm'[e]) >= HeaderLeft(e)'
  <2>1. Taken(e)' = Arrived(e) + Len(strm'[e]) - HeaderLeft(e)' + 0
    BY <1>2, <1>4 DEF Taken
  <2>2. Len(strm'[e]) = PreambleLen + AddressLen
    BY <1>2, <1>6, HeaderType
  <2> QED
    BY <1>0, <1>3, <1>5, <2>1, <2>2, HeaderAssumption DEF Numbers
<1>7. /\ HeaderThen(strm'[e], HeaderLeft(e)', Arrived(e))
      /\ AtMost(strm'[e], sent[e])
  <2>1. CASE sess[e] = "up"
    BY <1>0, <1>2, <1>3, <2>1, HeaderItself DEF Numbers
  <2>2. CASE sess[e] # "up"
    BY <1>2, <2>2, NoUnits DEF HeaderThen, AtMost
  <2> QED
    BY <2>1, <2>2
<1>8. Genuine(e)'
  BY <1>2, <1>7 DEF DataOf, Genuine
<1>9. Delivered(e)'
  BY <1>2, <1>3 DEF DataOf, Delivered
<1>10. InStream(e)'
  BY <1>2, <1>3, <1>4, <1>7 DEF InStream
<1>11. Entering(e)'
  BY <1>2, <1>3, <1>6 DEF DataOf, Entering
<1> QED
  BY <1>8, <1>9, <1>10, <1>11 DEF DataOf

(* A read of the header that is not short takes away just its part of it,  *)
(* and a short one garbles the header for good.                            *)
LEMMA DataReadOnce ==
  ASSUME TypeOK, TypeOK', DataOf("client"), NEW want \in Nat, NEW next,
         ReadOnce(want, next),
         ~ garbled' => /\ want <= HeaderLeft("client")
                       /\ HeaderLeft("client")' = HeaderLeft("client") - want,
         phase["server"] # "abandoned"
  PROVE  DataOf("client")'
<1> DEFINE e == "client"
<1>0. /\ e \in Side /\ DataTypes /\ DataTypes' /\ Numbers(e) /\ Queues(e)
  BY DirectionTypes DEF DataTypes, TypeOK, PeersOK, SocketsOK, CopiesOK, StreamOK, Side
<1>1. Len(strm[e]) \in Nat
  BY <1>0 DEF Queues
<1>2. PICK k \in 1 .. Lesser(want, Len(strm[e])) :
        /\ strm' = [strm EXCEPT ![e] = SubSeq(@, k + 1, Len(@))]
        /\ garbled' = (garbled \/ k < want)
  BY DEF ReadOnce
<1>3. k \in 0 .. Len(strm[e]) /\ k <= want
  BY <1>1, <1>2 DEF Lesser
<1>4. strm'[e] = SubSeq(strm[e], k + 1, Len(strm[e]))
  BY <1>0, <1>2 DEF DataTypes
<1>5. UNCHANGED <<peer, sent, got, sock, inq, outq, t2q, q2t, tbuf, qbuf, sess>>
  BY DEF ReadOnce, peerVars, tcpVars, copyVars
<1>6. Arrived(e)' = Arrived(e)
  BY <1>5 DEF Arrived
<1>7. AtMost(strm'[e], sent[e])
  BY <1>0, <1>3, <1>4, AtMostDrop DEF DataOf, Genuine, Numbers, Queues
<1>8. Genuine(e)'
  BY <1>5, <1>7 DEF DataOf, Genuine
<1>9. Clean(e)' => Clean(e)
  BY <1>2 DEF Clean
<1>10. Delivered(e)'
  BY <1>5, <1>9 DEF DataOf, Delivered
<1>11. CASE garbled'
  BY <1>8, <1>10, <1>11 DEF DataOf, InStream, Entering, Whole, Clean
<1>12. CASE ~ garbled'
  <2>1. k = want /\ k <= HeaderLeft(e) /\ HeaderLeft(e)' = HeaderLeft(e) - k
    <3>1. ~ (k < want)
      BY <1>2, <1>12
    <3>2. k = want
      BY <1>1, <1>3, <3>1
    <3> QED
      BY <1>12, <3>2
  <2>2. Whole(e)' => Whole(e)
    BY <1>5, <1>9 DEF Whole
  <2>3. InStream(e)'
    <3>1. SUFFICES ASSUME Whole(e)
                   PROVE  HeaderThen(strm'[e], HeaderLeft(e)', Arrived(e))
      BY <1>5, <1>6, <2>2 DEF DataOf, InStream
    <3>2. HeaderThen(strm[e], HeaderLeft(e), Arrived(e))
      BY <3>1 DEF DataOf, InStream
    <3> QED
      BY <1>0, <1>3, <1>4, <2>1, <3>2, HeaderThenDrop DEF Numbers, Queues
  <2>4. Len(strm'[e]) = Len(strm[e]) - k
    BY <1>0, <1>3, <1>4, DropFirst DEF Queues
  <2>5. Taken(e)' = Taken(e)
    <3> DEFINE b == IF t2q[e] = "write" THEN 1 ELSE 0
    <3>1. Taken(e) = Arrived(e) + Len(strm[e]) - HeaderLeft(e) + b
      BY DEF Taken
    <3>2. Taken(e)' = Arrived(e) + Len(strm'[e]) - HeaderLeft(e)' + b
      BY <1>5, <1>6 DEF Taken
    <3>3. b \in Int /\ k \in Int
      BY <1>3
    <3> HIDE DEF b
    <3> QED
      BY <1>0, <1>1, <2>1, <2>4, <3>1, <3>2, <3>3 DEF Numbers
  <2>6. Len(strm[e]) >= HeaderLeft(e) => Len(strm'[e]) >= HeaderLeft(e)'
    BY <1>0, <1>1, <1>3, <2>1, <2>4 DEF Numbers
  <2>7. Entering(e)'
    BY <1>5, <2>2, <2>5, <2>6 DEF DataOf, Entering
  <2> QED
    BY <1>8, <1>10, <2>3, <2>7 DEF DataOf
<1> QED
  BY <1>11, <1>12

LEMMA DataReadPreamble ==
  ASSUME TypeOK, TypeOK', Control, DataOf("client"), ReadPreamble
  PROVE  DataOf("client")'
<1>1. ReadOnce(PreambleLen, "address") /\ phase["server"] = "preamble"
  BY DEF ReadPreamble
<1>2. /\ phase["client"] # "open" /\ phase'["client"] # "open"
      /\ phase'["server"] = "address"
  BY <1>1 DEF ReadOnce, Control, TypeOK, HandlersOK, Side
<1>3. /\ HeaderLeft("client") = PreambleLen + AddressLen
      /\ HeaderLeft("client")' = AddressLen
  BY <1>1, <1>2 DEF HeaderLeft
<1>4. PreambleLen \in Nat /\ AddressLen \in Nat
  BY HeaderAssumption
<1>5. /\ PreambleLen <= HeaderLeft("client")
      /\ HeaderLeft("client")' = HeaderLeft("client") - PreambleLen
  BY <1>3, <1>4
<1> QED
  BY <1>1, <1>4, <1>5, DataReadOnce

LEMMA DataReadAddresses ==
  ASSUME TypeOK, TypeOK', Control, DataOf("client"), ReadAddresses
  PROVE  DataOf("client")'
<1> DEFINE want == IF garbled THEN LongAddressLen ELSE AddressLen
<1>1. ReadOnce(want, "dial") /\ phase["server"] = "address"
  BY DEF ReadAddresses
<1>2. /\ phase["client"] # "open" /\ phase'["client"] # "open"
      /\ phase'["server"] = "dial"
  BY <1>1 DEF ReadOnce, Control, TypeOK, HandlersOK, Side
<1>3. HeaderLeft("client") = AddressLen /\ HeaderLeft("client")' = 0
  BY <1>1, <1>2 DEF HeaderLeft
<1>4. want \in Nat /\ AddressLen \in Nat
  BY HeaderAssumption
<1>5. ~ garbled' => want = AddressLen
  BY <1>1 DEF ReadOnce
<1>6. ~ garbled' => /\ want <= HeaderLeft("client")
                    /\ HeaderLeft("client")' = HeaderLeft("client") - want
  BY <1>3, <1>4, <1>5
<1> HIDE DEF want
<1> QED
  BY <1>1, <1>4, <1>6, DataReadOnce

(* The server's last step drops what the stream still holds; by then its   *)
(* connection is closed and nothing of it could have been delivered.       *)
LEMMA DataCancelled ==
  ASSUME TypeOK, TypeOK', Control, DataOf("client"), CancelStream
  PROVE  DataOf("client")'
<1> DEFINE e == "client"
<1>1. UNCHANGED <<peer, sent, got, sock, inq, outq, t2q, q2t, tbuf, qbuf, sess, garbled>>
  BY DEF CancelStream, peerVars, tcpVars, copyVars
<1>2. sock["server"] = "closed"
  BY DEF CancelStream, CopiesDone, Control, Side
<1>3. ~ Whole(e)' /\ Clean(e)' = Clean(e)
  BY <1>1, <1>2 DEF Whole, Clean, Other
<1>4. strm'[e] = <<>> \/ strm'[e] = strm[e]
  BY DEF CancelStream, TypeOK, StreamOK, Side
<1>5. Genuine(e)'
  BY <1>1, <1>4, AtMostEmpty DEF DataOf, Genuine
<1>6. Delivered(e)'
  BY <1>1, <1>3 DEF DataOf, Delivered
<1> QED
  BY <1>3, <1>5, <1>6 DEF DataOf, InStream, Entering

LEMMA HandlersData ==
  ASSUME TypeOK, TypeOK', Control, NEW e \in Side, DataOf(e),
         ClientHandler \/ ServerHandler
  PROVE  DataOf(e)'
<1>0. Other("client") = "server" /\ Other("server") = "client"
  BY DEF Other
<1> USE DEF peerVars, tcpVars, copyVars, quicVars, HeaderLeft, Whole, Clean
<1>1. CASE e = "client"
  <2>1. CASE WriteHeader
    BY <1>1, <2>1, DataWriteHeader
  <2>2. CASE CloseStream
    BY <1>0, <1>1, <2>2, DataStays DEF CloseStream, TypeOK, HandlersOK
  <2>3. CASE AcceptStream
    BY <1>0, <1>1, <2>3, DataStays DEF AcceptStream, TypeOK, HandlersOK, Side
  <2>4. CASE ReadPreamble
    BY <1>1, <2>4, DataReadPreamble
  <2>5. CASE ReadAddresses
    BY <1>1, <2>5, DataReadAddresses
  <2>6. CASE HeaderFails
    BY <1>0, <1>1, <2>6, DataStays DEF HeaderFails, TypeOK, HandlersOK, Side
  <2>7. CASE DialOk
    BY <1>0, <1>1, <2>7, DataStays
       DEF DialOk, StartCopying, Control, TypeOK, SocketsOK, CopiesOK, HandlersOK, Side
  <2>8. CASE DialFails
    BY <1>0, <1>1, <2>8, DataStays DEF DialFails, TypeOK, HandlersOK, Side
  <2>9. CASE CancelStream
    BY <1>0, <1>1, <2>9, DataCancelled
  <2> QED
    BY <2>1, <2>2, <2>3, <2>4, <2>5, <2>6, <2>7, <2>8, <2>9
       DEF ClientHandler, ServerHandler
<1>2. CASE e = "server"
  <2>1. CASE WriteHeader
    BY <1>0, <1>2, <2>1, DataStays
       DEF WriteHeader, StartCopying, Control, TypeOK, StreamOK, CopiesOK, Side
  <2>2. CASE CloseStream
    BY <1>0, <1>2, <2>2, DataStays DEF CloseStream
  <2>3. CASE AcceptStream
    BY <1>0, <1>2, <2>3, DataStays DEF AcceptStream
  <2>4. CASE ReadPreamble
    BY <1>0, <1>2, <2>4, DataStays DEF ReadPreamble, ReadOnce, TypeOK, StreamOK, Side
  <2>5. CASE ReadAddresses
    BY <1>0, <1>2, <2>5, DataStays DEF ReadAddresses, ReadOnce, TypeOK, StreamOK, Side
  <2>6. CASE HeaderFails
    BY <1>0, <1>2, <2>6, DataStays DEF HeaderFails
  <2>7. CASE DialOk
    BY <1>0, <1>2, <2>7, DataStays
       DEF DialOk, StartCopying, Control, TypeOK, SocketsOK, CopiesOK, Side
  <2>8. CASE DialFails
    BY <1>0, <1>2, <2>8, DataStays DEF DialFails
  <2>9. CASE CancelStream
    BY <1>0, <1>2, <2>9, DataStays DEF CancelStream, TypeOK, StreamOK, Side
  <2> QED
    BY <2>1, <2>2, <2>3, <2>4, <2>5, <2>6, <2>7, <2>8, <2>9
       DEF ClientHandler, ServerHandler
<1> QED
  BY <1>1, <1>2 DEF Side

-----------------------------------------------------------------------------
LEMMA InitData == Init => \A e \in Side : DataOf(e)
<1> SUFFICES ASSUME Init, NEW e \in Side PROVE DataOf(e)
  OBVIOUS
<1>0. Other(e) \in Side
  BY OtherSide
<1>1. /\ inq[e] = <<>> /\ strm[e] = <<>> /\ got[Other(e)] = <<>> /\ outq[Other(e)] = <<>>
      /\ sent[e] = 0 /\ tbuf[e] = 0 /\ qbuf[Other(e)] = 0
      /\ t2q[e] = "off" /\ q2t[Other(e)] = "off" /\ phase["client"] = "open"
  BY <1>0 DEF Init, Side
<1>2. Len(<<>>) = 0
  BY NoUnits
<1>3. Arrived(e) = 0 /\ HeaderLeft(e) = 0
  BY <1>1, <1>2 DEF Arrived, HeaderLeft
<1>4. Taken(e) = 0
  BY <1>1, <1>2, <1>3 DEF Taken
<1>5. Genuine(e) /\ Delivered(e)
  BY <1>1, <1>2, AtMostEmpty, NoRun DEF Genuine, Delivered
<1>6. InStream(e)
  BY <1>1, <1>2, <1>3 DEF InStream, HeaderThen
<1>7. Entering(e)
  BY <1>1, <1>2, <1>3, <1>4, NoRun DEF Entering
<1> QED
  BY <1>5, <1>6, <1>7 DEF DataOf

LEMMA NextOrder ==
  ASSUME OrderInv, [Next]_vars
  PROVE  OrderInv'
<1>1. TypeOK /\ Control /\ \A e \in Side : DataOf(e)
  BY DEF OrderInv
<1>2. TypeOK' /\ Control'
  BY <1>1, NextType, NextControl
<1>3. ASSUME NEW e \in Side PROVE DataOf(e)'
  <2>1. CASE ClientHandler \/ ServerHandler
    BY <1>1, <1>2, <2>1, HandlersData
  <2>2. ASSUME NEW f \in Side, CopyT2Q(f) \/ CopyQ2T(f) PROVE DataOf(e)'
    BY <1>1, <1>2, <2>2, CopiesData
  <2>3. ASSUME NEW f \in Side, Environment(f) PROVE DataOf(e)'
    BY <1>1, <1>2, <2>3, EnvironmentData
  <2>4. CASE UNCHANGED vars
    BY <1>1, <1>2, <2>4, DataStays
       DEF vars, peerVars, tcpVars, copyVars, quicVars, HeaderLeft, Whole, Clean
  <2> QED
    BY <2>1, <2>2, <2>3, <2>4 DEF Next
<1> QED
  BY <1>2, <1>3 DEF OrderInv

(* The units on their way, from a peer's socket through both copies and    *)
(* the stream to the other peer, are the next ones without a gap wherever  *)
(* the path is whole, and nowhere one that was not written.                *)
THEOREM OrderInvariant == Spec => []OrderInv
<1>1. Init => OrderInv
  BY InitType, InitControl, InitData DEF OrderInv
<1>2. OrderInv /\ [Next]_vars => OrderInv'
  BY NextOrder
<1> QED
  BY <1>1, <1>2, PTL DEF Spec

(* In every behaviour, for every traffic, every size of the buffers, of    *)
(* the window and of the header, a peer receives a prefix of what the      *)
(* other one wrote: each unit once, in order, the header not among them.   *)
(* To the destination this holds as long as no header was read short.      *)
THEOREM Transparent == Spec => []InOrder
<1>1. OrderInv => InOrder
  <2> SUFFICES ASSUME OrderInv, NEW e \in Side, e = "server" \/ ~ garbled
               PROVE  RunFrom(got[Other(e)], 0) /\ Len(got[Other(e)]) <= sent[e]
    BY DEF InOrder
  <2>1. /\ RunFrom(got[Other(e)], 0)
        /\ Len(got[Other(e)]) + Len(outq[Other(e)]) <= sent[e]
    BY DEF OrderInv, DataOf, Delivered, Clean
  <2>2. Queues(e) /\ Numbers(e)
    BY DirectionTypes DEF OrderInv
  <2>3. Len(got[Other(e)]) \in Nat /\ Len(outq[Other(e)]) \in Nat /\ sent[e] \in Nat
    BY <2>2 DEF Queues, Numbers
  <2> QED
    BY <2>1, <2>3, FewerFit
<1> QED
  BY <1>1, OrderInvariant, PTL

-----------------------------------------------------------------------------
(***************************************************************************)
(* The relay implements TcpSplice (OneConnection).  OrderInv says which    *)
(* unit a peer receives next, CauseInv why a socket is closed; what is     *)
(* missing for the destination behind a misread header is Fresh.           *)
(***************************************************************************)

PathLost == \E e \in Side : sess[e] = "down"
Hung == {e \in Side : sock[e] = "closed"}

(* Nothing is on its way out to the destination before it has been dialed, *)
(* and afterwards only units of the header or of the application.          *)
Fresh ==
  /\ phase["server"] \notin {"relay", "end"} => got["server"] = <<>> /\ outq["server"] = <<>>
  /\ AtMost(outq["server"], sent["client"])

-----------------------------------------------------------------------------
LEMMA InitFresh == Init => Fresh
BY DEF Init, Fresh, AtMost, Side

LEMMA FreshStays ==
  ASSUME Fresh, UNCHANGED <<sent, got, outq, phase>>
  PROVE  Fresh'
BY DEF Fresh, AtMost

LEMMA HandlersFresh ==
  ASSUME TypeOK, Fresh, ClientHandler \/ ServerHandler
  PROVE  Fresh'
<1>1. UNCHANGED <<sent, got, outq>>
  BY DEF ClientHandler, WriteHeader, CloseStream, ServerHandler, AcceptStream,
     ReadPreamble, ReadAddresses, ReadOnce, HeaderFails, DialOk, DialFails,
     CancelStream, peerVars, tcpVars
<1>2. phase["server"] \in {"relay", "end"} => phase'["server"] \in {"relay", "end"}
  BY DEF ClientHandler, WriteHeader, CloseStream, ServerHandler, AcceptStream,
     ReadPreamble, ReadAddresses, ReadOnce, HeaderFails, DialOk, DialFails,
     CancelStream, StartCopying, TypeOK, HandlersOK, Side
<1> QED
  BY <1>1, <1>2 DEF Fresh, AtMost

LEMMA CopiesFresh ==
  ASSUME TypeOK, Control, DataOf("client"), Fresh, NEW e \in Side, CopyT2Q(e) \/ CopyQ2T(e)
  PROVE  Fresh'
<1>1. CASE TcpWrite(e) /\ e = "server"
  <2>1. /\ q2t["server"] = "write"
        /\ outq'["server"] = Append(outq["server"], qbuf["server"])
        /\ UNCHANGED <<sent, got, phase>>
    BY <1>1 DEF TcpWrite, peerVars, TypeOK, SocketsOK
  <2>2. phase["server"] \in {"relay", "end"}
    BY <2>1 DEF Control, Side
  <2>3. qbuf["server"] \in Nat /\ qbuf["server"] <= sent["client"]
    BY DEF DataOf, Genuine, Other, TypeOK, CopiesOK, Side
  <2>4. outq["server"] \in Seq(Nat) /\ sent["client"] \in Nat
    BY DEF TypeOK, SocketsOK, PeersOK, Side
  <2>5. AtMost(outq'["server"], sent["client"])
    BY <2>1, <2>3, <2>4, AtMostAppend DEF Fresh
  <2> QED
    BY <2>1, <2>2, <2>5 DEF Fresh, AtMost
<1>2. CASE TcpWrite(e) /\ e = "client"
  <2>1. /\ outq' = [outq EXCEPT !["client"] = Append(@, qbuf["client"])]
        /\ UNCHANGED <<sent, got, phase>>
    BY <1>2 DEF TcpWrite, peerVars
  <2>2. outq'["server"] = outq["server"]
    BY <2>1 DEF TypeOK, SocketsOK, Side
  <2> QED
    BY <2>1, <2>2 DEF Fresh, AtMost
<1>3. CASE ~ TcpWrite(e)
  <2>1. UNCHANGED <<sent, got, outq, phase>>
    BY <1>3 DEF CopyT2Q, CopyQ2T, TcpRead, TcpReadEnds, StreamWrite, StreamWriteFails,
       StreamRead, StreamReadEnds, TcpWriteFails, EndT2Q, EndQ2T, CloseTcp,
       peerVars, tcpVars
  <2> QED
    BY <2>1, FreshStays
<1> QED
  BY <1>1, <1>2, <1>3 DEF Side

LEMMA EnvironmentFresh ==
  ASSUME TypeOK, Fresh, NEW e \in Side, Environment(e)
  PROVE  Fresh'
<1>0. outq["server"] \in Seq(Nat) /\ sent["client"] \in Nat
  BY DEF TypeOK, SocketsOK, PeersOK, Side
<1>1. CASE PeerSends(e)
  <2>1. UNCHANGED <<got, outq, phase>> /\ sent'["client"] \in {sent["client"], sent["client"] + 1}
    BY <1>1 DEF PeerSends, TypeOK, PeersOK, Side
  <2>2. AtMost(outq["server"], sent'["client"])
    BY <1>0, <2>1, AtMostMore DEF Fresh
  <2> QED
    BY <2>1, <2>2 DEF Fresh, AtMost
<1>2. CASE PeerReceives(e) /\ e = "server"
  <2>1. /\ outq["server"] # <<>> /\ outq'["server"] = Tail(outq["server"])
        /\ UNCHANGED <<sent, phase>>
    BY <1>2 DEF PeerReceives, TypeOK, SocketsOK
  <2>2. AtMost(outq'["server"], sent["client"])
    BY <1>0, <2>1, AtMostTail DEF Fresh
  <2> QED
    BY <2>1, <2>2 DEF Fresh, AtMost
<1>3. CASE PeerReceives(e) /\ e = "client"
  BY <1>3 DEF PeerReceives, Fresh, AtMost, TypeOK, SocketsOK, PeersOK
<1>4. CASE LingerExpires(e)
  <2>1. /\ outq'["server"] \in {outq["server"], <<>>}
        /\ UNCHANGED <<sent, got, phase>>
    BY <1>4 DEF LingerExpires, peerVars, TypeOK, SocketsOK, Side
  <2>2. AtMost(outq'["server"], sent["client"])
    BY <2>1, AtMostEmpty DEF Fresh
  <2> QED
    BY <2>1, <2>2 DEF Fresh, AtMost
<1>5. CASE PeerShutsDown(e) \/ PeerLeaves(e) \/ SessionDown(e)
  BY <1>5, FreshStays DEF PeerShutsDown, PeerLeaves, SessionDown, peerVars, tcpVars
<1> QED
  BY <1>1, <1>2, <1>3, <1>4, <1>5 DEF Environment, Side

LEMMA NextFresh ==
  ASSUME OrderInv, Fresh, [Next]_vars
  PROVE  Fresh'
<1>1. TypeOK /\ Control /\ DataOf("client")
  BY DEF OrderInv, Side
<1>2. CASE Next
  BY <1>1, <1>2, HandlersFresh, CopiesFresh, EnvironmentFresh DEF Next
<1>3. CASE UNCHANGED vars
  BY <1>3, FreshStays DEF vars, peerVars, tcpVars
<1> QED
  BY <1>2, <1>3

-----------------------------------------------------------------------------
(* What each step of the relay is to the two hosts.                        *)

LEMMA InitSplice == Init => Splice!Init
BY DEF Init, Splice!Init, Splice!Side, Side

LEMMA SpliceStays ==
  ASSUME UNCHANGED <<peer, sent, got, sock, sess, garbled>>
  PROVE  UNCHANGED Splice!spliceVars
BY DEF Splice!spliceVars

LEMMA HandlersSplice ==
  ASSUME TypeOK, Control, Fresh, ClientHandler \/ ServerHandler
  PROVE  [Splice!Next]_Splice!spliceVars
<1>1. CASE ReadPreamble \/ ReadAddresses
  <2>1. /\ phase["server"] \in {"preamble", "address"}
        /\ UNCHANGED <<peer, sent, got, sock, sess>>
        /\ garbled' \in {garbled, TRUE}
    BY <1>1 DEF ReadPreamble, ReadAddresses, ReadOnce, peerVars, tcpVars, TypeOK, HandlersOK
  <2>2. got["server"] = <<>> /\ "server" \notin Hung
    BY <2>1 DEF Fresh, Control, Side, Hung
  <2>3. UNCHANGED <<PathLost, Hung>>
    BY <2>1 DEF PathLost, Hung
  <2>4. CASE garbled' = garbled
    BY <2>1, <2>4, SpliceStays
  <2>5. CASE garbled' = TRUE
    BY <2>1, <2>2, <2>3, <2>5 DEF Splice!Next, Splice!Misread, Hung, PathLost
  <2> QED
    BY <2>1, <2>4, <2>5
<1>2. CASE DialOk
  <2>1. UNCHANGED <<peer, sent, got, sess, garbled>>
    BY <1>2 DEF DialOk, peerVars
  <2>2. sock["server"] # "closed" /\ sock' = [sock EXCEPT !["server"] = "open"]
    BY <1>2 DEF DialOk, Control, Side
  <2>3. Hung' = Hung
    BY <2>2 DEF Hung, TypeOK, SocketsOK
  <2> QED
    BY <2>1, <2>3 DEF Splice!spliceVars, Hung
<1>3. CASE ~ ReadPreamble /\ ~ ReadAddresses /\ ~ DialOk
  <2>1. UNCHANGED <<peer, sent, got, sock, sess, garbled>>
    BY <1>3 DEF ClientHandler, WriteHeader, CloseStream, ServerHandler, AcceptStream,
       HeaderFails, DialFails, CancelStream, peerVars, tcpVars
  <2> QED
    BY <2>1, SpliceStays
<1> QED
  BY <1>1, <1>2, <1>3

LEMMA ClosingSplice ==
  ASSUME TypeOK, CauseInv', NEW e \in Side, CloseTcp(e),
         UNCHANGED <<peer, sent, got, sess, garbled>>
  PROVE  Splice!Next
<1>1. sock' = [sock EXCEPT ![e] = "closed"]
  BY DEF CloseTcp
<1>2. Hung' = Hung \cup {e}
  BY <1>1 DEF Hung, TypeOK, SocketsOK
<1>3. sock'[e] = "closed"
  BY <1>1 DEF TypeOK, SocketsOK
<1>4. OuterCause'
  BY <1>3 DEF CauseInv, Ends
<1>5. PathLost \/ \E f \in Side : peer[f] # "open"
  BY <1>4 DEF OuterCause, PathLost
<1>6. PathLost' = PathLost
  BY DEF PathLost
<1>7. Splice!HangUp(e)
  BY <1>2, <1>5, <1>6 DEF Splice!HangUp, Splice!Side, Side, Hung, PathLost
<1> QED
  BY <1>7 DEF Splice!Next, Splice!Side, Side

LEMMA CopiesSplice ==
  ASSUME TypeOK, CauseInv', NEW e \in Side, CopyT2Q(e) \/ CopyQ2T(e)
  PROVE  [Splice!Next]_Splice!spliceVars
<1>1. CASE TcpRead(e) \/ StreamWrite(e) \/ StreamRead(e) \/ TcpWrite(e)
  BY <1>1, SpliceStays DEF TcpRead, StreamWrite, StreamRead, TcpWrite, peerVars, tcpVars
<1>2. CASE TcpReadEnds(e) \/ StreamWriteFails(e)
  BY <1>2, ClosingSplice DEF TcpReadEnds, StreamWriteFails, EndT2Q, peerVars
<1>3. CASE StreamReadEnds(e) \/ TcpWriteFails(e)
  BY <1>3, ClosingSplice DEF StreamReadEnds, TcpWriteFails, EndQ2T, peerVars
<1> QED
  BY <1>1, <1>2, <1>3 DEF CopyT2Q, CopyQ2T

LEMMA OneFits ==
  ASSUME NEW a \in Nat, NEW b \in Nat \ {0}, NEW s \in Nat, a + b <= s
  PROVE  a + 1 <= s
OBVIOUS

(* The unit a peer receives is the one TcpSplice lets it have.             *)
LEMMA ReceivesSplice ==
  ASSUME OrderInv, Fresh, NEW e \in Side, PeerReceives(e)
  PROVE  Splice!Receive(e)
<1>1. /\ peer[e] # "gone" /\ outq[e] # <<>>
      /\ got' = [got EXCEPT ![e] = Append(@, Head(outq[e]))]
      /\ UNCHANGED <<peer, sent, sock, sess, garbled>>
  BY DEF PeerReceives
<1>2. TypeOK /\ Other(e) \in Side /\ Other(Other(e)) = e
  BY OtherSide DEF OrderInv
<1>3. outq[e] \in Seq(Nat) /\ got[e] \in Seq(Nat) /\ sent[Other(e)] \in Nat
  BY <1>2 DEF TypeOK, SocketsOK, PeersOK
<1>4. Delivered(Other(e))
  BY <1>2 DEF OrderInv, DataOf
<1>5. Head(outq[e]) \in Nat /\ Head(outq[e]) = outq[e][1] /\ Len(outq[e]) \in Nat \ {0}
  BY <1>1, <1>3, TakeHead
<1>6. /\ Head(outq[e]) \in 0 .. sent[Other(e)]
      /\ Head(outq[e]) = Len(got[e]) + 1 \/ (e = "server" /\ garbled)
  <2>1. CASE e = "client" \/ ~ garbled
    <3>1. Clean(Other(e))
      BY <2>1 DEF Clean, Other
    <3>2. /\ RunFrom(outq[e], Len(got[e]))
          /\ Len(got[e]) + Len(outq[e]) <= sent[Other(e)]
      BY <1>2, <1>4, <3>1 DEF Delivered
    <3>3. Head(outq[e]) = Len(got[e]) + 1
      BY <1>5, <3>2 DEF RunFrom
    <3>4. Len(got[e]) \in Nat
      BY <1>3
    <3>5. Len(got[e]) + 1 <= sent[Other(e)]
      <4>1. sent[Other(e)] \in Nat /\ Len(outq[e]) \in Nat \ {0}
        BY <1>3, <1>5
      <4> QED
        BY <3>2, <3>4, <4>1, OneFits
    <3> QED
      BY <1>3, <1>5, <3>3, <3>5
  <2>2. CASE e = "server" /\ garbled
    <3>1. 1 \in 1 .. Len(outq[e])
      BY <1>5
    <3>2. AtMost(outq[e], sent[Other(e)])
      BY <2>2 DEF Fresh, Other
    <3>3. outq[e][1] <= sent[Other(e)]
      BY <3>1, <3>2 DEF AtMost
    <3> QED
      BY <1>3, <1>5, <2>2, <3>3
  <2> QED
    BY <2>1, <2>2 DEF Side
<1> QED
  BY <1>1, <1>6 DEF Splice!Receive, Splice!Other, Other

LEMMA EnvironmentSplice ==
  ASSUME OrderInv, Fresh, NEW e \in Side, Environment(e)
  PROVE  [Splice!Next]_Splice!spliceVars
<1>0. TypeOK /\ e \in Splice!Side
  BY DEF OrderInv, Splice!Side, Side
<1>1. CASE PeerSends(e)
  <2>1. Splice!Write(e)
    BY <1>1 DEF PeerSends, Splice!Write
  <2> QED
    BY <1>0, <2>1 DEF Splice!Next
<1>2. CASE PeerReceives(e)
  BY <1>0, <1>2, ReceivesSplice DEF Splice!Next
<1>3. CASE PeerShutsDown(e)
  <2>1. Splice!EndSide(e)
    BY <1>3 DEF PeerShutsDown, tcpVars, Splice!EndSide
  <2> QED
    BY <1>0, <2>1 DEF Splice!Next
<1>4. CASE PeerLeaves(e)
  <2>1. Splice!EndSide(e)
    BY <1>4 DEF PeerLeaves, Splice!EndSide
  <2> QED
    BY <1>0, <2>1 DEF Splice!Next
<1>5. CASE LingerExpires(e)
  BY <1>5, SpliceStays DEF LingerExpires, peerVars
<1>6. CASE SessionDown(e)
  <2>1. /\ sess'[e] = "down"
        /\ UNCHANGED <<peer, sent, got, sock, garbled>>
    BY <1>0, <1>6 DEF SessionDown, peerVars, tcpVars, TypeOK, HandlersOK
  <2>2. Splice!LosePath
    BY <2>1 DEF Splice!LosePath
  <2> QED
    BY <2>2 DEF Splice!Next
<1> QED
  BY <1>1, <1>2, <1>3, <1>4, <1>5, <1>6 DEF Environment

LEMMA NextSplice ==
  ASSUME OrderInv, Fresh, CauseInv', [Next]_vars
  PROVE  [Splice!Next]_Splice!spliceVars
<1>1. TypeOK /\ Control
  BY DEF OrderInv
<1>2. CASE Next
  BY <1>1, <1>2, HandlersSplice, CopiesSplice, EnvironmentSplice DEF Next
<1>3. CASE UNCHANGED vars
  BY <1>3, SpliceStays DEF vars, peerVars, tcpVars
<1> QED
  BY <1>2, <1>3

(* To the application and the destination the client, the server and the   *)
(* stream between them are one TCP connection as TcpSplice describes it:   *)
(* every behaviour of the relay, for every traffic and all sizes, is one.  *)
THEOREM RelayIsOneConnection == Spec => OneConnection
<1>1. Init => Fresh /\ Splice!Init
  BY InitFresh, InitSplice
<1>2. OrderInv /\ Fresh /\ [Next]_vars => Fresh'
  BY NextFresh
<1>3. OrderInv /\ Fresh /\ CauseInv' /\ [Next]_vars => [Splice!Next]_Splice!spliceVars
  BY NextSplice
<1> QED
  BY <1>1, <1>2, <1>3, OrderInvariant, EveryEndHasACause, PTL
     DEF Spec, OneConnection, Splice!Service
=============================================================================
