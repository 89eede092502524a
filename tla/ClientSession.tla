--------------------------- MODULE ClientSession ---------------------------
(***************************************************************************)
(* How the handlers of the client's connections come by a QUIC stream.     *)
(*                                                                         *)
(* Every accepted TCP connection has its goroutine handleTCPConn, and all  *)
(* of them read and write one global, quicSession, without a lock.  The    *)
(* global is a Go interface of two words, itab (the type, nil or not) and  *)
(* data (the session), stored one after the other in an order the language *)
(* leaves open; "quicSession != nil" looks at the type word only, a method *)
(* call needs both.  What happens on the stream is Relay.                  *)
(*                                                                         *)
(* Sessions, their death and the limit on streams are quic-go's and are    *)
(* external: modelled by what it promises to the calls made here.          *)
(***************************************************************************)
EXTENDS Integers

CONSTANTS
  Conn,              \* TCP connections the client will be given
  Session,           \* QUIC sessions; as many dials as these succeed at most
  NoSession,         \* the nil session
  MultiStream,       \* ClientConfiguration.MultiStream, the -multistream flag
  ConnectionRetries, \* dials before openQuicSession gives up
  MaxStreams         \* the server's MaxIncomingStreams per session

ASSUME SessionAssumption == NoSession \notin Session
ASSUME MultiStreamAssumption == MultiStream \in BOOLEAN
ASSUME RetriesAssumption == ConnectionRetries \in Nat \ {0}
ASSUME MaxStreamsAssumption == MaxStreams \in Nat \ {0}

VARIABLES
  process, \* the client: "running", "exited", "panicked"
  itab,    \* type word of quicSession: FALSE when nil
  data,    \* data word of quicSession
  pc,      \* where the handler of a connection is
  tries,   \* failed dials of the handler's openQuicSession
  ret,     \* what that call returns
  todo,    \* words of quicSession the handler has yet to store
  on,      \* the session of the handler's stream, or of the stream it waits for
  status,  \* of a session: "unused", "live", "dead"
  used     \* streams of a session that the server has not completed

global  == <<itab, data>>
dialing == <<tries, ret, todo>>
quic    == <<status, used>>
vars    == <<process, global, pc, dialing, on, quic>>

NilSession == ~ itab \/ data = NoSession
Goto(c, l) == pc' = [pc EXCEPT ![c] = l]
Dialed(s) == status[s] # "unused"
Room(s) == used[s] < MaxStreams

-----------------------------------------------------------------------------
Init ==
  /\ process = "running"
  /\ itab = FALSE /\ data = NoSession
  /\ pc = [c \in Conn |-> "idle"]
  /\ tries = [c \in Conn |-> 0]
  /\ ret = [c \in Conn |-> NoSession]
  /\ todo = [c \in Conn |-> {}]
  /\ on = [c \in Conn |-> NoSession]
  /\ status = [s \in Session |-> "unused"]
  /\ used = [s \in Session |-> 0]

Accept(c) ==
  /\ pc[c] = "idle"
  /\ Goto(c, "check")
  /\ UNCHANGED <<process, global, dialing, on, quic>>

\* A temporary error of Accept is logged, then ends the client like any other.
AcceptError ==
  /\ process' = "exited"
  /\ UNCHANGED <<global, pc, dialing, on, quic>>

\* Mutant: the nil check of quicSession is left out.
CheckSessionNotNil(c) ==
  /\ pc[c] = "check"
  /\ Goto(c, IF MultiStream THEN "open" ELSE "dial")
  /\ UNCHANGED <<process, global, dialing, on, quic>>

CheckSession(c) ==
  /\ pc[c] = "check"
  /\ Goto(c, IF MultiStream /\ itab THEN "open" ELSE "dial")
  /\ UNCHANGED <<process, global, dialing, on, quic>>

\* A method call on a nil session; the panic takes the whole client down.
CallOnNil(c) ==
  /\ NilSession
  /\ process' = "panicked"
  /\ Goto(c, "panicked")
  /\ UNCHANGED <<global, dialing, on, quic>>

GetStream(c, s) ==
  /\ status[s] = "live" /\ Room(s)
  /\ on' = [on EXCEPT ![c] = s]
  /\ used' = [used EXCEPT ![s] = @ + 1]
  /\ Goto(c, "relay")
  /\ UNCHANGED <<process, global, dialing, status>>

\* OpenStream fails at once on a dead session and at the limit on streams.
OpenStream(c) ==
  /\ pc[c] = "open"
  /\ \/ CallOnNil(c)
     \/ ~ NilSession /\ GetStream(c, data)
     \/ /\ ~ NilSession
        /\ status[data] = "dead" \/ ~ Room(data)
        /\ Goto(c, "dial")
        /\ UNCHANGED <<process, global, dialing, on, quic>>

-----------------------------------------------------------------------------
(* openQuicSession, and the assignment of its result to quicSession.       *)

Returns(c, s) ==
  /\ ret' = [ret EXCEPT ![c] = s]
  /\ todo' = [todo EXCEPT ![c] = {"itab", "data"}]
  /\ Goto(c, "store")

DialOk(c) ==
  /\ pc[c] = "dial"
  /\ \E s \in Session : /\ ~ Dialed(s)
                        /\ status' = [status EXCEPT ![s] = "live"]
                        /\ Returns(c, s)
  /\ UNCHANGED <<process, global, tries, on, used>>

\* Mutant: one dial more than ConnectionRetries.
DialFailsOnceMore(c) ==
  /\ pc[c] = "dial"
  /\ tries' = [tries EXCEPT ![c] = @ + 1]
  /\ IF tries'[c] <= ConnectionRetries THEN UNCHANGED <<pc, ret, todo>>
                                       ELSE Returns(c, NoSession)
  /\ UNCHANGED <<process, global, on, quic>>

DialFails(c) ==
  /\ pc[c] = "dial"
  /\ tries' = [tries EXCEPT ![c] = @ + 1]
  /\ IF tries'[c] < ConnectionRetries THEN UNCHANGED <<pc, ret, todo>>
                                      ELSE Returns(c, NoSession)
  /\ UNCHANGED <<process, global, on, quic>>

\* The nil of a failed dial is stored too, before the error is looked at.
StoreWord(c) ==
  /\ pc[c] = "store"
  /\ \E w \in todo[c] :
       /\ itab' = IF w = "itab" THEN ret[c] # NoSession ELSE itab
       /\ data' = IF w = "data" THEN ret[c] ELSE data
       /\ todo' = [todo EXCEPT ![c] = @ \ {w}]
       /\ IF todo[c] # {w} THEN UNCHANGED pc
          ELSE Goto(c, IF ret[c] = NoSession THEN "closed" ELSE "sync")
  /\ UNCHANGED <<process, tries, ret, on, quic>>

-----------------------------------------------------------------------------
(* quicSession is read again: the session need not be the one just dialed. *)
(* OpenStreamSync waits where OpenStream would fail for the limit.         *)
OpenStreamSync(c) ==
  /\ pc[c] = "sync"
  /\ \/ CallOnNil(c)
     \/ ~ NilSession /\ GetStream(c, data)
     \/ /\ ~ NilSession /\ status[data] = "dead"
        /\ Goto(c, "closed")
        /\ UNCHANGED <<process, global, dialing, on, quic>>
     \/ /\ ~ NilSession /\ status[data] = "live" /\ ~ Room(data)
        /\ on' = [on EXCEPT ![c] = data]
        /\ Goto(c, "wait")
        /\ UNCHANGED <<process, global, dialing, quic>>

\* Mutant: a waiting handler is not woken by the end of its session.
WaitEndsNotOnError(c) ==
  /\ pc[c] = "wait"
  /\ GetStream(c, on[c])

WaitEnds(c) ==
  /\ pc[c] = "wait"
  /\ \/ GetStream(c, on[c])
     \/ /\ status[on[c]] = "dead"
        /\ Goto(c, "closed")
        /\ UNCHANGED <<process, global, dialing, on, quic>>

\* The stream counts until the server has ended both its directions, which
\* it never does with a stream it abandons (no header, or no connection).
RelayEnds(c) ==
  /\ pc[c] = "relay"
  /\ Goto(c, "closed")
  /\ \E back \in {0, 1} : used' = [used EXCEPT ![on[c]] = @ - back]
  /\ UNCHANGED <<process, global, dialing, on, status>>

\* Idle timeout, loss of the path, or the server closes it.  The client never
\* closes a session.
SessionDies(s) ==
  /\ status[s] = "live"
  /\ status' = [status EXCEPT ![s] = "dead"]
  /\ UNCHANGED <<process, global, pc, dialing, on, used>>

-----------------------------------------------------------------------------
\* What a handler does as soon as it is scheduled, a dial within its timeout.
Handler(c) ==
  \/ CheckSession(c) \/ OpenStream(c)
  \/ DialOk(c) \/ DialFails(c) \/ StoreWord(c)
  \/ OpenStreamSync(c) \/ WaitEnds(c)

Next ==
  /\ process = "running"
  /\ \/ AcceptError
     \/ \E c \in Conn : Accept(c) \/ Handler(c) \/ RelayEnds(c)
     \/ \E s \in Session : SessionDies(s)

Spec == Init /\ [][Next]_vars

\* No handler relays on s, so nothing but the idle timeout happens to it.
IdleTimeout(s) ==
  /\ \A c \in Conn : pc[c] = "relay" => on[c] # s
  /\ SessionDies(s)

Fairness ==
  /\ \A c \in Conn : WF_vars(process = "running" /\ Handler(c))
  /\ \A s \in Session : WF_vars(process = "running" /\ IdleTimeout(s))

FairSpec == Spec /\ Fairness

-----------------------------------------------------------------------------
Where == {"idle", "check", "open", "dial", "store", "sync", "wait", "relay",
          "closed", "panicked"}

(* Types, what each place of a handler presupposes, and that no session is *)
(* used before it has been dialed.                                         *)
TypeOK ==
  /\ process \in {"running", "exited", "panicked"}
  /\ itab \in BOOLEAN
  /\ data \in Session \cup {NoSession}
  /\ pc \in [Conn -> Where]
  /\ tries \in [Conn -> 0 .. ConnectionRetries]
  /\ ret \in [Conn -> Session \cup {NoSession}]
  /\ todo \in [Conn -> SUBSET {"itab", "data"}]
  /\ on \in [Conn -> Session \cup {NoSession}]
  /\ status \in [Session -> {"unused", "live", "dead"}]
  /\ used \in [Session -> Int]
  /\ \A c \in Conn : pc[c] \in {"wait", "relay"} => on[c] \in Session
  /\ \A c \in Conn : ret[c] # NoSession => Dialed(ret[c])
  /\ data # NoSession => Dialed(data)

(* A handler about to call a method of quicSession finds it nil only by    *)
(* another one's doing: that one is between the two stores of the global,  *)
(* or its dial has failed and it has wiped the session the others use.     *)
(* One connection at a time never brings the client down.                  *)
FailedDial(c) == tries[c] = ConnectionRetries
NilNeedsRival ==
  \A c \in Conn :
    pc[c] \in {"open", "sync", "panicked"} /\ NilSession =>
      \E d \in Conn \ {c} : todo[d] # {} \/ FailedDial(d)

(* The inductive invariant behind it: what a handler has done by the time  *)
(* it is somewhere, and that a word of the global that was stored by one   *)
(* handler can be nil again only after another one's dial has failed.      *)
Places ==
  \A c \in Conn :
    /\ pc[c] \in {"idle", "check", "open"} => tries[c] = 0
    /\ pc[c] \in {"idle", "check", "open", "dial"} => ret[c] = NoSession
    /\ pc[c] = "dial" \/ ret[c] # NoSession => tries[c] < ConnectionRetries
    /\ pc[c] = "store" => ret[c] # NoSession \/ FailedDial(c)
    /\ pc[c] = "sync" => ret[c] # NoSession
    /\ pc[c] # "store" => todo[c] = {}
    /\ pc[c] = "panicked" => process = "panicked"

HasStored(c, w) == ret[c] # NoSession /\ w \notin todo[c]
Words ==
  /\ itab => \E c \in Conn : HasStored(c, "itab")
  /\ (\E c \in Conn : HasStored(c, "itab")) /\ ~ itab => \E d \in Conn : FailedDial(d)
  /\ (\E c \in Conn : HasStored(c, "data")) /\ data = NoSession =>
       \E d \in Conn : FailedDial(d)
  /\ \A c \in Conn : pc[c] = "open" => \E d \in Conn : HasStored(d, "itab")

NilInv == TypeOK /\ Places /\ Words /\ NilNeedsRival

Relaying(s) == {c \in Conn : pc[c] = "relay" /\ on[c] = s}

(* A handler that has been given a connection gets a stream or closes the  *)
(* connection, however the dials, the sessions and the other handlers      *)
(* behave; it waits for a stream only while others relay on that session.  *)
Settles ==
  \A c \in Conn :
    pc[c] # "idle"
      ~> \/ pc[c] \in {"relay", "closed"}
         \/ process # "running"
         \/ pc[c] = "wait" /\ Relaying(on[c]) # {}

-----------------------------------------------------------------------------
(* What comments and flags say, and the code does not do.                  *)

(* client.go:105: "if we were unable to open a quic session, drop the TCP  *)
(* connection with RST" (the connection, not the client).  A panic on a    *)
(* quicSession whose words disagree, as two stores at a time leave it, has *)
(* more than one cause and is set aside here.                              *)
ConnectionDroppedOnly == process = "panicked" => (itab <=> data = NoSession)
=============================================================================
