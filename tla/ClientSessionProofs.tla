------------------------ MODULE ClientSessionProofs ------------------------
(***************************************************************************)
(* Proofs of the safety properties of ClientSession, for any number of     *)
(* connections, sessions, retries and streams.                             *)
(***************************************************************************)
EXTENDS ClientSession, TLAPS

LEMMA InitType == Init => TypeOK
<1> SUFFICES ASSUME Init PROVE TypeOK
  OBVIOUS
<1>1. 0 \in 0 .. ConnectionRetries
  BY RetriesAssumption
<1>2. tries \in [Conn -> 0 .. ConnectionRetries]
  BY <1>1 DEF Init
<1>3. used \in [Session -> Int]
  BY DEF Init
<1> QED
  BY <1>2, <1>3 DEF Init, TypeOK, Where

LEMMA HandlerType ==
  ASSUME TypeOK, Places, NEW c \in Conn, Handler(c)
  PROVE  TypeOK'
<1> USE SessionAssumption DEF TypeOK, Where, global, dialing, quic, Goto, Dialed, NilSession
<1>1. CASE CheckSession(c)
  BY <1>1 DEF CheckSession
<1>2. CASE OpenStream(c)
  BY <1>2 DEF OpenStream, CallOnNil, GetStream
<1>3. CASE DialOk(c)
  BY <1>3 DEF DialOk, Returns
<1>4. CASE DialFails(c)
  <2>1. tries[c] + 1 \in 0 .. ConnectionRetries
    BY <1>4, RetriesAssumption DEF DialFails, Places
  <2>2. tries' \in [Conn -> 0 .. ConnectionRetries]
    BY <1>4, <2>1 DEF DialFails
  <2> QED
    BY <1>4, <2>2 DEF DialFails, Returns
<1>5. CASE StoreWord(c)
  <2>1. PICK w \in todo[c] :
          /\ itab' = IF w = "itab" THEN ret[c] # NoSession ELSE itab
          /\ data' = IF w = "data" THEN ret[c] ELSE data
          /\ todo' = [todo EXCEPT ![c] = @ \ {w}]
          /\ pc' = pc \/ pc' = [pc EXCEPT ![c] = "closed"] \/ pc' = [pc EXCEPT ![c] = "sync"]
    BY <1>5 DEF StoreWord
  <2>2. itab' \in BOOLEAN
    BY <2>1
  <2>3. data' \in Session \cup {NoSession} /\ (data' # NoSession => status'[data'] # "unused")
    BY <1>5, <2>1 DEF StoreWord
  <2>4. todo' \in [Conn -> SUBSET {"itab", "data"}]
    BY <2>1
  <2>5. pc' \in [Conn -> Where] /\ \A d \in Conn : pc'[d] \in {"wait", "relay"} => pc[d] = pc'[d]
    BY <2>1
  <2> QED
    BY <1>5, <2>2, <2>3, <2>4, <2>5 DEF StoreWord
<1>6. CASE OpenStreamSync(c)
  BY <1>6 DEF OpenStreamSync, CallOnNil, GetStream
<1>7. CASE WaitEnds(c)
  BY <1>7 DEF WaitEnds, GetStream
<1> QED
  BY <1>1, <1>2, <1>3, <1>4, <1>5, <1>6, <1>7 DEF Handler

LEMMA NextType ==
  ASSUME TypeOK, Places, [Next]_vars
  PROVE  TypeOK'
<1>1. CASE AcceptError
  BY <1>1 DEF AcceptError, TypeOK, global, dialing, quic, Dialed
<1>2. ASSUME NEW c \in Conn, Accept(c) PROVE TypeOK'
  BY <1>2 DEF Accept, TypeOK, Where, global, dialing, quic, Goto, Dialed
<1>3. ASSUME NEW c \in Conn, Handler(c) PROVE TypeOK'
  BY <1>3, HandlerType
<1>4. ASSUME NEW c \in Conn, RelayEnds(c) PROVE TypeOK'
  BY <1>4 DEF RelayEnds, TypeOK, Where, global, dialing, quic, Goto, Dialed
<1>5. ASSUME NEW s \in Session, SessionDies(s) PROVE TypeOK'
  BY <1>5 DEF SessionDies, TypeOK, global, dialing, quic, Dialed
<1>6. CASE UNCHANGED vars
  BY <1>6 DEF vars, TypeOK, global, dialing, quic, Dialed
<1> QED
  BY <1>1, <1>2, <1>3, <1>4, <1>5, <1>6 DEF Next

-----------------------------------------------------------------------------
LEMMA InitPlaces == Init => Places
BY RetriesAssumption DEF Init, Places

(* A step of another handler touches nothing of what Places says of c.     *)
LEMMA NextPlaces ==
  ASSUME TypeOK, Places, [Next]_vars
  PROVE  Places'
<1> USE SessionAssumption, RetriesAssumption
    DEF TypeOK, Places, FailedDial, global, dialing, quic, Goto
<1>1. CASE process = "running" /\ AcceptError
  BY <1>1 DEF AcceptError
<1>2. ASSUME NEW c \in Conn, Accept(c) \/ RelayEnds(c) PROVE Places'
  BY <1>2 DEF Accept, RelayEnds
<1>3. ASSUME NEW c \in Conn, Handler(c) PROVE Places'
  <2>1. CASE CheckSession(c)
    BY <2>1 DEF CheckSession
  <2>2. CASE OpenStream(c)
    BY <2>2 DEF OpenStream, CallOnNil, GetStream
  <2>3. CASE DialOk(c)
    BY <2>3 DEF DialOk, Returns
  <2>4. CASE DialFails(c)
    BY <2>4 DEF DialFails, Returns
  <2>5. CASE StoreWord(c)
    BY <2>5 DEF StoreWord
  <2>6. CASE OpenStreamSync(c)
    BY <2>6 DEF OpenStreamSync, CallOnNil, GetStream
  <2>7. CASE WaitEnds(c)
    BY <2>7 DEF WaitEnds, GetStream
  <2> QED
    BY <1>3, <2>1, <2>2, <2>3, <2>4, <2>5, <2>6, <2>7 DEF Handler
<1>4. ASSUME NEW s \in Session, SessionDies(s) PROVE Places'
  BY <1>4 DEF SessionDies
<1>5. CASE UNCHANGED vars
  BY <1>5 DEF vars
<1> QED
  BY <1>1, <1>2, <1>3, <1>4, <1>5 DEF Next

(* Every variable keeps its type; no handler holds, and quicSession never  *)
(* shows, a session that was not dialed.                                   *)
THEOREM SessionTypeCorrect == Spec => []TypeOK
<1>1. Init => TypeOK /\ Places
  BY InitType, InitPlaces
<1>2. TypeOK /\ Places /\ [Next]_vars => TypeOK' /\ Places'
  BY NextType, NextPlaces
<1> QED
  BY <1>1, <1>2, PTL DEF Spec

-----------------------------------------------------------------------------
(* A failed dial and a stored word stay what they are; only StoreWord      *)
(* makes a word stored and only it changes quicSession.                    *)
LEMMA FailedStays ==
  ASSUME TypeOK, Places, [Next]_vars, NEW c \in Conn, FailedDial(c)
  PROVE  FailedDial(c)'
<1> SUFFICES tries'[c] = tries[c]
  BY DEF FailedDial
<1>1. ASSUME NEW d \in Conn, DialFails(d) PROVE tries'[c] = tries[c]
  BY <1>1, RetriesAssumption DEF DialFails, Places, FailedDial, TypeOK
<1>2. ASSUME ~ \E d \in Conn : DialFails(d) PROVE tries' = tries
  BY <1>2 DEF Next, vars, dialing, AcceptError, Accept, Handler, RelayEnds, SessionDies,
       CheckSession, OpenStream, CallOnNil, GetStream, DialOk, StoreWord, OpenStreamSync, WaitEnds
<1> QED
  BY <1>1, <1>2

LEMMA StoredStays ==
  ASSUME TypeOK, Places, [Next]_vars, NEW c \in Conn, NEW w, HasStored(c, w)
  PROVE  HasStored(c, w)'
<1> SUFFICES ret'[c] = ret[c] /\ todo'[c] \subseteq todo[c]
  BY DEF HasStored
<1>1. ASSUME NEW d \in Conn, DialOk(d) \/ DialFails(d) PROVE ret'[c] = ret[c] /\ todo'[c] = todo[c]
  BY <1>1 DEF DialOk, DialFails, Returns, Places, HasStored, TypeOK
<1>2. ASSUME NEW d \in Conn, StoreWord(d) PROVE ret'[c] = ret[c] /\ todo'[c] \subseteq todo[c]
  BY <1>2 DEF StoreWord, TypeOK
<1>3. ASSUME ~ \E d \in Conn : DialOk(d) \/ DialFails(d) \/ StoreWord(d)
      PROVE  ret' = ret /\ todo' = todo
  BY <1>3 DEF Next, vars, dialing, AcceptError, Accept, Handler, RelayEnds, SessionDies,
       CheckSession, OpenStream, CallOnNil, GetStream, OpenStreamSync, WaitEnds
<1> QED
  BY <1>1, <1>2, <1>3

LEMMA OnlyStoreWordStores ==
  ASSUME TypeOK, Places, [Next]_vars, ~ \E d \in Conn : StoreWord(d)
  PROVE  /\ itab' = itab /\ data' = data
         /\ \A c \in Conn, w \in {"itab", "data"} : HasStored(c, w)' => HasStored(c, w)
<1>1. ASSUME NEW d \in Conn, DialOk(d) \/ DialFails(d)
      PROVE  /\ itab' = itab /\ data' = data
             /\ \A c \in Conn, w \in {"itab", "data"} : HasStored(c, w)' => HasStored(c, w)
  BY <1>1 DEF DialOk, DialFails, Returns, HasStored, TypeOK, global
<1>2. ASSUME ~ \E d \in Conn : DialOk(d) \/ DialFails(d)
      PROVE  ret' = ret /\ todo' = todo /\ itab' = itab /\ data' = data
  BY <1>2 DEF Next, vars, dialing, global, AcceptError, Accept, Handler, RelayEnds, SessionDies,
       CheckSession, OpenStream, CallOnNil, GetStream, OpenStreamSync, WaitEnds
<1> QED
  BY <1>1, <1>2 DEF HasStored

LEMMA NextWords ==
  ASSUME TypeOK, Places, Words, [Next]_vars
  PROVE  Words'
<1> DEFINE Failed == \E d \in Conn : FailedDial(d)
           Stored(w) == \E c \in Conn : HasStored(c, w)
<1>1. Failed => Failed'
  BY FailedStays
<1>2. \A w \in {"itab", "data"} : Stored(w) => Stored(w)'
  BY StoredStays
<1>3. /\ itab => Stored("itab")
      /\ Stored("itab") /\ ~ itab => Failed
      /\ Stored("data") /\ data = NoSession => Failed
      /\ \A c \in Conn : pc[c] = "open" => Stored("itab")
  BY DEF Words
<1>4. \A c \in Conn : pc'[c] = "open" => pc[c] = "open" \/ itab
  BY DEF Next, vars, dialing, Goto, AcceptError, Accept, Handler, RelayEnds, SessionDies,
       CheckSession, OpenStream, CallOnNil, GetStream, DialOk, DialFails, Returns, StoreWord,
       OpenStreamSync, WaitEnds, TypeOK
<1>5. \A c \in Conn : pc'[c] = "open" => Stored("itab")'
  BY <1>2, <1>3, <1>4
<1>6. CASE ~ \E d \in Conn : StoreWord(d)
  <2>1. /\ itab' = itab /\ data' = data
        /\ \A w \in {"itab", "data"} : Stored(w)' => Stored(w)
    BY <1>6, OnlyStoreWordStores
  <2> QED
    BY <1>1, <1>2, <1>3, <1>5, <2>1 DEF Words
<1>7. ASSUME NEW e \in Conn, StoreWord(e)
      PROVE  Words'
  <2>1. PICK w \in todo[e] :
          /\ itab' = IF w = "itab" THEN ret[e] # NoSession ELSE itab
          /\ data' = IF w = "data" THEN ret[e] ELSE data
          /\ todo' = [todo EXCEPT ![e] = @ \ {w}]
    BY <1>7 DEF StoreWord
  <2>2. ret' = ret /\ w \in {"itab", "data"}
    BY <1>7 DEF StoreWord, TypeOK
  <2>3. ret[e] = NoSession => Failed
    BY <1>7 DEF StoreWord, Places
  <2>4. \A v \in {"itab", "data"} : v # w => (Stored(v)' => Stored(v))
    BY <2>1, <2>2 DEF HasStored, TypeOK
  <2>5. itab' => Stored("itab")'
    <3>1. CASE w = "itab"
      BY <2>1, <2>2, <3>1 DEF HasStored, TypeOK
    <3>2. CASE w # "itab"
      BY <1>2, <1>3, <2>1, <3>2
    <3> QED
      BY <3>1, <3>2
  <2>6. Stored("itab")' /\ ~ itab' => Failed
    BY <1>3, <2>1, <2>3, <2>4
  <2>7. Stored("data")' /\ data' = NoSession => Failed
    BY <1>3, <2>1, <2>3, <2>4
  <2> QED
    BY <1>1, <1>5, <2>5, <2>6, <2>7 DEF Words
<1> QED
  BY <1>6, <1>7

\* NilNeedsRival, of the handlers that are about to call a method.
CallersHaveRival ==
  \A c \in Conn :
    pc[c] \in {"open", "sync"} /\ NilSession =>
      \E d \in Conn \ {c} : todo[d] # {} \/ FailedDial(d)

LEMMA NilHasRival == TypeOK /\ Places /\ Words => CallersHaveRival
<1> SUFFICES ASSUME TypeOK, Places, Words, NEW c \in Conn,
                    pc[c] \in {"open", "sync"}, NilSession
             PROVE  \E d \in Conn \ {c} : todo[d] # {} \/ FailedDial(d)
  BY DEF CallersHaveRival
<1>1. tries[c] < ConnectionRetries /\ tries[c] \in Nat /\ todo[c] = {}
  BY RetriesAssumption DEF Places, TypeOK
<1>2. ~ FailedDial(c)
  BY <1>1, RetriesAssumption DEF FailedDial
<1>3. \E d \in Conn : HasStored(d, "itab")
  BY DEF Places, Words, HasStored
<1>4. \E d \in Conn : todo[d] # {} \/ FailedDial(d)
  <2>1. CASE ~ itab
    BY <1>3, <2>1 DEF Words
  <2>2. CASE data = NoSession
    BY <1>3, <2>2 DEF Words, HasStored
  <2> QED
    BY <2>1, <2>2 DEF NilSession
<1> QED
  BY <1>1, <1>2, <1>4

LEMMA NextNil ==
  ASSUME NilInv, [Next]_vars
  PROVE  NilInv'
<1>1. TypeOK' /\ Places' /\ Words'
  BY NextType, NextPlaces, NextWords DEF NilInv
<1>2. TypeOK' /\ Places' /\ Words' => CallersHaveRival'
  BY NilHasRival, PTL
<1>3. ASSUME NEW c \in Conn, pc'[c] = "panicked", NilSession'
      PROVE  \E d \in Conn \ {c} : todo'[d] # {} \/ FailedDial(d)'
  <2>1. CASE UNCHANGED vars
    BY <1>3, <2>1 DEF vars, global, dialing, NilInv, NilNeedsRival, NilSession, FailedDial
  <2>2. CASE Next
    <3>1. pc[c] # "panicked"
      BY <2>2 DEF Next, NilInv, Places
    <3>2. CallOnNil(c) /\ pc[c] \in {"open", "sync"}
      BY <1>3, <2>2, <3>1
         DEF Next, NilInv, TypeOK, Goto, vars, AcceptError, Accept, Handler, RelayEnds,
             SessionDies, CheckSession, OpenStream, GetStream, DialOk, DialFails, Returns,
             StoreWord, OpenStreamSync, WaitEnds, CallOnNil
    <3> QED
      BY <3>2 DEF CallOnNil, NilInv, NilNeedsRival, dialing, FailedDial
  <2> QED
    BY <2>1, <2>2
<1> QED
  BY <1>1, <1>2, <1>3 DEF NilInv, NilNeedsRival, CallersHaveRival

(* Each word of quicSession is as some handler has stored it, and holds    *)
(* nothing only before the first store or after a dial that has failed.    *)
THEOREM NilInvariant == Spec => []NilInv
<1>1. Init => NilInv
  BY InitType, InitPlaces DEF Init, NilInv, Words, HasStored, NilNeedsRival
<1>2. NilInv /\ [Next]_vars => NilInv'
  BY NextNil
<1> QED
  BY <1>1, <1>2, PTL DEF Spec

(* However many handlers race for quicSession, none that is about to use   *)
(* it finds it nil unless another one is storing it or has failed to dial. *)
THEOREM NilOnlyByARival == Spec => []NilNeedsRival
<1>1. NilInv => NilNeedsRival
  BY DEF NilInv
<1> QED
  BY <1>1, NilInvariant, PTL
=============================================================================
