--------------------------- MODULE SpeedtestProofs --------------------------
(***************************************************************************)
(* Proofs about the Speedtest object under its two callers: the server it  *)
(* reports comes from a whole round, a run of shell() measures only        *)
(* servers that were asked for, and a success means that everything was    *)
(* measured.                                                               *)
(***************************************************************************)
EXTENDS SpeedtestCallers, FiniteSetTheorems, SequenceTheorems, TLAPS

USE ClientAssumption, ShellAssumption, CallersAssumption

-----------------------------------------------------------------------------
(* Steps wait under the step of the call they come from.                   *)

Steps == {"config", "servers", "badid", "fetch", "mini", "closest", "limit", "best",
          "choose", "ping", "download", "downloading", "upload", "uploading", "hang", "share"}

\* Step s may wait directly under step t.
Under(s, t) ==
  \/ s = "limit" /\ t \in {"servers", "fetch"}
  \/ s = "choose" /\ t \in {"closest", "limit"}
  \/ s \in {"downloading", "uploading"} /\ t \in {"best", "choose", "ping"}

Nested(t) == \A i \in 1 .. Len(t) - 1 : Under(t[i + 1], t[i])

Stacks == {t \in Seq(Steps) : Nested(t)}

Top(S) == todo # <<>> /\ Head(todo) \in S

LEMMA EmptyStack == <<>> \in Stacks
BY DEF Stacks, Nested

\* A method that returns leaves the stack of its callers.
LEMMA Popped ==
  ASSUME NEW t \in Stacks, t # <<>>
  PROVE  /\ Tail(t) \in Stacks /\ <<>> \o Tail(t) = Tail(t)
         /\ Tail(t) # <<>> => Under(Head(Tail(t)), Head(t))
<1>1. t \in Seq(Steps) /\ Nested(t)
  BY DEF Stacks
<1>2. /\ Tail(t) \in Seq(Steps) /\ Len(Tail(t)) = Len(t) - 1
      /\ \A i \in 1 .. Len(t) - 1 : Tail(t)[i] = t[i + 1]
      /\ Len(t) \in Nat \ {0} /\ Head(t) = t[1]
  BY <1>1
<1>3. Nested(Tail(t))
  <2> SUFFICES ASSUME NEW i \in 1 .. Len(Tail(t)) - 1
               PROVE  Under(Tail(t)[i + 1], Tail(t)[i])
    BY DEF Nested
  <2> QED
    BY <1>1, <1>2 DEF Nested
<1>4. Tail(t) # <<>> => Under(Head(Tail(t)), Head(t))
  <2> SUFFICES ASSUME Tail(t) # <<>>
               PROVE  Under(Head(Tail(t)), Head(t))
    OBVIOUS
  <2>1. Head(Tail(t)) = t[2] /\ 1 \in 1 .. Len(t) - 1
    BY <1>2
  <2> QED
    BY <1>1, <1>2, <2>1 DEF Nested
<1> QED
  BY <1>2, <1>3, <1>4 DEF Stacks

\* A method calls another one it may call.
LEMMA Pushed ==
  ASSUME NEW t \in Stacks, NEW a \in Steps,
         t # <<>> => Under(Head(t), a)
  PROVE  /\ <<a>> \o t \in Stacks /\ <<a>> \o t # <<>> /\ Head(<<a>> \o t) = a
<1>1. t \in Seq(Steps) /\ Nested(t) /\ Len(t) \in Nat
  BY DEF Stacks
<1> DEFINE u == <<a>> \o t
<1>2. /\ u \in Seq(Steps) /\ Len(u) = Len(t) + 1 /\ u[1] = a
      /\ \A i \in 2 .. Len(t) + 1 : u[i] = t[i - 1]
      /\ u # <<>> /\ Head(u) = a
  BY <1>1
<1> HIDE DEF u
<1>3. Nested(u)
  <2> SUFFICES ASSUME NEW i \in 1 .. Len(u) - 1
               PROVE  Under(u[i + 1], u[i])
    BY DEF Nested
  <2>1. CASE i = 1
    <3>1. u[2] = t[1] /\ t # <<>> /\ t[1] = Head(t)
      BY <1>1, <1>2, <2>1
    <3> QED
      BY <1>2, <2>1, <3>1
  <2>2. CASE i # 1
    <3>1. i - 1 \in 1 .. Len(t) - 1 /\ u[i] = t[i - 1] /\ u[i + 1] = t[i]
      BY <1>1, <1>2, <2>2
    <3> QED
      BY <1>1, <3>1 DEF Nested
  <2> QED
    BY <2>1, <2>2
<1> QED
  BY <1>2, <1>3 DEF Stacks, u

LEMMA TwoSteps ==
  ASSUME NEW a \in Steps, NEW b \in Steps
  PROVE  <<a, b>> = <<a>> \o <<b>>
<1>1. <<a, b>> \in Seq(Steps) /\ Len(<<a, b>>) = 2
  OBVIOUS
<1>2. /\ <<a>> \o <<b>> \in Seq(Steps) /\ Len(<<a>> \o <<b>>) = 2
      /\ (<<a>> \o <<b>>)[1] = a /\ (<<a>> \o <<b>>)[2] = b
  OBVIOUS
<1>3. \A i \in 1 .. 2 : <<a, b>>[i] = (<<a>> \o <<b>>)[i]
  BY <1>2
<1> QED
  BY <1>1, <1>2, <1>3, SeqEqual

(* A step that makes way for one, or for two, under which may wait what    *)
(* waited under it.                                                        *)
LEMMA PushedOne ==
  ASSUME NEW t \in Stacks, t # <<>>, NEW a \in Steps,
         \A s \in Steps : Under(s, Head(t)) => Under(s, a)
  PROVE  /\ <<a>> \o Tail(t) \in Stacks /\ <<a>> \o Tail(t) # <<>>
         /\ Head(<<a>> \o Tail(t)) = a
<1>1. Tail(t) # <<>> => Head(Tail(t)) \in Steps
  BY Popped DEF Stacks
<1> QED
  BY <1>1, Popped, Pushed

\* A method calls another one and goes on after it.
LEMMA PushedTwo ==
  ASSUME NEW t \in Stacks, t # <<>>, NEW a \in Steps, NEW b \in Steps, Under(b, a),
         \A s \in Steps : Under(s, Head(t)) => Under(s, b)
  PROVE  /\ <<a, b>> \o Tail(t) \in Stacks /\ <<a, b>> \o Tail(t) # <<>>
         /\ Head(<<a, b>> \o Tail(t)) = a
<1> DEFINE u == <<b>> \o Tail(t)
<1>1. u \in Stacks /\ u # <<>> /\ Head(u) = b
  BY PushedOne
<1>2. <<a, b>> \o Tail(t) = <<a>> \o u
  <2>1. Tail(t) \in Seq(Steps) /\ <<a>> \in Seq(Steps) /\ <<b>> \in Seq(Steps)
    BY Popped DEF Stacks
  <2>2. <<a, b>> = <<a>> \o <<b>>
    BY TwoSteps
  <2>3. (<<a>> \o <<b>>) \o Tail(t) = <<a>> \o (<<b>> \o Tail(t))
    BY <2>1, ConcatAssociative
  <2> QED
    BY <2>2, <2>3
<1> HIDE DEF u
<1> QED
  BY <1>1, <1>2, Pushed

-----------------------------------------------------------------------------
(* The invariant of the object, whoever calls it.                          *)

Try == [server : AnyServer, sum : Nat]

Reported(share) ==
  [server : AnyServer \cup {None}, ping : Nat, download : Nat, upload : Nat, share : share]

Types ==
  /\ todo \in Stacks /\ (raised # None => todo = <<>>)
  /\ config \in BOOLEAN /\ upThreads \in {Threads, FastThreads}
  /\ servers \in [mini : BOOLEAN, ids : SUBSET AnyServer]
  /\ servers.ids \subseteq IF servers.mini THEN {Mini} ELSE Server \ Ignored
  /\ closest \in Seq(Server \ Ignored)
  /\ best \in AnyServer \cup {None}
  /\ results \in Reported({None} \cup Reported({None}))
  /\ url \in Urls
  /\ filter \in [servers : SUBSET Server, exclude : SUBSET Server]
  /\ left \in Seq(AnyServer) /\ tried \in Seq(Try)
  /\ tested \in [download : AnyServer \cup {None}, upload : AnyServer \cup {None}]

\* Entry i of tried is the one that get_best_server would take.
IsFastest(i) ==
  \A j \in DOMAIN tried : \/ tried[i].sum < tried[j].sum
                          \/ tried[i].sum = tried[j].sum /\ j <= i

Tried == tried # <<>> => \E i \in DOMAIN tried : IsFastest(i)

\* Servers that are chosen, or may be, have got into the lists first.
Known(s) == (s = Mini => servers.mini) /\ (s \in Server => closest # <<>>)

Choice ==
  /\ results.server = best
  /\ Known(best)
  /\ \A i \in DOMAIN left : Known(left[i])
  /\ \A i \in DOMAIN tried : Known(tried[i].server)
  /\ Top({"choose"}) => closest # <<>> \/ ~servers.mini
  /\ Top({"downloading", "uploading"}) => best # None

ClientInv == Types /\ Tried /\ Choice

\* The servers tried and those left are the list that get_best_server was given.
Round ==
  Top({"ping"}) =>
    \E list \in {closest, <<Mini>>} :
      /\ Len(tried) + Len(left) = Len(list)
      /\ \A i \in DOMAIN tried : tried[i].server = list[i]
      /\ \A i \in DOMAIN left : left[i] = list[Len(tried) + i]

(* An exception leaves the object as it is.                                *)
LEMMA Raises ==
  ASSUME ClientInv, todo' = <<>>,
         UNCHANGED objectVars, UNCHANGED localVars, UNCHANGED historyVars
  PROVE  ClientInv'
<1> USE DEF ClientInv, objectVars, localVars, historyVars
<1>1. <<>> \in Stacks
  BY EmptyStack
<1>2. Types'
  BY <1>1 DEF Types, Urls
<1>3. Tried'
  BY DEF Tried, IsFastest
<1>4. Choice'
  BY DEF Choice, Known, Top
<1> QED
  BY <1>2, <1>3, <1>4

(* A step that only calls others, or leaves, with nothing chosen.          *)
LEMMA Turns ==
  ASSUME ClientInv, todo' \in Stacks, raised' = None,
         Top({"choose"})' => closest # <<>> \/ ~servers.mini,
         Top({"downloading", "uploading"})' => best # None,
         UNCHANGED objectVars, UNCHANGED localVars, UNCHANGED historyVars
  PROVE  ClientInv'
<1> USE DEF ClientInv, objectVars, localVars, historyVars
<1>1. Types'
  BY DEF Types, Urls
<1>2. Tried'
  BY DEF Tried, IsFastest
<1>3. Choice'
  BY DEF Choice, Known, Top
<1> QED
  BY <1>1, <1>2, <1>3

\* get_config keeps the invariant.
LEMMA ConfigStep ==
  ASSUME ClientInv, GetConfig
  PROVE  ClientInv'
<1> USE DEF GetConfig, Doing, Raise, Then
<1>1. CASE ConfigFails \/ ConfigIsNone
  <2>1. todo' = <<>>
    BY <1>1 DEF ConfigFails, ConfigIsNone
  <2> QED
    BY <1>1, <2>1, Raises DEF ConfigFails, ConfigIsNone
<1>2. CASE ConfigArrives
  <2>1. todo \in Stacks /\ todo # <<>> /\ Head(todo) = "config" /\ todo' = Tail(todo)
    BY <1>2, Popped DEF ConfigArrives, ClientInv, Types
  <2>2. todo' \in Stacks /\ todo' = <<>>
    BY <2>1, Popped DEF Under
  <2>3. Types'
    BY <1>2, <2>2 DEF ConfigArrives, ClientInv, Types, localVars, historyVars, Urls
  <2>4. Tried' /\ Choice'
    BY <1>2, <2>1, <2>2
    DEF ConfigArrives, ClientInv, Tried, IsFastest, Choice, Known, Top, localVars, historyVars
  <2> QED
    BY <2>3, <2>4 DEF ClientInv
<1> QED
  BY <1>1, <1>2

\* get_servers: no ignored server is kept.
LEMMA ServersStep ==
  ASSUME ClientInv, GetServers
  PROVE  ClientInv'
<1> USE DEF GetServers, Doing, Raise, Then
<1>1. CASE StartServers
  <2>1. /\ todo \in Stacks /\ todo # <<>> /\ Head(todo) = "servers"
        /\ todo' = <<"fetch">> \o Tail(todo)
    BY <1>1 DEF StartServers, ClientInv, Types
  <2>2. todo' \in Stacks /\ todo' # <<>> /\ Head(todo') = "fetch"
    BY <2>1, PushedOne DEF Under, Steps
  <2>3. Types'
    <3>1. /\ servers' \in [mini : BOOLEAN, ids : SUBSET AnyServer]
          /\ servers'.ids = {}
      BY <1>1 DEF StartServers, ClientInv, Types
    <3> QED
      BY <1>1, <2>1, <2>2, <3>1 DEF StartServers, ClientInv, Types, Urls
  <2>4. Tried' /\ Choice'
    BY <1>1, <2>1, <2>2
    DEF StartServers, ClientInv, Types, Tried, IsFastest, Choice, Known, Top
  <2> QED
    BY <2>3, <2>4 DEF ClientInv
<1>2. CASE ListArrives
  <2> PICK list \in Lists :
       IF servers.mini /\ Kept(list) # {}
         THEN Raise("TypeError") /\ UNCHANGED servers
         ELSE /\ servers' = [servers EXCEPT !.ids = Kept(list)]
              /\ EndServers(Kept(list))
    BY <1>2 DEF ListArrives
  <2>1. todo \in Stacks /\ todo # <<>> /\ Head(todo) = "fetch"
    BY <1>2 DEF ListArrives, ClientInv, Types
  <2>2. todo' = <<>> \/ (todo' = Tail(todo) /\ raised' = raised)
    BY <2>1, Popped DEF EndServers
  <2>3. todo' \in Stacks /\ ~ Top({"choose", "downloading", "uploading", "ping"})'
    BY <2>1, <2>2, Popped, EmptyStack DEF Under, Top
  <2>4. servers'.mini = servers.mini /\ servers' \in [mini : BOOLEAN, ids : SUBSET AnyServer]
    <3>1. Kept(list) \subseteq AnyServer
      BY DEF Kept, AnyServer
    <3>2. servers \in [mini : BOOLEAN, ids : SUBSET AnyServer]
      BY DEF ClientInv, Types
    <3> QED
      BY <3>1, <3>2
  <2>5. servers'.ids \subseteq IF servers'.mini THEN {Mini} ELSE Server \ Ignored
    <3>1. servers'.ids = servers.ids \/ (servers'.ids = Kept(list) /\ ~ (servers.mini /\ Kept(list) # {}))
      BY DEF ClientInv, Types
    <3>2. Kept(list) \subseteq Server \ Ignored
      BY DEF Kept
    <3> QED
      BY <2>4, <3>1, <3>2 DEF ClientInv, Types
  <2>6. raised' # None => todo' = <<>>
    BY <2>1, <2>2 DEF ClientInv, Types
  <2>7. Types'
    BY <1>2, <2>3, <2>4, <2>5, <2>6 DEF ListArrives, ClientInv, Types, localVars, Urls
  <2>8. Tried' /\ Choice'
    BY <1>2, <2>1, <2>3, <2>4
    DEF ListArrives, ClientInv, Tried, IsFastest, Choice, Known, Top, localVars
  <2> QED
    BY <2>7, <2>8 DEF ClientInv
<1>3. CASE ListFails
  <2>1. todo \in Stacks /\ todo # <<>> /\ Head(todo) = "fetch"
    BY <1>3 DEF ListFails, ClientInv, Types
  <2>2. \/ todo' = <<>>
        \/ todo' = Tail(todo) /\ raised' = raised
        \/ todo' = todo /\ raised' = raised
    BY <1>3, <2>1, Popped DEF ListFails, EndServers
  <2>3. todo' \in Stacks /\ ~ Top({"choose", "downloading", "uploading", "ping"})'
    BY <2>1, <2>2, Popped, EmptyStack DEF Under, Top
  <2>4. (raised' # None => todo' = <<>>) /\ url' \in Urls
    BY <1>3, <2>1, <2>2 DEF ListFails, ClientInv, Types, Urls
  <2>5. Types'
    BY <1>3, <2>3, <2>4 DEF ListFails, ClientInv, Types, objectVars, historyVars
  <2>6. Tried' /\ Choice'
    BY <1>3, <2>1, <2>3
    DEF ListFails, ClientInv, Tried, IsFastest, Choice, Known, Top, objectVars
  <2> QED
    BY <2>5, <2>6 DEF ClientInv
<1>4. CASE ListBreaks
  <2>1. todo' = <<>>
    BY <1>4 DEF ListBreaks
  <2> QED
    BY <1>4, <2>1, Raises DEF ListBreaks
<1>5. CASE BadServerID
  <2>1. todo' = <<>> /\ todo' \in Stacks
    BY <1>5, EmptyStack DEF BadServerID
  <2>2. /\ servers' \in [mini : BOOLEAN, ids : SUBSET AnyServer]
        /\ servers'.ids = {} /\ servers'.mini = servers.mini
    BY <1>5 DEF BadServerID, ClientInv, Types
  <2>3. Types'
    BY <1>5, <2>1, <2>2 DEF BadServerID, ClientInv, Types, localVars, Urls
  <2>4. Tried' /\ Choice'
    BY <1>5, <2>1, <2>2
    DEF BadServerID, ClientInv, Tried, IsFastest, Choice, Known, Top, localVars
  <2> QED
    BY <2>3, <2>4 DEF ClientInv
<1> QED
  BY <1>1, <1>2, <1>3, <1>4, <1>5

\* set_mini_server: the only server is the mini one.
LEMMA MiniStep ==
  ASSUME ClientInv, SetMiniServer
  PROVE  ClientInv'
<1> USE DEF SetMiniServer, Doing, Raise, Then
<1>1. CASE MiniFails
  <2>1. todo' = <<>>
    BY <1>1 DEF MiniFails
  <2> QED
    BY <1>1, <2>1, Raises DEF MiniFails
<1>2. CASE MiniFound
  <2>1. /\ todo \in Stacks /\ todo # <<>> /\ Head(todo) = "mini"
        /\ todo' = <<"ping">> \o Tail(todo)
    BY <1>2 DEF MiniFound, ClientInv, Types
  <2>2. todo' \in Stacks /\ todo' # <<>> /\ Head(todo') = "ping"
    BY <2>1, PushedOne DEF Under, Steps
  <2>3. /\ left' \in Seq(AnyServer) /\ left' # <<>> /\ DOMAIN left' = {1} /\ left'[1] = Mini
        /\ tried' \in Seq(Try) /\ DOMAIN tried' = {} /\ tried' = <<>>
    BY <1>2 DEF MiniFound, AnyServer
  <2>4. /\ servers' \in [mini : BOOLEAN, ids : SUBSET AnyServer]
        /\ servers'.mini /\ servers'.ids = {Mini}
    BY <1>2 DEF MiniFound, AnyServer
  <2>5. Types'
    BY <1>2, <2>1, <2>2, <2>3, <2>4 DEF MiniFound, ClientInv, Types, historyVars, Urls
  <2>6. Tried'
    BY <2>3 DEF Tried
  <2>7. Choice'
    BY <1>2, <2>2, <2>3, <2>4 DEF MiniFound, ClientInv, Choice, Known, Top
  <2> QED
    BY <2>5, <2>6, <2>7 DEF ClientInv
<1> QED
  BY <1>1, <1>2

(* As many servers as there is room for are some of the list.              *)
LEMMA NearestAreListed ==
  ASSUME ClientInv, ~ servers.mini, NEW q \in Nearest(servers.ids, Room)
  PROVE  q \in Seq(Server \ Ignored)
<1>1. servers.ids \subseteq Server \ Ignored /\ IsFiniteSet(servers.ids)
  BY FS_Subset DEF ClientInv, Types
<1>2. Cardinality(servers.ids) \in Nat
  BY <1>1, FS_CardinalityType
<1>3. Room \in Nat
  BY <1>2 DEF Room, ClientInv, Types
<1>4. Least(Room, Cardinality(servers.ids)) \in Nat
  BY <1>2, <1>3 DEF Least
<1> DEFINE k == Least(Room, Cardinality(servers.ids))
<1>5. q \in [1 .. k -> servers.ids]
  BY DEF Nearest
<1> HIDE DEF k
<1>6. k \in Nat
  BY <1>4 DEF k
<1> QED
  BY <1>1, <1>5, <1>6

\* get_closest_servers ranks servers that are kept.
LEMMA ClosestStep ==
  ASSUME ClientInv, GetClosestServers
  PROVE  ClientInv'
<1> USE DEF GetClosestServers, Doing, Raise, Then
<1>1. CASE StartClosest
  <2>1. /\ todo \in Stacks /\ todo # <<>> /\ Head(todo) = "closest"
        /\ \/ todo' = <<"servers", "limit">> \o Tail(todo)
           \/ todo' = <<"limit">> \o Tail(todo)
    BY <1>1 DEF StartClosest, ClientInv, Types
  <2>2. todo' \in Stacks /\ todo' # <<>> /\ Head(todo') \in {"servers", "limit"}
    <3>1. CASE todo' = <<"servers", "limit">> \o Tail(todo)
      <4>1. /\ "servers" \in Steps /\ "limit" \in Steps /\ Under("limit", "servers")
            /\ \A s \in Steps : Under(s, Head(todo)) => Under(s, "limit")
        BY <2>1 DEF Under, Steps
      <4> QED
        BY <2>1, <3>1, <4>1, PushedTwo
    <3>2. CASE todo' = <<"limit">> \o Tail(todo)
      BY <2>1, <3>2, PushedOne DEF Under, Steps
    <3> QED
      BY <2>1, <3>1, <3>2
  <2>3. filter' \in [servers : SUBSET Server, exclude : SUBSET Server]
    BY <1>1 DEF StartClosest, NoFilter
  <2>4. Types'
    BY <1>1, <2>1, <2>2, <2>3 DEF StartClosest, ClientInv, Types, objectVars, historyVars, Urls
  <2>5. Tried' /\ Choice'
    BY <1>1, <2>1, <2>2
    DEF StartClosest, ClientInv, Tried, IsFastest, Choice, Known, Top, objectVars
  <2> QED
    BY <2>4, <2>5 DEF ClientInv
<1>2. CASE LimitServers /\ servers.mini
  <2>1. todo' = <<>>
    BY <1>2 DEF LimitServers
  <2> QED
    BY <1>2, <2>1, Raises DEF LimitServers, objectVars
<1>3. CASE LimitServers /\ ~ servers.mini
  <2>1. /\ todo \in Stacks /\ todo # <<>> /\ Head(todo) = "limit"
        /\ todo' = Tail(todo) /\ raised' = raised
    BY <1>3, Popped DEF LimitServers, ClientInv, Types
  <2>2. todo' \in Stacks /\ ~ Top({"downloading", "uploading", "ping"})'
    BY <2>1, Popped DEF Under, Top
  <2>3. PICK q \in Nearest(servers.ids, Room) : closest' = closest \o q
    BY <1>3 DEF LimitServers
  <2>4. /\ closest' \in Seq(Server \ Ignored)
        /\ closest # <<>> => closest' # <<>>
    BY <1>3, <2>3, NearestAreListed, ConcatProperties, ConcatSimplifications
    DEF ClientInv, Types
  <2>5. Types'
    BY <1>3, <2>1, <2>2, <2>4
    DEF LimitServers, ClientInv, Types, localVars, historyVars, Urls
  <2>6. Tried' /\ Choice'
    BY <1>3, <2>1, <2>2, <2>4
    DEF LimitServers, ClientInv, Tried, IsFastest, Choice, Known, Top, localVars
  <2> QED
    BY <2>5, <2>6 DEF ClientInv
<1> QED
  BY <1>1, <1>2, <1>3

\* get_best_server: the fastest server is chosen and reported.
LEMMA BestStep ==
  ASSUME ClientInv, GetBestServer
  PROVE  ClientInv'
<1> USE DEF GetBestServer, Doing, Raise, Then
<1>1. CASE StartBest
  <2>1. /\ todo \in Stacks /\ todo # <<>> /\ Head(todo) = "best" /\ raised' = raised
        /\ \/ todo' = <<"closest", "choose">> \o Tail(todo)
           \/ closest # <<>> /\ todo' = <<"choose">> \o Tail(todo)
    BY <1>1 DEF StartBest, ClientInv, Types
  <2>2. /\ todo' \in Stacks /\ todo' # <<>>
        /\ Head(todo') = "closest" \/ (closest # <<>> /\ Head(todo') = "choose")
    <3>1. CASE todo' = <<"closest", "choose">> \o Tail(todo)
      <4>1. /\ "closest" \in Steps /\ "choose" \in Steps /\ Under("choose", "closest")
            /\ \A s \in Steps : Under(s, Head(todo)) => Under(s, "choose")
        BY <2>1 DEF Under, Steps
      <4> QED
        BY <2>1, <3>1, <4>1, PushedTwo
    <3>2. CASE closest # <<>> /\ todo' = <<"choose">> \o Tail(todo)
      BY <2>1, <3>2, PushedOne DEF Under, Steps
    <3> QED
      BY <2>1, <3>1, <3>2
  <2> QED
    BY <1>1, <2>1, <2>2, Turns DEF StartBest, ClientInv, Types, Top
<1>2. CASE ChooseAmong
  <2>1. /\ todo \in Stacks /\ todo # <<>> /\ Head(todo) = "choose"
        /\ todo' = <<"ping">> \o Tail(todo)
    BY <1>2 DEF ChooseAmong, ClientInv, Types
  <2>2. todo' \in Stacks /\ todo' # <<>> /\ Head(todo') = "ping"
    BY <2>1, PushedOne DEF Under, Steps
  <2>3. /\ left' \in Seq(AnyServer) /\ left' = closest
        /\ \A i \in DOMAIN left' : left'[i] \in Server
        /\ tried' \in Seq(Try) /\ DOMAIN tried' = {} /\ tried' = <<>>
    BY <1>2 DEF ChooseAmong, AnyServer, ClientInv, Types
  <2>4. Types'
    BY <1>2, <2>1, <2>2, <2>3 DEF ChooseAmong, ClientInv, Types, objectVars, historyVars, Urls
  <2>5. Tried'
    BY <2>3 DEF Tried
  <2>6. closest = <<>> => best = None
    BY <1>2, <2>1 DEF ClientInv, Types, AnyServer, Choice, Known, Top
  <2>7. (\A i \in DOMAIN left : Known(left[i]))'
    <3> SUFFICES ASSUME NEW i \in DOMAIN left'
                 PROVE  (left'[i] = Mini => servers'.mini) /\ closest' # <<>>
      BY DEF Known
    <3>1. closest # <<>> /\ closest' = closest
      BY <1>2, <2>3 DEF ChooseAmong, objectVars
    <3> QED
      BY <2>3, <3>1
  <2>8. Choice'
    BY <1>2, <2>2, <2>3, <2>6, <2>7 DEF ChooseAmong, ClientInv, Choice, Known, Top, objectVars
  <2> QED
    BY <2>4, <2>5, <2>8 DEF ClientInv
<1>3. CASE PingServer
  <2>1. /\ todo # <<>> /\ Head(todo) = "ping" /\ left # <<>>
        /\ todo' = todo /\ raised' = raised /\ left' = Tail(left)
    BY <1>3 DEF PingServer
  <2>2. PICK ping \in [1 .. 3 -> Latency \cup {Failed}] :
          tried' = Append(tried, [server |-> Head(left),
                                  sum |-> ping[1] + ping[2] + ping[3]])
    BY <1>3 DEF PingServer
  <2> DEFINE t == [server |-> Head(left), sum |-> ping[1] + ping[2] + ping[3]]
  <2> PICK n \in Nat : n = Len(tried)
    BY DEF ClientInv, Types
  <2>3. left \in Seq(AnyServer) /\ tried \in Seq(Try) /\ n \in Nat
    BY DEF ClientInv, Types
  <2>4. t \in Try /\ t.server = left[1] /\ t.sum \in Nat
    <3>1. \A i \in 1 .. 3 : ping[i] \in Nat
      OBVIOUS
    <3> QED
      BY <2>1, <2>3, <3>1 DEF Try
  <2> HIDE DEF t
  <2>5. /\ tried' \in Seq(Try) /\ Len(tried') = n + 1 /\ DOMAIN tried' = 1 .. n + 1
        /\ tried'[n + 1] = t /\ \A i \in 1 .. n : tried'[i] = tried[i]
        /\ DOMAIN tried = 1 .. n /\ tried' # <<>> /\ (tried # <<>> <=> n # 0)
    BY <2>2, <2>3, <2>4 DEF t
  <2>6. /\ left' \in Seq(AnyServer)
        /\ \A i \in DOMAIN left' : i + 1 \in DOMAIN left /\ left'[i] = left[i + 1]
        /\ 1 \in DOMAIN left
    BY <2>1, <2>3
  <2>7. Types'
    BY <1>3, <2>1, <2>5, <2>6 DEF PingServer, ClientInv, Types, objectVars, historyVars, Urls
  <2>8. /\ \A i \in 1 .. n : tried[i] \in Try /\ tried[i].sum \in Nat
        /\ \A i \in 1 .. n : tried'[i].sum = tried[i].sum
        /\ tried'[n + 1].sum = t.sum
    <3>1. \A i \in 1 .. n : tried[i] \in Try
      BY <2>3, <2>5
    <3> QED
      BY <2>5, <3>1 DEF Try
  <2>9. Tried'
    <3>1. (\E i \in DOMAIN tried : IsFastest(i))'
      <4>1. CASE \A j \in 1 .. n : t.sum <= tried[j].sum
        <5>1. IsFastest(n + 1)'
          <6> SUFFICES ASSUME NEW j \in 1 .. n + 1
                       PROVE  \/ tried'[n + 1].sum < tried'[j].sum
                              \/ tried'[n + 1].sum = tried'[j].sum /\ j <= n + 1
            BY <2>5 DEF IsFastest
          <6>1. j = n + 1 \/ j \in 1 .. n
            BY <2>3
          <6> QED
            BY <2>3, <2>4, <2>8, <4>1, <6>1
        <5> QED
          BY <2>3, <2>5, <5>1
      <4>2. CASE \E j \in 1 .. n : tried[j].sum < t.sum
        <5>1. PICK i \in 1 .. n : IsFastest(i)
          BY <2>3, <2>5, <4>2 DEF ClientInv, Tried
        <5>2. tried[i].sum < t.sum
          BY <2>4, <2>5, <2>8, <4>2, <5>1 DEF IsFastest
        <5>3. IsFastest(i)'
          <6> SUFFICES ASSUME NEW j \in 1 .. n + 1
                       PROVE  \/ tried'[i].sum < tried'[j].sum
                              \/ tried'[i].sum = tried'[j].sum /\ j <= i
            BY <2>5 DEF IsFastest
          <6>1. j = n + 1 \/ j \in 1 .. n
            OBVIOUS
          <6> QED
            BY <2>3, <2>5, <2>8, <5>1, <5>2, <6>1 DEF IsFastest
        <5>4. i \in DOMAIN tried'
          BY <2>5
        <5> QED
          BY <5>3, <5>4
      <4> QED
        BY <2>4, <2>8, <4>1, <4>2
    <3> QED
      BY <3>1 DEF Tried
  <2>10. Choice'
    <3>1. /\ UNCHANGED <<servers, closest, best, results>>
          /\ \A s : Known(s)' <=> Known(s)
      BY <1>3 DEF PingServer, objectVars, Known
    <3>2. (\A i \in DOMAIN left : Known(left[i]))'
      <4> SUFFICES ASSUME NEW i \in DOMAIN left'
                   PROVE  Known(left'[i])
        BY <3>1 DEF Known
      <4> QED
        BY <2>6 DEF ClientInv, Choice
    <3>3. (\A i \in DOMAIN tried : Known(tried[i].server))'
      <4> SUFFICES ASSUME NEW i \in 1 .. n + 1
                   PROVE  Known(tried'[i].server)
        BY <2>5, <3>1 DEF Known
      <4>1. CASE i = n + 1
        BY <2>4, <2>5, <2>6, <4>1 DEF ClientInv, Choice
      <4>2. CASE i # n + 1
        <5>1. i \in DOMAIN tried /\ tried'[i] = tried[i]
          BY <2>3, <2>5, <4>2
        <5> QED
          BY <5>1 DEF ClientInv, Choice
      <4> QED
        BY <4>1, <4>2
    <3>4. Top({"ping"})' /\ tried' # <<>>
      BY <2>1, <2>5 DEF Top
    <3>5. ~ Top({"choose", "downloading", "uploading"})'
      BY <2>1 DEF Top
    <3>6. Known(best)'
      BY <3>1 DEF ClientInv, Choice, Known
    <3> QED
      BY <3>1, <3>2, <3>3, <3>4, <3>5, <3>6 DEF ClientInv, Choice, Top
  <2> QED
    BY <2>7, <2>9, <2>10 DEF ClientInv
<1>4. CASE PingBreaks \/ (PickBest /\ tried = <<>>)
  <2>1. todo' = <<>> /\ UNCHANGED objectVars /\ UNCHANGED localVars /\ UNCHANGED historyVars
    BY <1>4 DEF PingBreaks, PickBest, objectVars
  <2> QED
    BY <2>1, Raises
<1>5. CASE PickBest /\ tried # <<>>
  <2>1. /\ todo \in Stacks /\ todo # <<>> /\ Head(todo) = "ping"
        /\ todo' = Tail(todo) /\ raised' = raised
    BY <1>5, Popped DEF PickBest, ClientInv, Types
  <2>2. todo' \in Stacks /\ ~ Top({"choose", "ping"})'
    BY <2>1, Popped DEF Under, Top
  <2>3. Fastest \in DOMAIN tried /\ IsFastest(Fastest)
    <3>1. \E i \in DOMAIN tried : IsFastest(i)
      BY <1>5 DEF ClientInv, Tried
    <3> QED
      BY <3>1 DEF Fastest, IsFastest
  <2>4. /\ tried[Fastest] \in Try
        /\ Known(tried[Fastest].server)
    BY <2>3 DEF ClientInv, Types, Choice
  <2>5. /\ best' = tried[Fastest].server /\ best' \in AnyServer
        /\ results'.server = best' /\ results'.ping = tried[Fastest].sum
        /\ results' \in Reported({None} \cup Reported({None}))
    <3>1. /\ best' = tried[Fastest].server
          /\ results' = [results EXCEPT !.server = best', !.ping = tried[Fastest].sum]
      BY <1>5 DEF PickBest
    <3>2. best' \in AnyServer /\ tried[Fastest].sum \in Nat
      BY <2>4, <3>1 DEF Try
    <3>3. results \in Reported({None} \cup Reported({None}))
      BY DEF ClientInv, Types
    <3> HIDE DEF Fastest
    <3> QED
      BY <3>1, <3>2, <3>3 DEF Reported
  <2>6. Types'
    BY <1>5, <2>1, <2>2, <2>5 DEF PickBest, ClientInv, Types, localVars, historyVars, Urls
  <2>7. Tried'
    BY <1>5 DEF PickBest, ClientInv, Tried, IsFastest, localVars
  <2>8. Choice'
    BY <1>5, <2>2, <2>4, <2>5
    DEF PickBest, ClientInv, Choice, Known, Top, localVars, AnyServer
  <2> QED
    BY <2>6, <2>7, <2>8 DEF ClientInv
<1> QED
  BY <1>1, <1>2, <1>3, <1>4, <1>5

\* download, upload and share use the server that is reported.
LEMMA MeasureStep ==
  ASSUME ClientInv, Measure
  PROVE  ClientInv'
<1> USE DEF Measure, Doing, Raise, Then
<1>1. CASE StartMeasuring
  <2>1. /\ todo \in Stacks /\ todo # <<>> /\ raised' = raised
        /\ \/ Head(todo) = "download" /\ todo' = (WithBest \o <<"downloading">>) \o Tail(todo)
           \/ Head(todo) = "upload" /\ todo' = (WithBest \o <<"uploading">>) \o Tail(todo)
    BY <1>1 DEF StartMeasuring, ClientInv, Types
  <2>2. PICK m \in {"downloading", "uploading"} : todo' = (WithBest \o <<m>>) \o Tail(todo)
    BY <2>1
  <2>3. m \in Steps /\ ~ \E s \in Steps : Under(s, Head(todo))
    BY <2>1 DEF Under, Steps
  <2>4. CASE best = None
    <3>1. WithBest \o <<m>> = <<"best", m>>
      <4>1. "best" \in Steps /\ WithBest = <<"best">>
        BY <2>4 DEF WithBest, Steps
      <4> QED
        BY <2>3, <4>1, TwoSteps
    <3>2. /\ "best" \in Steps /\ Under(m, "best")
          /\ \A s \in Steps : Under(s, Head(todo)) => Under(s, m)
      BY <2>3 DEF Under, Steps
    <3>3. todo' = <<"best", m>> \o Tail(todo)
      BY <2>2, <3>1
    <3> HIDE DEF Then
    <3>4. todo' \in Stacks /\ todo' # <<>> /\ Head(todo') = "best"
      BY <2>1, <2>3, <3>2, <3>3, PushedTwo
    <3> QED
      BY <1>1, <2>1, <3>4, Turns DEF StartMeasuring, ClientInv, Types, Top
  <2>5. CASE best # None
    <3>1. WithBest \o <<m>> = <<m>>
      BY <2>5 DEF WithBest
    <3>2. todo' \in Stacks /\ todo' # <<>> /\ Head(todo') = m
      BY <2>1, <2>2, <2>3, <3>1, PushedOne
    <3> QED
      BY <1>1, <2>1, <2>5, <3>2, Turns DEF StartMeasuring, ClientInv, Types, Top
  <2> QED
    BY <2>4, <2>5
<1>2. CASE Downloaded \/ Uploaded
  <2>1. /\ todo \in Stacks /\ todo # <<>> /\ Head(todo) \in {"downloading", "uploading"}
        /\ todo' = Tail(todo) /\ raised' = raised
    BY <1>2, Popped DEF Downloaded, Uploaded, ClientInv, Types
  <2>2. todo' \in Stacks /\ ~ Top({"choose", "ping", "downloading", "uploading"})'
    BY <2>1, Popped DEF Under, Top
  <2>3. /\ \E rate \in Rate : \/ results' = [results EXCEPT !.download = rate]
                            \/ results' = [results EXCEPT !.upload = rate]
        /\ upThreads' \in {upThreads, FastThreads}
        /\ \/ tested' = [tested EXCEPT !.download = best]
           \/ tested' = [tested EXCEPT !.upload = best]
        /\ UNCHANGED <<config, servers, closest, best>> /\ UNCHANGED localVars
    BY <1>2 DEF Downloaded, Uploaded
  <2>4. /\ results' \in Reported({None} \cup Reported({None}))
        /\ results'.server = results.server /\ results'.ping = results.ping
    <3>1. results \in Reported({None} \cup Reported({None})) /\ Rate \subseteq Nat
      BY DEF ClientInv, Types
    <3> QED
      BY <2>3, <3>1 DEF Reported
  <2>5. Types'
    <3>1. /\ tested' \in [download : AnyServer \cup {None}, upload : AnyServer \cup {None}]
          /\ upThreads' \in {Threads, FastThreads}
      <4>1. /\ tested \in [download : AnyServer \cup {None}, upload : AnyServer \cup {None}]
            /\ best \in AnyServer \cup {None} /\ upThreads \in {Threads, FastThreads}
        BY DEF ClientInv, Types
      <4>2. tested' \in [download : AnyServer \cup {None}, upload : AnyServer \cup {None}]
        BY <2>3, <4>1
      <4> QED
        BY <2>3, <4>1, <4>2
    <3> QED
      BY <2>1, <2>2, <2>3, <2>4, <3>1 DEF ClientInv, Types, localVars, Urls
  <2>6. Tried' /\ Choice'
    BY <2>1, <2>2, <2>3, <2>4
    DEF ClientInv, Tried, IsFastest, Choice, Known, Top, localVars
  <2> QED
    BY <2>5, <2>6 DEF ClientInv
<1>3. CASE ShareFails \/ UploadFails
  <2>1. todo' = <<>>
    BY <1>3 DEF ShareFails, UploadFails
  <2>2. UNCHANGED objectVars /\ UNCHANGED localVars /\ UNCHANGED historyVars
    BY <1>3 DEF ShareFails, UploadFails
  <2> QED
    BY <2>1, <2>2, Raises
<1>4. CASE Share
  <2>1. /\ todo \in Stacks /\ todo # <<>> /\ Head(todo) = "share"
        /\ todo' = Tail(todo) /\ raised' = raised
    BY <1>4, Popped DEF Share, ClientInv, Types
  <2>2. todo' \in Stacks /\ ~ Top({"choose", "ping", "downloading", "uploading"})'
    BY <2>1, Popped DEF Under, Top
  <2>3. /\ results' \in Reported({None} \cup Reported({None}))
        /\ results'.server = results.server /\ results'.ping = results.ping
    <3>1. results \in Reported({None} \cup Reported({None}))
      BY DEF ClientInv, Types
    <3>2. Posted \in Reported({None})
      BY <3>1 DEF Posted, Reported
    <3>3. results' = results \/ results' = [results EXCEPT !.share = Posted]
      BY <1>4 DEF Share
    <3> HIDE DEF Posted
    <3> QED
      BY <3>1, <3>2, <3>3 DEF Reported
  <2>4. Types'
    BY <1>4, <2>1, <2>2, <2>3 DEF Share, ClientInv, Types, localVars, historyVars, Urls
  <2>5. Tried' /\ Choice'
    BY <1>4, <2>1, <2>2, <2>3
    DEF Share, ClientInv, Tried, IsFastest, Choice, Known, Top, localVars
  <2> QED
    BY <2>4, <2>5 DEF ClientInv
<1>5. CASE MeasureHangs
  <2>1. /\ todo \in Stacks /\ todo # <<>> /\ Head(todo) \in {"downloading", "uploading"}
        /\ todo' = <<"hang">> \o Tail(todo) /\ raised' = raised
    BY <1>5 DEF MeasureHangs, ClientInv, Types
  <2>2. Tail(todo) = <<>> /\ Tail(todo) \in Stacks
    BY <2>1, Popped DEF Under
  <2>3. "hang" \in Steps
    BY DEF Steps
  <2>4. todo' \in Stacks /\ todo' # <<>> /\ Head(todo') = "hang"
    BY <2>1, <2>2, <2>3, Pushed
  <2> QED
    BY <1>5, <2>1, <2>4, Turns DEF MeasureHangs, ClientInv, Types, Top
<1> QED
  BY <1>1, <1>2, <1>3, <1>4, <1>5

\* Every method keeps the invariant of the object.
LEMMA MethodStep ==
  ASSUME ClientInv, ClientNext
  PROVE  ClientInv'
BY ConfigStep, ServersStep, MiniStep, ClosestStep, BestStep, MeasureStep DEF ClientNext

(* A call, by a program or a statement of shell(): the arguments of        *)
(* get_servers, the only ones that matter, become its filter.              *)
LEMMA CallStep ==
  ASSUME ClientInv, NEW m \in {"config", "servers", "badid", "mini", "closest", "best",
                              "download", "upload", "share"}, Call(m),
         filter' \in [servers : SUBSET Server, exclude : SUBSET Server],
         UNCHANGED objectVars, UNCHANGED <<url, left, tried>>, UNCHANGED historyVars
  PROVE  ClientInv'
<1>1. /\ todo = <<>> /\ raised' = None /\ todo' = <<m>>
      /\ todo' \in Stacks /\ todo' # <<>> /\ Head(todo') = m
  BY DEF Call, Stacks, Nested, Steps
<1>2. Types'
  BY <1>1 DEF ClientInv, Types, objectVars, historyVars, Urls
<1>3. Tried' /\ Choice'
  BY <1>1 DEF ClientInv, Tried, IsFastest, Choice, Known, Top, objectVars
<1> QED
  BY <1>2, <1>3 DEF ClientInv

-----------------------------------------------------------------------------
(* The invariant of a run of shell().                                      *)

Statements == {"config", "list", "mini", "servers", "best", "download", "upload",
               "share", "report", "show"}

\* Statements are run in this order.
Rank(s) ==
  CASE s = "config" -> 1
    [] s \in {"list", "mini", "servers"} -> 2
    [] s = "best" -> 3
    [] s = "download" -> 4
    [] s = "upload" -> 5
    [] s = "share" -> 6
    [] s = "report" -> 7
    [] s = "show" -> 8
    [] OTHER -> 0

\* The command line asks for statement s.
Asked(s) ==
  /\ s = "list" => args.list
  /\ s \notin {"config", "list"} => ~ args.list
  /\ s = "mini" => args.mini
  /\ s \in {"servers", "best"} => ~ args.mini
  /\ s = "download" => args.download
  /\ s = "upload" => args.upload
  /\ s \in {"share", "show"} => args.share

\* All that p has are statements asked for, of ranks from low on below high, in order.
Ordered(p, low, high) ==
  /\ \A i \in DOMAIN p : Asked(p[i]) /\ low <= Rank(p[i]) /\ Rank(p[i]) < high
  /\ \A i, j \in DOMAIN p : i < j => Rank(p[i]) < Rank(p[j])

Has(p, s) == \E i \in DOMAIN p : p[i] = s

\* The stacks of steps that a statement gives the object to do.
Calls(s) ==
  CASE s = "config" -> {<<"config">>}
    [] s \in {"servers", "list"} -> {<<"servers">>, <<"fetch">>}
    [] s = "mini" -> {<<"mini">>, <<"ping">>}
    [] s = "best" ->
         {<<"best">>, <<"closest", "choose">>, <<"servers", "limit", "choose">>,
          <<"fetch", "limit", "choose">>, <<"limit", "choose">>, <<"choose">>, <<"ping">>}
    [] s = "download" -> {<<"download">>, <<"downloading">>, <<"hang">>}
    [] s = "upload" -> {<<"upload">>, <<"uploading">>, <<"hang">>}
    [] s \in {"share", "show"} -> {<<"share">>}
    [] OTHER -> {}

Progress ==
  /\ args \in CommandLines
  /\ exit \in {"running", "ok", "error", "traceback", "cancelled"}
  /\ plan \in Seq(Statements) /\ Ordered(plan, Rank(stmt) + 1, 9)
  /\ stmt \in Statements \cup {"options", "started"} /\ (stmt \in Statements => Asked(stmt))
  /\ todo # <<>> => stmt \in Statements /\ todo \in Calls(stmt)
  /\ stmt = "options" => plan = <<>>

\* Statement s is still to be run, runs, or has failed.
Pending(s) == Has(plan, s) \/ (stmt = s /\ (todo # <<>> \/ raised # None))

\* Behind each statement that is over is what it was for.
Done ==
  exit = "running" /\ stmt # "options" /\ ~ args.list =>
    /\ ~ args.mini => Has(plan, "servers") \/ Rank(stmt) >= 2
    /\ Pending(IF args.mini THEN "mini" ELSE "best") \/ best # None
    /\ args.download => Pending("download") \/ tested.download # None
    /\ args.upload => Pending("upload") \/ tested.upload # None

\* Numbers and link belong to the server that was chosen before.
Measured ==
  /\ tested.download # None =>
       args.download /\ Rank(stmt) >= 4 /\ tested.download = best
  /\ tested.upload # None =>
       args.upload /\ Rank(stmt) >= 5 /\ tested.upload = best
  /\ results.share # None =>
       args.share /\ Rank(stmt) >= 6 /\ results.share = Posted

Allowed(s) ==
  /\ s \in Server \ (Ignored \cup args.exclude)
  /\ args.server # {} => s \in args.server

ArgsFilter == [servers |-> args.server, exclude |-> args.exclude]

\* Only allowed servers are ever listed, tried or chosen; and a list retrieved
\* without the arguments is one retrieved when there were none.
Allowing ==
  /\ args.list => best = None
  /\ args.mini /\ ~ args.list =>
       /\ \A i \in DOMAIN left : left[i] = Mini
       /\ \A i \in DOMAIN tried : tried[i].server = Mini
       /\ best \in {Mini, None}
  /\ ~ args.mini => ~ servers.mini
  /\ ~ args.mini /\ ~ args.list =>
       /\ \A s \in servers.ids : Allowed(s)
       /\ \A i \in DOMAIN closest : Allowed(closest[i])
       /\ \A i \in DOMAIN left : Allowed(left[i])
       /\ \A i \in DOMAIN tried : Allowed(tried[i].server)
       /\ best # None => Allowed(best)
       /\ Top({"servers", "fetch"}) => filter = ArgsFilter
       /\ Top({"servers", "fetch"}) /\ stmt = "best" => ArgsFilter = NoFilter
       /\ \/ stmt = "servers" /\ todo = <<>> /\ raised = None
          \/ Rank(stmt) >= 3
          => (servers.ids = {} => ArgsFilter = NoFilter)

ShellInv == Progress /\ Done /\ Measured /\ Allowing /\ Delivered

\* A program gives no command line, but nothing ignored is listed for it.
ProgramInv ==
  /\ args = Defaults
  /\ \A i \in DOMAIN left : left[i] \in AnyServer \ Ignored
  /\ \A i \in DOMAIN tried : tried[i].server \in AnyServer \ Ignored
  /\ best \in (AnyServer \ Ignored) \cup {None}

Inv == ClientInv /\ Round /\ IF ByProgram THEN ProgramInv ELSE ShellInv

-----------------------------------------------------------------------------
(* What a step of a method does to the stack of a statement.               *)

LEMMA FirstOfThree ==
  ASSUME NEW a \in Steps, NEW b \in Steps, NEW c \in Steps
  PROVE  <<a, b, c>> = <<a>> \o <<b, c>>
<1>1. <<a, b, c>> \in Seq(Steps) /\ Len(<<a, b, c>>) = 3
  OBVIOUS
<1>2. <<a>> \in Seq(Steps) /\ <<b, c>> \in Seq(Steps)
  OBVIOUS
<1> DEFINE u == <<a>> \o <<b, c>>
<1>3. u \in Seq(Steps) /\ Len(u) = 3 /\ u[1] = a /\ u[2] = b /\ u[3] = c
  BY <1>2
<1>4. \A i \in 1 .. 3 : <<a, b, c>>[i] = u[i]
  BY <1>3
<1> HIDE DEF u
<1>5. <<a, b, c>> = u
  BY <1>1, <1>3, <1>4, SeqEqual
<1> QED
  BY <1>5 DEF u

LEMMA LastOfThree ==
  ASSUME NEW a \in Steps, NEW b \in Steps, NEW c \in Steps
  PROVE  <<a, b, c>> = <<a, b>> \o <<c>>
<1>1. <<a, b, c>> \in Seq(Steps) /\ Len(<<a, b, c>>) = 3
  OBVIOUS
<1>2. <<a, b>> \in Seq(Steps) /\ <<c>> \in Seq(Steps)
  OBVIOUS
<1> DEFINE u == <<a, b>> \o <<c>>
<1>3. u \in Seq(Steps) /\ Len(u) = 3 /\ u[1] = a /\ u[2] = b /\ u[3] = c
  BY <1>2
<1>4. \A i \in 1 .. 3 : <<a, b, c>>[i] = u[i]
  BY <1>3
<1> HIDE DEF u
<1>5. <<a, b, c>> = u
  BY <1>1, <1>3, <1>4, SeqEqual
<1> QED
  BY <1>5 DEF u

LEMMA Appended ==
  ASSUME NEW a \in Steps, NEW b \in Steps
  PROVE  /\ <<a>> \o <<>> = <<a>> /\ <<a, b>> \o <<>> = <<a, b>> /\ <<>> \o <<>> = <<>>
         /\ <<>> \o <<a>> = <<a>> /\ <<>> \o <<a, b>> = <<a, b>>
<1>1. <<a>> \o <<>> = <<a>> /\ <<>> \o <<>> = <<>> /\ <<>> \o <<a>> = <<a>>
  OBVIOUS
<1>2. <<a, b>> \o <<>> = <<a, b>> /\ <<>> \o <<a, b>> = <<a, b>>
  <2>1. <<a, b>> \in Seq(Steps)
    OBVIOUS
  <2> QED
    BY <2>1
<1> QED
  BY <1>1, <1>2

LEMMA TailOfOne ==
  ASSUME NEW a \in Steps
  PROVE  Head(<<a>>) = a /\ Tail(<<a>>) = <<>>
OBVIOUS

LEMMA TailOfTwo ==
  ASSUME NEW a \in Steps, NEW b \in Steps
  PROVE  Head(<<a, b>>) = a /\ Tail(<<a, b>>) = <<b>>
OBVIOUS

LEMMA TailOfThree ==
  ASSUME NEW a \in Steps, NEW b \in Steps, NEW c \in Steps
  PROVE  Head(<<a, b, c>>) = a /\ Tail(<<a, b, c>>) = <<b, c>>
OBVIOUS

\* The steps that a statement's stack ends with.
Last(s) ==
  CASE s = "config" -> "config"
    [] s \in {"servers", "list"} -> "fetch"
    [] s \in {"mini", "best"} -> "ping"
    [] s = "download" -> "downloading"
    [] s = "upload" -> "uploading"
    [] OTHER -> "share"

(* The step at the top belongs to these statements.                        *)
LEMMA Situated ==
  ASSUME todo # <<>>, todo \in Calls(stmt)
  PROVE  /\ Top({"servers", "fetch"}) => stmt \in {"servers", "list", "best"}
         /\ Top({"config"}) => stmt = "config"
         /\ Top({"mini"}) => stmt = "mini"
         /\ Top({"closest", "limit", "best", "choose"}) => stmt = "best"
         /\ Top({"ping"}) => stmt \in {"mini", "best"}
         /\ Top({"download", "downloading"}) => stmt = "download"
         /\ Top({"upload", "uploading"}) => stmt = "upload"
         /\ Top({"share"}) => stmt \in {"share", "show"}
         /\ ~ Top({"badid"})
BY DEF Calls, Top

(* What a step of a method does with the stack.                            *)
LEMMA Turn ==
  ASSUME ClientNext
  PROVE  /\ todo # <<>>
         /\ \/ todo' = <<>> /\ raised' \in Exceptions
            \/ /\ raised' = raised
               /\ \/ Head(todo) = "servers" /\ todo' = <<"fetch">> \o Tail(todo)
                  \/ Head(todo) \in {"mini", "choose"} /\ todo' = <<"ping">> \o Tail(todo)
                  \/ Head(todo) \in {"downloading", "uploading"}
                       /\ todo' = <<"hang">> \o Tail(todo)
                  \/ Head(todo) = "closest" /\ todo' = <<"servers", "limit">> \o Tail(todo)
                  \/ Head(todo) = "closest" /\ todo' = <<"limit">> \o Tail(todo)
                  \/ Head(todo) = "best" /\ todo' = <<"closest", "choose">> \o Tail(todo)
                  \/ Head(todo) = "best" /\ todo' = <<"choose">> \o Tail(todo)
                  \/ Head(todo) = "download"
                       /\ todo' = (WithBest \o <<"downloading">>) \o Tail(todo)
                  \/ Head(todo) = "upload"
                       /\ todo' = (WithBest \o <<"uploading">>) \o Tail(todo)
                  \/ Head(todo) \in {"fetch", "ping"} /\ todo' = todo
                  \/ Head(todo) \in {"config", "fetch", "limit", "ping", "downloading",
                                     "uploading", "share"}
                       /\ todo' = <<>> \o Tail(todo)
<1> USE DEF Doing, Raise, Then, Exceptions
<1>1. CASE GetConfig
  BY <1>1 DEF GetConfig, ConfigFails, ConfigIsNone, ConfigArrives
<1>2. CASE GetServers
  BY <1>2 DEF GetServers, StartServers, BadServerID, ListArrives, ListFails, ListBreaks, EndServers
<1>3. CASE SetMiniServer
  BY <1>3 DEF SetMiniServer, MiniFails, MiniFound
<1>4. CASE GetClosestServers
  BY <1>4 DEF GetClosestServers, StartClosest, LimitServers
<1>5. CASE GetBestServer
  BY <1>5 DEF GetBestServer, StartBest, ChooseAmong, PingServer, PingBreaks, PickBest
<1>6. CASE Measure
  BY <1>6 DEF Measure, StartMeasuring, Downloaded, Uploaded, UploadFails, MeasureHangs,
      ShareFails, Share
<1> QED
  BY <1>1, <1>2, <1>3, <1>4, <1>5, <1>6 DEF ClientNext

(* Only these steps lead into a round of get_best_server, or on in it.     *)
LEMMA Pinging ==
  ASSUME ClientInv, ClientNext, Top({"ping"})'
  PROVE  MiniFound \/ ChooseAmong \/ PingServer
<1>1. /\ todo \in Stacks /\ todo # <<>> /\ todo' # <<>> /\ Head(todo') = "ping"
      /\ ~ Under("ping", Head(todo)) /\ raised' = raised
  BY Turn DEF ClientInv, Types, Top, Under
<1>2. todo' # <<>> \o Tail(todo)
  BY <1>1, Popped
<1>3. Head(todo) \in {"mini", "choose", "ping"}
  <2>1. CASE todo' = todo
    BY <1>1, <2>1
  <2>2. CASE \E a \in {"fetch", "hang", "limit"} : todo' = <<a>> \o Tail(todo)
    <3>1. PICK a \in {"fetch", "hang", "limit"} : todo' = <<a>> \o Tail(todo)
      BY <2>2
    <3>2. Tail(todo) \in Seq(Steps) /\ <<a>> \in Seq(Steps)
      BY <1>1, Popped DEF Stacks, Steps
    <3>3. Head(todo') = a
      BY <3>1, <3>2
    <3> QED
      BY <1>1, <3>3
  <2>3. CASE \E a \in {"servers", "closest"}, b \in {"limit", "choose"} :
               todo' = <<a, b>> \o Tail(todo)
    <3>1. PICK a \in {"servers", "closest"}, b \in {"limit", "choose"} :
            todo' = <<a, b>> \o Tail(todo)
      BY <2>3
    <3>2. Tail(todo) \in Seq(Steps) /\ <<a, b>> \in Seq(Steps)
      BY <1>1, Popped DEF Stacks, Steps
    <3>3. Head(todo') = a
      BY <3>1, <3>2
    <3> QED
      BY <1>1, <3>3
  <2>4. CASE Head(todo) = "best" /\ todo' = <<"choose">> \o Tail(todo)
    <3>1. Tail(todo) \in Seq(Steps) /\ <<"choose">> \in Seq(Steps)
      BY <1>1, Popped DEF Stacks, Steps
    <3>2. Head(todo') = "choose"
      BY <2>4, <3>1
    <3> QED
      BY <1>1, <3>2
  <2>5. CASE \E m \in {"downloading", "uploading"} : todo' = (WithBest \o <<m>>) \o Tail(todo)
    <3>1. PICK m \in {"downloading", "uploading"} : todo' = (WithBest \o <<m>>) \o Tail(todo)
      BY <2>5
    <3>2. Tail(todo) \in Seq(Steps) /\ m \in Steps /\ "best" \in Steps
      BY <1>1, <3>1, Popped DEF Stacks, Steps
    <3>3. WithBest = <<>> \/ WithBest = <<"best">>
      BY DEF WithBest
    <3>4. Head(todo') \in {m, "best"}
      BY <3>1, <3>2, <3>3
    <3> QED
      BY <1>1, <3>1, <3>4
  <2> QED
    BY <1>1, <1>2, <2>1, <2>2, <2>3, <2>4, <2>5, Turn
<1> USE <1>1, <1>2, <1>3 DEF Doing, Raise, Then
<1>4. CASE GetConfig \/ GetServers
  BY <1>4
  DEF GetConfig, ConfigFails, ConfigIsNone, ConfigArrives, GetServers, StartServers,
      BadServerID, ListArrives, ListFails, ListBreaks
<1>5. CASE SetMiniServer \/ GetBestServer
  BY <1>5
  DEF SetMiniServer, MiniFails, GetBestServer, StartBest, PingBreaks, PickBest
<1>6. CASE GetClosestServers \/ Measure
  BY <1>6
  DEF GetClosestServers, StartClosest, LimitServers, Measure, StartMeasuring, Downloaded,
      Uploaded, UploadFails, MeasureHangs, ShareFails, Share
<1> QED
  BY <1>4, <1>5, <1>6 DEF ClientNext

\* The servers tried and those left are always the whole list.
LEMMA RoundKeeps ==
  ASSUME ClientInv, Round, ClientNext
  PROVE  Round'
<1> SUFFICES ASSUME Top({"ping"})'
             PROVE  \E list \in {closest', <<Mini>>} :
                      /\ Len(tried') + Len(left') = Len(list)
                      /\ \A i \in DOMAIN tried' : tried'[i].server = list[i]
                      /\ \A i \in DOMAIN left' : left'[i] = list[Len(tried') + i]
  BY DEF Round
<1>1. CASE MiniFound
  BY <1>1 DEF MiniFound
<1>2. CASE ChooseAmong
  <2>1. closest \in Seq(Server \ Ignored)
    BY DEF ClientInv, Types
  <2> QED
    BY <1>2, <2>1 DEF ChooseAmong, objectVars
<1>3. CASE PingServer
  <2>1. Top({"ping"}) /\ closest' = closest /\ left # <<>> /\ left' = Tail(left)
    BY <1>3 DEF PingServer, Doing, Top, objectVars
  <2>2. PICK list \in {closest, <<Mini>>} :
          /\ Len(tried) + Len(left) = Len(list)
          /\ \A i \in DOMAIN tried : tried[i].server = list[i]
          /\ \A i \in DOMAIN left : left[i] = list[Len(tried) + i]
    BY <2>1 DEF Round
  <2>3. PICK n \in Nat : tried' = Append(tried, [server |-> Head(left), sum |-> n])
    <3>1. PICK ping \in [1 .. 3 -> Latency \cup {Failed}] :
            tried' = Append(tried, [server |-> Head(left),
                                    sum |-> ping[1] + ping[2] + ping[3]])
      BY <1>3 DEF PingServer
    <3>2. ping[1] + ping[2] + ping[3] \in Nat
      <4>1. \A i \in 1 .. 3 : ping[i] \in Nat
        OBVIOUS
      <4> QED
        BY <4>1
    <3> QED
      BY <3>1, <3>2
  <2> DEFINE t == [server |-> Head(left), sum |-> n]
  <2>4. left \in Seq(AnyServer) /\ tried \in Seq(Try) /\ Len(tried) \in Nat
    BY DEF ClientInv, Types
  <2>5. t \in Try /\ t.server = left[1]
    BY <2>1, <2>4 DEF Try
  <2> HIDE DEF t
  <2>6. /\ Len(tried') = Len(tried) + 1 /\ DOMAIN tried' = 1 .. Len(tried) + 1
        /\ tried'[Len(tried) + 1] = t
        /\ \A i \in 1 .. Len(tried) : tried'[i] = tried[i]
        /\ DOMAIN tried = 1 .. Len(tried)
    BY <2>3, <2>4, <2>5 DEF t
  <2>7. /\ Len(left') = Len(left) - 1 /\ Len(left) \in Nat /\ 1 \in DOMAIN left
        /\ \A i \in DOMAIN left' : /\ i \in Nat /\ i + 1 \in DOMAIN left
                                   /\ left'[i] = left[i + 1]
    BY <2>1, <2>4
  <2>8. Len(tried') + Len(left') = Len(list)
    <3> DEFINE a == Len(tried)
               b == Len(left)
    <3>1. a \in Nat /\ b \in Nat /\ a + b = Len(list)
      BY <2>2, <2>4, <2>7
    <3>2. Len(tried') = a + 1 /\ Len(left') = b - 1
      BY <2>6, <2>7
    <3> HIDE DEF a, b
    <3>3. (a + 1) + (b - 1) = a + b
      BY <3>1
    <3> QED
      BY <3>1, <3>2, <3>3
  <2>9. \A i \in DOMAIN tried' : tried'[i].server = list[i]
    <3> SUFFICES ASSUME NEW i \in 1 .. Len(tried) + 1
                 PROVE  tried'[i].server = list[i]
      BY <2>6
    <3>1. i = Len(tried) + 1 \/ i \in 1 .. Len(tried)
      BY <2>4
    <3> QED
      BY <2>2, <2>5, <2>6, <2>7, <3>1
  <2>10. \A i \in DOMAIN left' : left'[i] = list[Len(tried') + i]
    <3> SUFFICES ASSUME NEW i \in DOMAIN left'
                 PROVE  left'[i] = list[Len(tried') + i]
      OBVIOUS
    <3>1. left'[i] = list[Len(tried) + (i + 1)] /\ i \in Nat
      BY <2>2, <2>7
    <3>2. Len(tried) + (i + 1) = Len(tried') + i
      BY <2>4, <2>6, <3>1
    <3> QED
      BY <3>1, <3>2
  <2> QED
    BY <2>1, <2>2, <2>8, <2>9, <2>10
<1> QED
  BY <1>1, <1>2, <1>3, Pinging

(* The object names another server, or another latency, only at the end of *)
(* a round.                                                                *)
LEMMA Names ==
  ASSUME ClientInv, Round, ClientNext, Named' # Named
  PROVE  RoundEnds
<1>1. PickBest /\ tried # <<>>
  <2> USE DEF Named
  <2>1. results \in Reported({None} \cup Reported({None}))
    BY DEF ClientInv, Types
  <2>2. CASE GetConfig \/ GetServers \/ SetMiniServer \/ GetClosestServers
    <3>1. UNCHANGED <<best, results>>
      BY <2>2
      DEF GetConfig, ConfigFails, ConfigIsNone, ConfigArrives, GetServers, StartServers,
          BadServerID, ListArrives, ListFails, ListBreaks, SetMiniServer, MiniFails,
          MiniFound, GetClosestServers, StartClosest, LimitServers, objectVars
    <3> QED
      BY <3>1
  <2>3. CASE GetBestServer
    BY <2>3
    DEF GetBestServer, StartBest, ChooseAmong, PingServer, PingBreaks, PickBest, objectVars
  <2>4. CASE Measure
    <3>1. /\ best' = best
          /\ \/ results' = results
             \/ \E x : \/ results' = [results EXCEPT !.download = x]
                      \/ results' = [results EXCEPT !.upload = x]
                      \/ results' = [results EXCEPT !.share = x]
      BY <2>4
      DEF Measure, StartMeasuring, Downloaded, Uploaded, UploadFails, MeasureHangs,
          ShareFails, Share, objectVars
    <3> QED
      BY <2>1, <3>1 DEF Reported
  <2> QED
    BY <2>2, <2>3, <2>4 DEF ClientNext
<1>2. Top({"ping"}) /\ left = <<>>
  BY <1>1 DEF PickBest, Doing, Top
<1>3. left \in Seq(AnyServer) /\ tried \in Seq(Try)
  BY DEF ClientInv, Types
<1>4. \E list \in {closest, <<Mini>>} :
        /\ Len(tried) = Len(list)
        /\ \A i \in DOMAIN tried : tried[i].server = list[i]
  <2>1. PICK list \in {closest, <<Mini>>} :
          /\ Len(tried) + Len(left) = Len(list)
          /\ \A i \in DOMAIN tried : tried[i].server = list[i]
    BY <1>2 DEF Round
  <2>2. Len(left) = 0 /\ Len(tried) \in Nat
    BY <1>2, <1>3
  <2> QED
    BY <2>1, <2>2
<1>5. Fastest \in DOMAIN tried /\ IsFastest(Fastest)
  <2>1. \E i \in DOMAIN tried : IsFastest(i)
    BY <1>1 DEF ClientInv, Tried
  <2> QED
    BY <2>1 DEF Fastest, IsFastest
<1>6. Named' = <<tried[Fastest].server, tried[Fastest].server, tried[Fastest].sum>>
  <2>1. /\ best' = tried[Fastest].server
        /\ results' = [results EXCEPT !.server = best', !.ping = tried[Fastest].sum]
    BY <1>1 DEF PickBest
  <2>2. results \in Reported({None} \cup Reported({None}))
    BY DEF ClientInv, Types
  <2> HIDE DEF Fastest
  <2> QED
    BY <2>1, <2>2 DEF Reported, Named
<1>7. \A j \in DOMAIN tried : tried[Fastest].sum <= tried[j].sum
  <2>1. \A j \in DOMAIN tried : tried[j].sum \in Nat
    <3>1. \A j \in DOMAIN tried : tried[j] \in Try
      BY <1>3
    <3> QED
      BY <3>1 DEF Try
  <2> HIDE DEF Fastest
  <2> QED
    BY <1>5, <2>1 DEF IsFastest
<1> HIDE DEF Fastest
<1> QED
  BY <1>4, <1>5, <1>6, <1>7 DEF RoundEnds

(* A method's step leaves a stack of its statement, or none; and none      *)
(* without an exception only at the end of the statement.                  *)
LEMMA Moves ==
  ASSUME ClientInv, Progress, ClientNext, stmt = "download" => best # None,
         stmt = "upload" => best # None
  PROVE  /\ todo # <<>> /\ todo' \in Calls(stmt) \cup {<<>>}
         /\ todo' = <<>> /\ raised' \notin Exceptions => Head(todo) = Last(stmt)
         /\ raised' \in Exceptions \cup {None} /\ (raised' # None => todo' = <<>>)
<1>1. todo # <<>> /\ todo \in Calls(stmt) /\ raised = None /\ stmt \in Statements
  BY Turn DEF Progress, ClientInv, Types
<1> USE DEF Steps
<1>2. CASE todo' = <<>> /\ raised' \in Exceptions
  BY <1>1, <1>2
<1>3. CASE raised' = raised /\ todo' = todo
  BY <1>1, <1>3
<1>4. CASE raised' = raised /\ todo' # todo
  <2>1. CASE stmt \in {"config", "servers", "list", "mini", "share", "show"}
    <3>1. PICK a \in {"config", "servers", "fetch", "mini", "ping", "share"} : todo = <<a>>
      BY <1>1, <2>1 DEF Calls
    <3>2. Head(todo) = a /\ Tail(todo) = <<>>
      BY <3>1
    <3>3. /\ <<"fetch">> \o Tail(todo) = <<"fetch">> /\ <<"ping">> \o Tail(todo) = <<"ping">>
          /\ <<>> \o Tail(todo) = <<>>
      BY <3>2, Appended
    <3>4. \/ a = "servers" /\ todo' = <<"fetch">>
          \/ a = "mini" /\ todo' = <<"ping">>
          \/ a \in {"config", "fetch", "ping", "share"} /\ todo' = <<>>
      BY <1>1, <1>4, <3>2, <3>3, Turn
    <3> QED
      BY <1>1, <1>4, <2>1, <3>1, <3>2, <3>4 DEF Calls, Last
  <2>2. CASE stmt \in {"download", "upload"}
    <3>1. PICK a \in {"download", "upload", "downloading", "uploading", "hang"} : todo = <<a>>
      BY <1>1, <2>2 DEF Calls
    <3>2. Head(todo) = a /\ Tail(todo) = <<>> /\ WithBest = <<>>
      BY <2>2, <3>1 DEF WithBest
    <3>3. /\ (<<>> \o <<"downloading">>) \o <<>> = <<"downloading">>
          /\ (<<>> \o <<"uploading">>) \o <<>> = <<"uploading">>
          /\ <<>> \o <<>> = <<>> /\ <<"hang">> \o <<>> = <<"hang">>
      OBVIOUS
    <3>4. \/ a = "download" /\ todo' = <<"downloading">>
          \/ a = "upload" /\ todo' = <<"uploading">>
          \/ a \in {"downloading", "uploading"} /\ todo' \in {<<>>, <<"hang">>}
      BY <1>1, <1>4, <3>2, <3>3, Turn
    <3> QED
      BY <1>1, <1>4, <2>2, <3>1, <3>2, <3>4 DEF Calls, Last
  <2>3. CASE stmt = "best"
    <3>1. CASE todo \in {<<"best">>, <<"choose">>, <<"ping">>}
      <4>1. PICK a \in {"best", "choose", "ping"} : todo = <<a>>
        BY <3>1
      <4>2. Head(todo) = a /\ Tail(todo) = <<>>
        BY <4>1
      <4>3. /\ <<"closest", "choose">> \o <<>> = <<"closest", "choose">>
            /\ <<"choose">> \o <<>> = <<"choose">> /\ <<"ping">> \o <<>> = <<"ping">>
            /\ <<>> \o <<>> = <<>>
        BY Appended
      <4>4. \/ a = "best" /\ todo' = <<"closest", "choose">>
            \/ a = "best" /\ todo' = <<"choose">>
            \/ a = "choose" /\ todo' = <<"ping">>
            \/ a = "ping" /\ todo' = <<>>
        BY <1>1, <1>4, <4>2, <4>3, Turn
      <4> QED
        BY <1>1, <1>4, <2>3, <4>2, <4>4 DEF Calls, Last
    <3>2. CASE todo \in {<<"closest", "choose">>, <<"limit", "choose">>}
      <4>1. PICK a \in {"closest", "limit"} : todo = <<a, "choose">>
        BY <3>2
      <4>2. Head(todo) = a /\ Tail(todo) = <<"choose">>
        <5> HIDE DEF Steps
        <5>1. {"closest", "limit", "choose"} \subseteq Steps
          BY DEF Steps
        <5> QED
          BY <4>1, <5>1, TailOfTwo
      <4>3. /\ <<"servers", "limit">> \o <<"choose">> = <<"servers", "limit", "choose">>
            /\ <<"limit">> \o <<"choose">> = <<"limit", "choose">>
            /\ <<>> \o <<"choose">> = <<"choose">>
        <5> HIDE DEF Steps
        <5>1. {"servers", "limit", "choose"} \subseteq Steps
          BY DEF Steps
        <5> QED
          BY <5>1, LastOfThree, TwoSteps, Appended
      <4>4. \/ todo' = <<"servers", "limit", "choose">>
            \/ todo' = <<"limit", "choose">>
            \/ todo' = <<"choose">>
        BY <1>1, <1>4, <4>2, <4>3, Turn
      <4>5. todo' # <<>> /\ todo' \in Calls(stmt)
        BY <2>3, <4>4, SMTT(60) DEF Calls
      <4> QED
        BY <1>1, <1>4, <4>5
    <3>3. CASE todo \in {<<"servers", "limit", "choose">>, <<"fetch", "limit", "choose">>}
      <4>1. PICK a \in {"servers", "fetch"} : todo = <<a, "limit", "choose">>
        BY <3>3
      <4>2. Head(todo) = a /\ Tail(todo) = <<"limit", "choose">>
        <5> HIDE DEF Steps
        <5>1. {"servers", "fetch", "limit", "choose"} \subseteq Steps
          BY DEF Steps
        <5> QED
          BY <4>1, <5>1, TailOfThree
      <4>3. /\ <<"fetch">> \o <<"limit", "choose">> = <<"fetch", "limit", "choose">>
            /\ <<>> \o <<"limit", "choose">> = <<"limit", "choose">>
        <5> HIDE DEF Steps
        <5>1. {"fetch", "limit", "choose"} \subseteq Steps
          BY DEF Steps
        <5> QED
          <6>1. <<"fetch">> \o <<"limit", "choose">> = <<"fetch", "limit", "choose">>
            <7>1. "fetch" \in Steps /\ "limit" \in Steps /\ "choose" \in Steps
              BY <5>1
            <7>2. <<"fetch", "limit", "choose">> = <<"fetch">> \o <<"limit", "choose">>
              BY <7>1, FirstOfThree
            <7> QED
              BY <7>2
          <6>2. <<>> \o <<"limit", "choose">> = <<"limit", "choose">>
            BY <5>1, Appended
          <6> QED
            BY <6>1, <6>2
      <4>4. \/ todo' = <<"fetch", "limit", "choose">>
            \/ todo' = <<"limit", "choose">>
        BY <1>1, <1>4, <4>2, <4>3, Turn
      <4>5. todo' # <<>> /\ todo' \in Calls(stmt)
        <5>1. todo' # <<>>
          BY <4>4
        <5>2. todo' \in Calls("best")
          BY <4>4, Zenon DEF Calls
        <5> QED
          BY <2>3, <5>1, <5>2
      <4> QED
        BY <1>1, <1>4, <4>5
    <3> QED
      BY <1>1, <2>3, <3>1, <3>2, <3>3 DEF Calls
  <2>4. stmt \notin {"report"}
    BY <1>1 DEF Calls
  <2> QED
    BY <1>1, <2>1, <2>2, <2>3, <2>4 DEF Statements
<1> QED
  BY <1>2, <1>3, <1>4, Turn

(* What a step of a method does to the server, the numbers and the link.   *)
LEMMA Changes ==
  ASSUME ClientInv, ClientNext
  PROVE  /\ best' = best \/ (Top({"ping"}) /\ best' # None)
         /\ \/ tested'.download = tested.download
            \/ Top({"downloading"}) /\ tested'.download = best
         /\ \/ tested'.upload = tested.upload
            \/ Top({"uploading"}) /\ tested'.upload = best
         /\ \/ results'.share = results.share
            \/ Top({"share"}) /\ results'.share = Posted'
         /\ results' = results \/ Top({"ping", "downloading", "uploading", "share"})
         /\ results.share # None /\ Top({"share"}) => results' = results
         /\ raised' \notin Exceptions /\ todo' = <<>> /\ Top({"ping"}) => best' # None
         /\ raised' \notin Exceptions /\ todo' = <<>> /\ Top({"downloading"}) =>
              tested'.download = best /\ best # None
         /\ raised' \notin Exceptions /\ todo' = <<>> /\ Top({"uploading"}) =>
              tested'.upload = best /\ best # None
         /\ servers' = servers \/ Top({"servers", "badid", "fetch", "mini"})
         /\ servers'.mini = servers.mini \/ Top({"mini"})
<1> USE DEF Doing, Raise, Then, Top
<1>1. CASE GetConfig
  BY <1>1 DEF GetConfig, ConfigFails, ConfigIsNone, ConfigArrives, objectVars, historyVars
<1>2. CASE GetServers
  <2>1. servers \in [mini : BOOLEAN, ids : SUBSET AnyServer]
    BY DEF ClientInv, Types
  <2>2. servers'.mini = servers.mini
    BY <1>2, <2>1 DEF GetServers, StartServers, BadServerID, ListArrives, ListFails, ListBreaks, objectVars
  <2>3. UNCHANGED <<best, results, tested>> /\ todo # <<>>
        /\ Head(todo) \in {"servers", "badid", "fetch"}
    BY <1>2 DEF GetServers, StartServers, BadServerID, ListArrives, ListFails, ListBreaks, objectVars, historyVars
  <2> QED
    BY <2>2, <2>3
<1>3. CASE SetMiniServer
  BY <1>3 DEF SetMiniServer, MiniFails, MiniFound, objectVars, historyVars
<1>4. CASE GetClosestServers
  BY <1>4 DEF GetClosestServers, StartClosest, LimitServers, objectVars, historyVars
<1>5. CASE GetBestServer /\ ~ PickBest
  <2>1. UNCHANGED objectVars /\ UNCHANGED historyVars /\ todo # <<>>
        /\ (Head(todo) = "ping" => todo' = todo \/ raised' \in Exceptions)
        /\ Head(todo) \in {"best", "choose", "ping"}
    BY <1>5 DEF GetBestServer, StartBest, ChooseAmong, PingServer, PingBreaks, Exceptions
  <2> QED
    BY <2>1 DEF objectVars, historyVars
<1>6. CASE PickBest
  <2>1. tried # <<>> => tried[Fastest].server \in AnyServer
    <3>1. ASSUME tried # <<>>
          PROVE  Fastest \in DOMAIN tried
      <4>1. \E i \in DOMAIN tried : IsFastest(i)
        BY <3>1 DEF ClientInv, Tried
      <4> QED
        BY <4>1 DEF Fastest, IsFastest
    <3>2. tried \in Seq(Try)
      BY DEF ClientInv, Types
    <3> HIDE DEF Fastest
    <3>3. tried # <<>> => tried[Fastest] \in Try
      BY <3>1, <3>2
    <3> QED
      BY <3>3 DEF Try
  <2>2. best' = best \/ best' # None
    BY <1>6, <2>1 DEF PickBest, AnyServer
  <2>3. /\ todo # <<>> /\ Head(todo) = "ping" /\ UNCHANGED <<tested, servers>>
        /\ tried = <<>> => raised' = "SpeedtestBestServerFailure"
        /\ tried # <<>> => best' # None
    BY <1>6, <2>1 DEF PickBest, AnyServer, historyVars
  <2>4. results'.share = results.share
    <3>1. results \in Reported({None} \cup Reported({None}))
      BY DEF ClientInv, Types
    <3>2. \/ results' = results
          \/ \E p : results' = [results EXCEPT !.server = best', !.ping = p]
      BY <1>6 DEF PickBest
    <3> QED
      BY <3>1, <3>2 DEF Reported
  <2> QED
    BY <2>2, <2>3, <2>4 DEF Exceptions
<1>7. CASE StartMeasuring \/ ShareFails \/ UploadFails \/ MeasureHangs
  <2>1. /\ UNCHANGED <<servers, best, results, tested>> /\ todo # <<>>
        /\ Head(todo) \in {"download", "upload", "downloading", "uploading", "share"}
    BY <1>7
    DEF StartMeasuring, ShareFails, UploadFails, MeasureHangs, objectVars, historyVars
  <2>2. raised' \in Exceptions \/ todo' # <<>> \/ Head(todo) \in {"download", "upload", "share"}
    <3>1. CASE MeasureHangs
      <4>1. todo' = <<"hang">> \o Tail(todo) /\ todo \in Seq(Steps)
        BY <3>1 DEF MeasureHangs, ClientInv, Types, Stacks
      <4> QED
        BY <2>1, <4>1
    <3> QED
      BY <1>7, <3>1 DEF StartMeasuring, ShareFails, UploadFails, Exceptions
  <2> QED
    BY <2>1, <2>2
<1>8. CASE Downloaded \/ Uploaded
  <2>1. /\ tested \in [download : AnyServer \cup {None}, upload : AnyServer \cup {None}]
        /\ results \in Reported({None} \cup Reported({None}))
    BY DEF ClientInv, Types
  <2>2. best # None /\ todo # <<>> /\ UNCHANGED <<best, servers>>
    BY <1>8 DEF Downloaded, Uploaded, ClientInv, Choice
  <2>3. CASE Downloaded
    <3>1. Head(todo) = "downloading"
      BY <2>3 DEF Downloaded
    <3>2. tested'.download = best /\ tested'.upload = tested.upload
      BY <2>1, <2>3 DEF Downloaded
    <3>3. results'.share = results.share
      BY <2>1, <2>3 DEF Downloaded, Reported
    <3> QED
      BY <2>2, <3>1, <3>2, <3>3
  <2>4. CASE Uploaded
    <3>1. Head(todo) = "uploading"
      BY <2>4 DEF Uploaded
    <3>2. tested'.upload = best /\ tested'.download = tested.download
      BY <2>1, <2>4 DEF Uploaded
    <3>3. results'.share = results.share
      BY <2>1, <2>4 DEF Uploaded, Reported
    <3> QED
      BY <2>2, <3>1, <3>2, <3>3
  <2> QED
    BY <1>8, <2>3, <2>4
<1>9. CASE Share
  <2>1. results \in Reported({None} \cup Reported({None}))
    BY DEF ClientInv, Types
  <2>2. CASE results.share = None
    <3>1. results' = [results EXCEPT !.share = Posted]
      BY <1>9, <2>2 DEF Share
    <3>2. results'.share = Posted
      <4> HIDE DEF Posted
      <4> QED
        BY <2>1, <3>1 DEF Reported
    <3>3. Posted' = Posted
      <4>1. results'.server = results.server /\ results'.ping = results.ping
            /\ results'.download = results.download /\ results'.upload = results.upload
            /\ results' \in Reported({None} \cup Reported({None}))
        <5>1. Posted \in Reported({None})
          BY <2>1 DEF Posted, Reported
        <5> HIDE DEF Posted
        <5> QED
          BY <2>1, <3>1, <5>1 DEF Reported
      <4> QED
        BY <2>1, <4>1 DEF Posted, Reported
    <3> QED
      BY <1>9, <2>2, <3>2, <3>3 DEF Share, historyVars
  <2>3. CASE results.share # None
    BY <1>9, <2>3 DEF Share, historyVars
  <2> QED
    BY <2>2, <2>3
<1> QED
  BY <1>1, <1>2, <1>3, <1>4, <1>5, <1>6, <1>7, <1>8, <1>9
  DEF ClientNext, GetBestServer, Measure

(* What a step of a method does to the list and its filter: only the       *)
(* retrieval of get_closest_servers drops the arguments.                   *)
LEMMA Retrieving ==
  ASSUME ClientInv, ClientNext
  PROVE  /\ Top({"servers", "fetch"})' =>
              \/ Top({"servers", "fetch"}) /\ filter' = filter
              \/ Top({"closest"}) /\ servers.ids = {} /\ filter' = NoFilter
         /\ Top({"fetch"}) /\ todo' = <<>> /\ raised' \notin Exceptions /\ servers'.ids = {} =>
              filter = NoFilter
         /\ Top({"servers", "fetch"}) => filter' = filter
<1> USE DEF Doing, Raise, Then, Top
<1>1. todo \in Stacks /\ servers \in [mini : BOOLEAN, ids : SUBSET AnyServer]
  BY DEF ClientInv, Types
<1>2. CASE GetServers
  <2>1. /\ Head(todo) \in {"servers", "badid", "fetch"} /\ todo # <<>> /\ filter' = filter
        /\ (Head(todo) = "badid" => todo' = <<>>)
    BY <1>2 DEF GetServers, StartServers, BadServerID, ListArrives, ListFails, ListBreaks, localVars
  <2>2. CASE Head(todo) = "fetch"
    <3>1. CASE ListArrives
      <4>1. PICK list \in Lists :
              IF servers.mini /\ Kept(list) # {}
                THEN Raise("TypeError") /\ UNCHANGED servers
                ELSE /\ servers' = [servers EXCEPT !.ids = Kept(list)]
                     /\ EndServers(Kept(list))
        BY <3>1 DEF ListArrives
      <4>2. CASE servers.mini /\ Kept(list) # {}
        BY <2>1, <4>1, <4>2 DEF Exceptions
      <4>3. CASE ~ (servers.mini /\ Kept(list) # {})
        <5>1. servers'.ids = Kept(list) /\ EndServers(Kept(list))
          BY <1>1, <4>1, <4>3
        <5> QED
          BY <2>1, <2>2, <5>1 DEF EndServers, Exceptions
      <4> QED
        BY <4>2, <4>3
    <3>2. CASE ListFails
      BY <2>1, <2>2, <3>2 DEF ListFails, EndServers, Exceptions, objectVars
    <3>3. CASE ListBreaks
      BY <2>1, <2>2, <3>3 DEF ListBreaks, Exceptions
    <3> QED
      BY <1>2, <2>2, <3>1, <3>2, <3>3 DEF GetServers, StartServers, BadServerID
  <2> QED
    BY <2>1, <2>2
<1>3. CASE GetClosestServers
  <2>1. CASE StartClosest /\ servers.ids = {}
    BY <2>1 DEF StartClosest
  <2>2. CASE StartClosest /\ servers.ids # {}
    <3>1. todo' = <<"limit">> \o Tail(todo) /\ Head(todo) = "closest" /\ todo # <<>>
      BY <2>2 DEF StartClosest
    <3>2. Head(todo') = "limit"
      BY <1>1, <3>1, PushedOne DEF Under, Steps
    <3> QED
      BY <3>1, <3>2
  <2>3. CASE LimitServers
    <3>1. Head(todo) = "limit" /\ todo # <<>> /\ (todo' = <<>> \/ todo' = Tail(todo))
      BY <1>1, <2>3, Popped DEF LimitServers
    <3> QED
      BY <1>1, <3>1, Popped DEF Under
  <2> QED
    BY <1>3, <2>1, <2>2, <2>3 DEF GetClosestServers
<1>4. CASE GetConfig \/ SetMiniServer \/ GetBestServer \/ Measure
  <2>1. todo # <<>> /\ Head(todo) \notin {"servers", "fetch", "closest", "limit"}
    BY <1>4
    DEF GetConfig, ConfigFails, ConfigIsNone, ConfigArrives, SetMiniServer, MiniFails, MiniFound,
        GetBestServer, StartBest, ChooseAmong, PingServer, PingBreaks, PickBest,
        Measure, StartMeasuring, Downloaded, Uploaded, UploadFails, MeasureHangs,
      ShareFails, Share
  <2>2. todo' # <<>> => Head(todo') \notin {"servers", "fetch"}
    <3>1. CASE todo' = Tail(todo) \/ todo' = <<>> \o Tail(todo)
      BY <1>1, <2>1, <3>1, Popped DEF Under
    <3>2. CASE Head(todo) \in {"mini", "choose"} /\ todo' = <<"ping">> \o Tail(todo)
      BY <1>1, <2>1, <3>2, PushedOne DEF Under, Steps
    <3>3. CASE Head(todo) = "best" /\ todo' = <<"closest", "choose">> \o Tail(todo)
      <4>1. /\ "closest" \in Steps /\ "choose" \in Steps /\ Under("choose", "closest")
            /\ \A x \in Steps : Under(x, Head(todo)) => Under(x, "choose")
        BY <3>3 DEF Under, Steps
      <4> QED
        BY <1>1, <2>1, <3>3, <4>1, PushedTwo
    <3>4. CASE Head(todo) = "best" /\ todo' = <<"choose">> \o Tail(todo)
      BY <1>1, <2>1, <3>4, PushedOne DEF Under, Steps
    <3>6. CASE Head(todo) \in {"downloading", "uploading"} /\ todo' = <<"hang">> \o Tail(todo)
      BY <1>1, <2>1, <3>6, PushedOne DEF Under, Steps
    <3>5. CASE \E m \in {"downloading", "uploading"} :
                 todo' = (WithBest \o <<m>>) \o Tail(todo) /\ Head(todo) \in {"download", "upload"}
      <4>1. PICK m \in {"downloading", "uploading"} :
              todo' = (WithBest \o <<m>>) \o Tail(todo) /\ Head(todo) \in {"download", "upload"}
        BY <3>5
      <4>2. CASE best = None
        <5>1. /\ "best" \in Steps /\ m \in Steps /\ Under(m, "best")
              /\ \A x \in Steps : Under(x, Head(todo)) => Under(x, m)
          BY <4>1 DEF Under, Steps
        <5>2. WithBest \o <<m>> = <<"best", m>>
          BY <4>2, <5>1, TwoSteps DEF WithBest
        <5>3. todo' = <<"best", m>> \o Tail(todo)
          BY <4>1, <5>2
        <5> QED
          BY <1>1, <2>1, <5>1, <5>3, PushedTwo
      <4>3. CASE best # None
        <5>1. WithBest \o <<m>> = <<m>>
          BY <4>3 DEF WithBest
        <5>2. todo' = <<m>> \o Tail(todo)
          BY <4>1, <5>1
        <5> QED
          BY <1>1, <2>1, <4>1, <5>2, PushedOne DEF Under, Steps
      <4> QED
        BY <4>2, <4>3
    <3> QED
      BY <2>1, <3>1, <3>2, <3>3, <3>4, <3>5, <3>6, Turn
  <2> QED
    BY <2>1, <2>2
<1> QED
  BY <1>2, <1>3, <1>4 DEF ClientNext

(* Where a listed server comes from.                                       *)
LEMMA Listed ==
  ASSUME ClientInv, ClientNext, NEW S, ~ servers.mini, ~ Top({"mini"}),
         servers.ids \subseteq S, \A i \in DOMAIN closest : closest[i] \in S,
         Top({"fetch"}) => \A list \in Lists : Kept(list) \subseteq S
  PROVE  /\ servers'.ids \subseteq S
         /\ \A i \in DOMAIN closest' : closest'[i] \in S
<1> USE DEF Doing, Raise, Then, Top
<1>1. /\ servers \in [mini : BOOLEAN, ids : SUBSET AnyServer]
      /\ closest \in Seq(Server \ Ignored)
  BY DEF ClientInv, Types
<1>2. CASE GetServers
  <2>1. servers' = servers \/ servers'.ids \subseteq S
    <3>1. CASE StartServers
      BY <1>1, <3>1 DEF StartServers
    <3>2. CASE ListArrives
      <4>1. Top({"fetch"})
        BY <3>2 DEF ListArrives
      <4>2. \E list \in Lists : servers' = servers \/ servers' = [servers EXCEPT !.ids = Kept(list)]
        BY <3>2 DEF ListArrives
      <4> QED
        BY <1>1, <4>1, <4>2
    <3>3. CASE ListFails \/ ListBreaks
      BY <3>3 DEF ListFails, ListBreaks, objectVars
    <3>4. CASE BadServerID
      BY <1>1, <3>4 DEF BadServerID
    <3> QED
      BY <1>2, <3>1, <3>2, <3>3, <3>4 DEF GetServers
  <2>2. closest' = closest
    BY <1>2 DEF GetServers, StartServers, BadServerID, ListArrives, ListFails, ListBreaks, objectVars
  <2> QED
    BY <2>1, <2>2
<1>3. CASE LimitServers
  <2>1. PICK q \in Nearest(servers.ids, Room) : closest' = closest \o q /\ servers' = servers
    BY <1>3 DEF LimitServers
  <2>2. q \in Seq(Server \ Ignored) /\ \A i \in DOMAIN q : q[i] \in servers.ids
    BY NearestAreListed DEF Nearest
  <2>3. \A i \in DOMAIN (closest \o q) : (closest \o q)[i] \in S
    <3> SUFFICES ASSUME NEW i \in DOMAIN (closest \o q)
                 PROVE  (closest \o q)[i] \in S
      OBVIOUS
    <3>1. \/ i \in DOMAIN closest /\ (closest \o q)[i] = closest[i]
          \/ i - Len(closest) \in DOMAIN q /\ (closest \o q)[i] = q[i - Len(closest)]
      BY <1>1, <2>2
    <3> QED
      BY <2>2, <3>1
  <2> QED
    BY <2>1, <2>3
<1>4. CASE GetConfig \/ StartClosest \/ GetBestServer \/ Measure
  BY <1>4
  DEF GetConfig, ConfigFails, ConfigIsNone, ConfigArrives, StartClosest,
      GetBestServer, StartBest, ChooseAmong, PingServer, PingBreaks, PickBest,
      Measure, StartMeasuring, Downloaded, Uploaded, UploadFails, MeasureHangs,
      ShareFails, Share, objectVars
<1>5. CASE SetMiniServer
  BY <1>5 DEF SetMiniServer, MiniFails, MiniFound
<1> QED
  BY <1>2, <1>3, <1>4, <1>5 DEF ClientNext, GetClosestServers

(* Where a server that is tried or chosen comes from.                      *)
LEMMA Sources ==
  ASSUME ClientInv, ClientNext, NEW S,
         \A i \in DOMAIN left : left[i] \in S,
         \A i \in DOMAIN tried : tried[i].server \in S,
         best \in S \cup {None},
         Top({"choose"}) => \A i \in DOMAIN closest : closest[i] \in S,
         Top({"mini"}) => Mini \in S
  PROVE  /\ \A i \in DOMAIN left' : left'[i] \in S
         /\ \A i \in DOMAIN tried' : tried'[i].server \in S
         /\ best' \in S \cup {None}
<1> USE DEF Doing, Raise, Then, Top
<1>1. CASE GetConfig \/ GetServers \/ GetClosestServers \/ Measure
  BY <1>1
  DEF GetConfig, ConfigFails, ConfigIsNone, ConfigArrives,
      GetServers, StartServers, BadServerID, ListArrives, ListFails, ListBreaks,
      GetClosestServers, StartClosest, LimitServers,
      Measure, StartMeasuring, Downloaded, Uploaded, UploadFails, MeasureHangs,
      ShareFails, Share, objectVars, localVars
<1>2. CASE MiniFails \/ StartBest \/ PingBreaks
  BY <1>2 DEF MiniFails, StartBest, PingBreaks, objectVars, localVars
<1>3. CASE MiniFound
  BY <1>3 DEF MiniFound
<1>4. CASE ChooseAmong
  BY <1>4 DEF ChooseAmong, objectVars
<1>5. CASE PingServer
  <2>1. PICK t : tried' = Append(tried, t) /\ t.server = Head(left)
    BY <1>5 DEF PingServer
  <2>2. left # <<>> /\ left' = Tail(left) /\ best' = best
    BY <1>5 DEF PingServer, objectVars
  <2>3. left \in Seq(AnyServer) /\ tried \in Seq(Try)
    BY DEF ClientInv, Types
  <2>4. /\ \A i \in DOMAIN left' : i + 1 \in DOMAIN left /\ left'[i] = left[i + 1]
        /\ 1 \in DOMAIN left /\ Head(left) = left[1]
    BY <2>2, <2>3
  <2>5. \A i \in DOMAIN tried' : tried'[i] = t \/ (i \in DOMAIN tried /\ tried'[i] = tried[i])
    BY <2>1, <2>3
  <2> QED
    BY <2>1, <2>2, <2>4, <2>5
<1>6. CASE PickBest
  <2>1. tried # <<>> => Fastest \in DOMAIN tried
    <3>1. tried # <<>> => \E i \in DOMAIN tried : IsFastest(i)
      BY DEF ClientInv, Tried
    <3> QED
      BY <3>1 DEF Fastest, IsFastest
  <2>2. /\ best' = best \/ (tried # <<>> /\ best' = tried[Fastest].server)
        /\ left' = left /\ tried' = tried
    BY <1>6 DEF PickBest, localVars
  <2> HIDE DEF Fastest
  <2> QED
    BY <2>1, <2>2
<1> QED
  BY <1>1, <1>2, <1>3, <1>4, <1>5, <1>6 DEF ClientNext, SetMiniServer, GetBestServer

-----------------------------------------------------------------------------
(* A step of a method keeps the invariant of a run of shell().             *)

\* The statements of shell() have an order.
LEMMA Ranks == \A s : Rank(s) \in 0 .. 8 /\ (s \in Statements => Rank(s) >= 1)
BY DEF Rank, Statements

\* What is still to be run comes behind what runs.
LEMMA Behind ==
  ASSUME Progress, NEW s, Has(plan, s)
  PROVE  Rank(s) > Rank(stmt)
<1>1. PICK i \in DOMAIN plan : plan[i] = s
  BY DEF Has
<1>2. Rank(stmt) + 1 <= Rank(s)
  BY <1>1 DEF Progress, Ordered
<1> QED
  BY <1>2, Ranks

\* A server is chosen before anything is measured.
LEMMA ServerFirst ==
  ASSUME Progress, Done, exit = "running", stmt \in {"download", "upload"}
  PROVE  best # None
<1>1. ~ args.list
  BY DEF Progress, Asked, Statements
<1>2. ~ Has(plan, "mini") /\ ~ Has(plan, "best")
  BY Behind DEF Rank
<1> QED
  BY <1>1, <1>2 DEF Done, Pending

\* A method that returns has done what its statement is for.
LEMMA MethodDone ==
  ASSUME ClientInv, ShellInv, exit = "running", ClientNext, UNCHANGED shellVars
  PROVE  Progress' /\ Done'
<1> USE DEF ShellInv
<1>1. /\ todo # <<>> /\ todo \in Calls(stmt) /\ stmt \in Statements
      /\ todo' \in Calls(stmt) \cup {<<>>}
      /\ todo' = <<>> /\ raised' \notin Exceptions => Head(todo) = Last(stmt)
      /\ raised' \in Exceptions \cup {None}
  BY Moves, ServerFirst DEF Progress
<1>2. Progress'
  BY <1>1 DEF Progress, Ordered, Asked, shellVars
<1>3. Done'
  <2>1. \A s : Has(plan', s) <=> Has(plan, s)
    BY DEF Has, shellVars
  <2>2. None \notin Exceptions
    BY DEF Exceptions
  <2>3. \A s : Pending(s) /\ ~ Pending(s)' =>
                 stmt = s /\ todo' = <<>> /\ raised' \notin Exceptions
    BY <1>1, <2>1, <2>2 DEF Pending, shellVars
  <2>4. ASSUME exit = "running", stmt # "options", ~ args.list
        PROVE  (Pending(IF args.mini THEN "mini" ELSE "best") \/ best # None)'
    <3> DEFINE s == IF args.mini THEN "mini" ELSE "best"
    <3>1. CASE best # None
      BY <3>1, Changes
    <3>2. CASE best = None
      <4>1. Pending(s)
        BY <2>4, <3>2 DEF Done
      <4>2. CASE Pending(s)'
        BY <4>2
      <4>3. CASE ~ Pending(s)'
        <5>1. stmt = s /\ todo' = <<>> /\ raised' \notin Exceptions
          BY <2>3, <4>1, <4>3 DEF shellVars
        <5>2. Top({"ping"})
          BY <1>1, <5>1 DEF Last, Top
        <5> QED
          BY <5>1, <5>2, Changes
      <4> QED
        BY <4>2, <4>3
    <3> QED
      BY <3>1, <3>2
  <2>5. ASSUME exit = "running", stmt # "options", ~ args.list, args.download
        PROVE  (Pending("download") \/ tested.download # None)'
    <3>1. CASE Pending("download") /\ ~ Pending("download")'
      <4>1. stmt = "download" /\ todo' = <<>> /\ raised' \notin Exceptions
        BY <2>3, <3>1
      <4>2. Top({"downloading"})
        BY <1>1, <4>1 DEF Last, Top
      <4> QED
        BY <4>1, <4>2, Changes
    <3>2. CASE tested.download # None
      BY <3>2, Changes DEF ClientInv, Choice, Top
    <3> QED
      BY <2>5, <3>1, <3>2 DEF Done
  <2>6. ASSUME exit = "running", stmt # "options", ~ args.list, args.upload
        PROVE  (Pending("upload") \/ tested.upload # None)'
    <3>1. CASE Pending("upload") /\ ~ Pending("upload")'
      <4>1. stmt = "upload" /\ todo' = <<>> /\ raised' \notin Exceptions
        BY <2>3, <3>1
      <4>2. Top({"uploading"})
        BY <1>1, <4>1 DEF Last, Top
      <4> QED
        BY <4>1, <4>2, Changes
    <3>2. CASE tested.upload # None
      BY <3>2, Changes DEF ClientInv, Choice, Top
    <3> QED
      BY <2>6, <3>1, <3>2 DEF Done
  <2>7. ASSUME exit = "running", stmt # "options", ~ args.list, ~ args.mini
        PROVE  (Has(plan, "servers") \/ Rank(stmt) >= 2)'
    BY <2>1, <2>7 DEF Done, shellVars
  <2> QED
    BY <2>4, <2>5, <2>6, <2>7 DEF Done, shellVars
<1> QED
  BY <1>2, <1>3

\* In shell() a rate stays with the server that is reported.
LEMMA MethodMeasured ==
  ASSUME ClientInv, ShellInv, exit = "running", ClientNext, UNCHANGED shellVars
  PROVE  Measured'
<1> USE DEF ShellInv
<1>1. todo # <<>> /\ todo \in Calls(stmt) /\ stmt \in Statements /\ Asked(stmt)
  BY Turn DEF Progress
<1>2. /\ Top({"downloading"}) => stmt = "download"
      /\ Top({"uploading"}) => stmt = "upload"
      /\ Top({"ping"}) => stmt \in {"mini", "best"}
      /\ Top({"share"}) => stmt \in {"share", "show"}
  BY <1>1, Situated DEF Top
<1>3. /\ Top({"downloading"}) => args.download /\ Rank(stmt) = 4
      /\ Top({"uploading"}) => args.upload /\ Rank(stmt) = 5
      /\ Top({"ping"}) => Rank(stmt) \in {2, 3}
      /\ Top({"share"}) => args.share /\ Rank(stmt) \in {6, 8}
  BY <1>1, <1>2 DEF Asked, Rank
<1>4. args' = args /\ stmt' = stmt
  BY DEF shellVars
<1>5. (tested.download # None =>
         args.download /\ Rank(stmt) >= 4 /\ tested.download = best)'
  <2>1. best' = best \/ (tested.download = None /\ tested'.download = tested.download)
    BY <1>3, Changes DEF Measured, Top
  <2> QED
    BY <1>3, <1>4, <2>1, Changes DEF Measured, Top
<1>6. (tested.upload # None =>
         args.upload /\ Rank(stmt) >= 5 /\ tested.upload = best)'
  <2>1. best' = best \/ (tested.upload = None /\ tested'.upload = tested.upload)
    BY <1>3, Changes DEF Measured, Top
  <2> QED
    BY <1>3, <1>4, <2>1, Changes DEF Measured, Top
<1>7. (results.share # None =>
         args.share /\ Rank(stmt) >= 6 /\ results.share = Posted)'
  <2>1. CASE Top({"share"})
    <3>1. args.share /\ Rank(stmt) >= 6
      BY <1>3, <2>1
    <3>2. results'.share = None \/ results'.share = Posted' \/ results' = results
      BY <2>1, Changes
    <3>3. results' = results => Posted' = Posted
      BY DEF Posted
    <3> HIDE DEF Posted
    <3> QED
      BY <1>4, <3>1, <3>2, <3>3 DEF Measured
  <2>2. CASE ~ Top({"share"})
    <3>1. results'.share = results.share
      BY <2>2, Changes
    <3>2. results.share # None => results' = results
      BY <1>3, <2>2, Changes DEF Measured, Top
    <3>3. results' = results => Posted' = Posted
      BY DEF Posted
    <3> HIDE DEF Posted
    <3> QED
      BY <1>4, <3>1, <3>2, <3>3 DEF Measured
  <2> QED
    BY <2>1, <2>2
<1> QED
  BY <1>5, <1>6, <1>7 DEF Measured

\* In shell() only what the command line allows is chosen.
LEMMA MethodAllowing ==
  ASSUME ClientInv, ShellInv, exit = "running", ClientNext, UNCHANGED shellVars
  PROVE  Allowing'
<1> USE DEF ShellInv
<1>1. /\ todo # <<>> /\ todo \in Calls(stmt) /\ stmt \in Statements /\ Asked(stmt)
      /\ todo' \in Calls(stmt) \cup {<<>>} /\ raised = None /\ None \notin Exceptions
      /\ todo' = <<>> /\ raised' \notin Exceptions => Head(todo) = Last(stmt)
  BY Moves, Turn, ServerFirst DEF Progress, ClientInv, Types, Exceptions
<1>2. args' = args /\ stmt' = stmt /\ ArgsFilter' = ArgsFilter /\ \A s : Allowed(s)' <=> Allowed(s)
  BY DEF shellVars, ArgsFilter, Allowed
<1>3. /\ Top({"mini"}) => stmt = "mini"
      /\ Top({"ping"}) => stmt \in {"mini", "best"}
      /\ Top({"choose", "closest"}) => stmt = "best"
      /\ Top({"servers", "fetch"}) => stmt \in {"servers", "list", "best"}
  BY <1>1, Situated DEF Top
<1>4. ~ args.mini => ~ Top({"mini"})
  BY <1>1, <1>3 DEF Asked
<1>5. (args.list => best = None)'
  <2>1. args.list => ~ Top({"ping"})
    BY <1>1, <1>3 DEF Asked
  <2> QED
    BY <1>2, <2>1, Changes DEF Allowing
<1>6. ASSUME args.mini, ~ args.list
      PROVE  (/\ \A i \in DOMAIN left : left[i] = Mini
              /\ \A i \in DOMAIN tried : tried[i].server = Mini
              /\ best \in {Mini, None})'
  <2>1. ~ Top({"choose"})
    BY <1>1, <1>3, <1>6 DEF Asked, Top
  <2>2. PICK S : S = {Mini}
    OBVIOUS
  <2>3. /\ \A i \in DOMAIN left : left[i] \in S
        /\ \A i \in DOMAIN tried : tried[i].server \in S
        /\ best \in S \cup {None} /\ Mini \in S
    BY <1>6, <2>2 DEF Allowing
  <2>4. /\ \A i \in DOMAIN left' : left'[i] \in S
        /\ \A i \in DOMAIN tried' : tried'[i].server \in S
        /\ best' \in S \cup {None}
    BY <2>1, <2>3, Sources
  <2> QED
    BY <2>2, <2>4
<1>7. (~ args.mini => ~ servers.mini)'
  BY <1>2, <1>4, Changes DEF Allowing
<1>8. ASSUME ~ args.mini, ~ args.list
      PROVE  (/\ \A s \in servers.ids : Allowed(s)
              /\ \A i \in DOMAIN closest : Allowed(closest[i])
              /\ \A i \in DOMAIN left : Allowed(left[i])
              /\ \A i \in DOMAIN tried : Allowed(tried[i].server)
              /\ best # None => Allowed(best))'
  <2>1. PICK S : S = {s \in Server : Allowed(s)}
    OBVIOUS
  <2>2. \A s : s \in S <=> Allowed(s)
    BY <2>1 DEF Allowed
  <2>3. /\ servers.ids \subseteq S /\ \A i \in DOMAIN closest : closest[i] \in S
        /\ \A i \in DOMAIN left : left[i] \in S
        /\ \A i \in DOMAIN tried : tried[i].server \in S
        /\ best \in S \cup {None}
    BY <1>8, <2>2 DEF Allowing
  <2>4. Top({"fetch"}) => \A list \in Lists : Kept(list) \subseteq S
    <3>1. Top({"fetch"}) => filter = ArgsFilter
      BY <1>8 DEF Allowing, Top
    <3> QED
      BY <2>2, <3>1 DEF Kept, ArgsFilter, Allowed
  <2>5. ~ servers.mini
    BY <1>8 DEF Allowing
  <2>6. /\ servers'.ids \subseteq S
        /\ \A i \in DOMAIN closest' : closest'[i] \in S
    BY <1>4, <1>8, <2>3, <2>4, <2>5, Listed
  <2>7. /\ \A i \in DOMAIN left' : left'[i] \in S
        /\ \A i \in DOMAIN tried' : tried'[i].server \in S
        /\ best' \in S \cup {None}
    BY <1>4, <1>8, <2>3, Sources
  <2>8. \A s : s \in S => Allowed(s)'
    BY <1>2, <2>2
  <2>9. /\ (\A s \in servers.ids : Allowed(s))'
        /\ (\A i \in DOMAIN closest : Allowed(closest[i]))'
    BY <2>6, <2>8 DEF Allowed
  <2>10. /\ (\A i \in DOMAIN left : Allowed(left[i]))'
         /\ (\A i \in DOMAIN tried : Allowed(tried[i].server))'
    BY <2>7, <2>8 DEF Allowed
  <2>11. (best # None => Allowed(best))'
    BY <2>7, <2>8 DEF Allowed
  <2> QED
    BY <2>9, <2>10, <2>11
<1>9. ASSUME ~ args.mini, ~ args.list
      PROVE  (/\ Top({"servers", "fetch"}) => filter = ArgsFilter
              /\ Top({"servers", "fetch"}) /\ stmt = "best" => ArgsFilter = NoFilter)'
  <2>1. Top({"closest"}) /\ servers.ids = {} => ArgsFilter = NoFilter
    <3>1. Top({"closest"}) => stmt = "best"
      BY <1>3 DEF Top
    <3> QED
      BY <1>9, <3>1 DEF Allowing, Rank
  <2>2. CASE Top({"servers", "fetch"}) /\ filter' = filter
    BY <1>2, <1>9, <2>2 DEF Allowing
  <2>3. CASE Top({"closest"}) /\ servers.ids = {} /\ filter' = NoFilter
    BY <1>2, <2>1, <2>3
  <2> QED
    BY <2>2, <2>3, Retrieving
<1>10. ASSUME ~ args.mini, ~ args.list
       PROVE  (\/ stmt = "servers" /\ todo = <<>> /\ raised = None
               \/ Rank(stmt) >= 3
               => (servers.ids = {} => ArgsFilter = NoFilter))'
  <2>1. CASE stmt = "servers"
    <3> SUFFICES ASSUME todo' = <<>>, raised' = None, servers'.ids = {}
                 PROVE  ArgsFilter = NoFilter
      BY <1>2, <2>1 DEF Rank
    <3>1. Top({"fetch"})
      BY <1>1, <2>1 DEF Last, Top
    <3>2. filter = NoFilter
      BY <1>1, <3>1, Retrieving
    <3> QED
      BY <1>10, <3>1, <3>2 DEF Allowing, Top
  <2>2. CASE Rank(stmt) >= 3
    <3>1. CASE servers' = servers
      BY <1>2, <1>10, <2>2, <3>1 DEF Allowing
    <3>2. CASE Top({"servers", "fetch"})
      <4>1. stmt = "best"
        BY <1>3, <2>2, <3>2 DEF Rank
      <4> QED
        BY <1>2, <1>10, <3>2, <4>1 DEF Allowing
    <3> QED
      BY <1>1, <1>4, <1>10, <3>1, <3>2, Changes, Situated DEF Top
  <2> QED
    BY <1>2, <2>1, <2>2
<1> QED
  BY <1>2, <1>5, <1>6, <1>7, <1>8, <1>9, <1>10 DEF Allowing

\* The step of a method keeps both invariants.
LEMMA MethodKeeps ==
  ASSUME ClientInv, ShellInv, Method
  PROVE  ClientInv' /\ ShellInv'
<1>1. exit = "running" /\ exit' = "running"
  BY DEF Method, shellVars
<1>2. Delivered'
  BY <1>1 DEF Delivered
<1> QED
  BY <1>1, <1>2, MethodStep, MethodDone, MethodMeasured, MethodAllowing DEF Method, ShellInv

-----------------------------------------------------------------------------
(* The statements that the options ask for, in their order.                *)

\* Statements in order, followed by later ones in order.
LEMMA Joined ==
  ASSUME NEW p \in Seq(Statements), NEW q \in Seq(Statements),
         NEW low \in Nat, NEW mid \in Nat, NEW high \in Nat, low <= mid, mid <= high,
         Ordered(p, low, mid), Ordered(q, mid, high)
  PROVE  /\ p \o q \in Seq(Statements) /\ Ordered(p \o q, low, high)
         /\ \A s : Has(p, s) \/ Has(q, s) => Has(p \o q, s)
<1> DEFINE r == p \o q
<1>1. /\ r \in Seq(Statements)
      /\ \A i \in DOMAIN r : \/ i \in DOMAIN p /\ r[i] = p[i]
                             \/ /\ i \notin DOMAIN p /\ i - Len(p) \in DOMAIN q
                                /\ r[i] = q[i - Len(p)]
      /\ \A i \in DOMAIN p : i \in DOMAIN r /\ r[i] = p[i]
      /\ \A i \in DOMAIN q : i + Len(p) \in DOMAIN r /\ r[i + Len(p)] = q[i]
      /\ DOMAIN r \subseteq Nat /\ DOMAIN p = 1 .. Len(p) /\ Len(p) \in Nat
  OBVIOUS
<1> HIDE DEF r
<1>2. \A i \in DOMAIN r : Asked(r[i]) /\ low <= Rank(r[i]) /\ Rank(r[i]) < high
  <2> SUFFICES ASSUME NEW i \in DOMAIN r
               PROVE  Asked(r[i]) /\ low <= Rank(r[i]) /\ Rank(r[i]) < high
    OBVIOUS
  <2>1. CASE i \in DOMAIN p /\ r[i] = p[i]
    <3>1. Asked(p[i]) /\ low <= Rank(p[i]) /\ Rank(p[i]) < mid /\ Rank(p[i]) \in Int
      BY <2>1, Ranks DEF Ordered
    <3> QED
      BY <2>1, <3>1
  <2>2. CASE i - Len(p) \in DOMAIN q /\ r[i] = q[i - Len(p)]
    <3> DEFINE k == i - Len(p)
    <3>1. k \in DOMAIN q /\ r[i] = q[k]
      BY <2>2
    <3> HIDE DEF k
    <3>2. Asked(q[k]) /\ mid <= Rank(q[k]) /\ Rank(q[k]) < high
      BY <3>1 DEF Ordered
    <3>3. Rank(q[k]) \in 0 .. 8
      BY Ranks, Zenon
    <3> QED
      BY <3>1, <3>2, <3>3
  <2> QED
    BY <1>1, <2>1, <2>2
<1>3. \A i, j \in DOMAIN r : i < j => Rank(r[i]) < Rank(r[j])
  <2> SUFFICES ASSUME NEW i \in DOMAIN r, NEW j \in DOMAIN r, i < j
               PROVE  Rank(r[i]) < Rank(r[j])
    OBVIOUS
  <2>1. CASE j \in DOMAIN p
    <3>1. i \in DOMAIN p
      BY <1>1, <2>1
    <3> QED
      BY <1>1, <2>1, <3>1 DEF Ordered
  <2>2. CASE i \in DOMAIN p /\ j \notin DOMAIN p
    <3>1. Rank(p[i]) < mid
      BY <2>2 DEF Ordered
    <3>2. mid <= Rank(q[j - Len(p)]) /\ r[j] = q[j - Len(p)] /\ r[i] = p[i]
      BY <1>1, <2>2 DEF Ordered
    <3>3. Rank(p[i]) \in Int /\ Rank(q[j - Len(p)]) \in Int
      <4>1. Rank(p[i]) \in 0 .. 8 /\ Rank(q[j - Len(p)]) \in 0 .. 8
        BY Ranks, Zenon
      <4> QED
        BY <4>1
    <3> QED
      BY <3>1, <3>2, <3>3
  <2>3. CASE i \notin DOMAIN p /\ j \notin DOMAIN p
    <3>1. /\ i - Len(p) \in DOMAIN q /\ j - Len(p) \in DOMAIN q
          /\ r[i] = q[i - Len(p)] /\ r[j] = q[j - Len(p)]
      BY <1>1, <2>3
    <3>2. i - Len(p) < j - Len(p)
      BY <1>1
    <3> QED
      BY <3>1, <3>2 DEF Ordered
  <2> QED
    BY <2>1, <2>2, <2>3
<1>4. \A s : Has(p, s) \/ Has(q, s) => Has(r, s)
  BY <1>1 DEF Has
<1> QED
  BY <1>1, <1>2, <1>3, <1>4 DEF Ordered, r

\* A statement under a condition.
LEMMA OneStatement ==
  ASSUME NEW condition \in BOOLEAN, NEW s \in Statements, condition => Asked(s)
  PROVE  /\ If(condition, s) \in Seq(Statements)
         /\ Ordered(If(condition, s), Rank(s), Rank(s) + 1)
         /\ condition => Has(If(condition, s), s)
<1>1. CASE condition
  <2>1. If(condition, s) = <<s>>
    BY <1>1 DEF If
  <2> DEFINE p == <<s>>
  <2>2. p \in Seq(Statements) /\ DOMAIN p = {1} /\ p[1] = s
    OBVIOUS
  <2>3. Rank(s) \in Int /\ Rank(s) <= Rank(s) /\ Rank(s) < Rank(s) + 1
    BY Ranks
  <2> HIDE DEF p
  <2>4. Ordered(p, Rank(s), Rank(s) + 1) /\ Has(p, s)
    BY <1>1, <2>2, <2>3 DEF Ordered, Has
  <2> QED
    BY <1>1, <2>1, <2>2, <2>4 DEF p
<1>2. CASE ~ condition
  <2>1. If(condition, s) = <<>>
    BY <1>2 DEF If
  <2> QED
    BY <1>2, <2>1 DEF Ordered
<1> QED
  BY <1>1, <1>2

\* A later statement under a condition is added to statements in order.
LEMMA Extended ==
  ASSUME NEW p \in Seq(Statements), NEW condition \in BOOLEAN, NEW s \in Statements,
         condition => Asked(s), Ordered(p, 1, Rank(s))
  PROVE  /\ p \o If(condition, s) \in Seq(Statements)
         /\ Ordered(p \o If(condition, s), 1, Rank(s) + 1)
         /\ \A t : Has(p, t) => Has(p \o If(condition, s), t)
         /\ condition => Has(p \o If(condition, s), s)
<1> DEFINE q == If(condition, s)
<1>1. /\ q \in Seq(Statements) /\ Ordered(q, Rank(s), Rank(s) + 1)
      /\ condition => Has(q, s)
  BY OneStatement
<1>2. /\ Rank(s) \in Nat /\ Rank(s) + 1 \in Nat
      /\ 1 <= Rank(s) /\ Rank(s) <= Rank(s) + 1
  BY Ranks
<1> HIDE DEF q
<1>3. /\ p \o q \in Seq(Statements) /\ Ordered(p \o q, 1, Rank(s) + 1)
      /\ \A t : Has(p, t) \/ Has(q, t) => Has(p \o q, t)
  BY <1>1, <1>2, Joined
<1> QED
  BY <1>1, <1>3 DEF q

\* shell() runs its statements in order and leaves none out that was asked for.
LEMMA PlanOrdered ==
  ASSUME args \in CommandLines
  PROVE  /\ Plan \in Seq(Statements) /\ Ordered(Plan, 1, 9)
         /\ ~ args.list =>
              /\ Has(Plan, IF args.mini THEN "mini" ELSE "best")
              /\ ~ args.mini => Has(Plan, "servers")
              /\ args.download => Has(Plan, "download")
              /\ args.upload => Has(Plan, "upload")
<1>1. /\ args.mini \in BOOLEAN /\ args.download \in BOOLEAN /\ args.upload \in BOOLEAN
      /\ args.share \in BOOLEAN /\ args.simple \in BOOLEAN
  BY DEF CommandLines
<1>2. CASE args.list
  <2>1. /\ Plan = <<"config", "list">> /\ <<"config", "list">> \in Seq(Statements)
        /\ DOMAIN <<"config", "list">> = {1, 2}
    BY <1>2 DEF Plan, Statements
  <2> QED
    BY <1>2, <2>1 DEF Ordered, Rank, Asked
<1>3. CASE ~ args.list
  <2> DEFINE first == IF args.mini THEN "mini" ELSE "servers"
             p1 == <<"config", first>>
             p2 == p1 \o If(~ args.mini, "best")
             p3 == p2 \o If(args.download, "download")
             p4 == p3 \o If(args.upload, "upload")
             p5 == p4 \o If(~ args.simple /\ args.share, "share")
             p6 == p5 \o <<"report">>
             p7 == p6 \o If(args.share /\ args.machine = "none", "show")
  <2>1. Plan = p7
    BY <1>3 DEF Plan
  <2>2. p1 \in Seq(Statements) /\ Ordered(p1, 1, 3) /\ Has(p1, first)
    <3>1. /\ first \in Statements /\ "config" \in Statements
          /\ Asked(first) /\ Asked("config") /\ Rank(first) = 2 /\ Rank("config") = 1
      BY <1>3 DEF Statements, Asked, Rank
    <3> HIDE DEF first
    <3>2. p1 \in Seq(Statements) /\ DOMAIN p1 = {1, 2} /\ p1[1] = "config" /\ p1[2] = first
      BY <3>1
    <3> HIDE DEF p1
    <3> QED
      BY <3>1, <3>2 DEF Ordered, Has
  <2> HIDE DEF first, p1
  <2>3. /\ p2 \in Seq(Statements) /\ Ordered(p2, 1, 4) /\ Has(p2, first)
        /\ ~ args.mini => Has(p2, "best")
    <3>1. "best" \in Statements /\ Rank("best") = 3 /\ (~ args.mini => Asked("best"))
      BY <1>3 DEF Statements, Asked, Rank
    <3>2. PICK c \in BOOLEAN : c <=> ~ args.mini
      OBVIOUS
    <3>3. p2 = p1 \o If(c, "best")
      BY <3>2 DEF If
    <3> HIDE DEF p2
    <3> QED
      BY <2>2, <3>1, <3>2, <3>3, Extended
  <2> HIDE DEF p2
  <2>4. /\ p3 \in Seq(Statements) /\ Ordered(p3, 1, 5)
        /\ \A s : Has(p2, s) => Has(p3, s)
        /\ args.download => Has(p3, "download")
    <3>1. "download" \in Statements /\ Rank("download") = 4 /\ (args.download => Asked("download"))
      BY <1>3 DEF Statements, Asked, Rank
    <3> QED
      BY <1>1, <2>3, <3>1, Extended
  <2> HIDE DEF p3
  <2>5. /\ p4 \in Seq(Statements) /\ Ordered(p4, 1, 6)
        /\ \A s : Has(p3, s) => Has(p4, s)
        /\ args.upload => Has(p4, "upload")
    <3>1. "upload" \in Statements /\ Rank("upload") = 5 /\ (args.upload => Asked("upload"))
      BY <1>3 DEF Statements, Asked, Rank
    <3> QED
      BY <1>1, <2>4, <3>1, Extended
  <2> HIDE DEF p4
  <2>6. /\ p5 \in Seq(Statements) /\ Ordered(p5, 1, 7)
        /\ \A s : Has(p4, s) => Has(p5, s)
    <3>1. /\ "share" \in Statements /\ Rank("share") = 6
          /\ ~ args.simple /\ args.share => Asked("share")
      BY <1>3 DEF Statements, Asked, Rank
    <3>2. PICK c \in BOOLEAN : c <=> ~ args.simple /\ args.share
      OBVIOUS
    <3>3. p5 = p4 \o If(c, "share")
      BY <3>2 DEF If
    <3> HIDE DEF p5
    <3> QED
      BY <2>5, <3>1, <3>2, <3>3, Extended
  <2> HIDE DEF p5
  <2>7. /\ p6 \in Seq(Statements) /\ Ordered(p6, 1, 8)
        /\ \A s : Has(p5, s) => Has(p6, s)
    <3>1. "report" \in Statements /\ Rank("report") = 7 /\ Asked("report")
      BY <1>3 DEF Statements, Asked, Rank
    <3>2. PICK c \in BOOLEAN : c
      OBVIOUS
    <3>3. p6 = p5 \o If(c, "report")
      BY <3>2 DEF If
    <3> HIDE DEF p6
    <3>4. /\ p5 \o If(c, "report") \in Seq(Statements)
          /\ Ordered(p5 \o If(c, "report"), 1, Rank("report") + 1)
          /\ \A s : Has(p5, s) => Has(p5 \o If(c, "report"), s)
      BY <2>6, <3>1, Extended
    <3> QED
      BY <3>1, <3>3, <3>4
  <2> HIDE DEF p6
  <2>8. /\ p7 \in Seq(Statements) /\ Ordered(p7, 1, 9)
        /\ \A s : Has(p6, s) => Has(p7, s)
    <3>1. /\ "show" \in Statements /\ Rank("show") = 8
          /\ args.share /\ args.machine = "none" => Asked("show")
      BY <1>3 DEF Statements, Asked, Rank
    <3>2. PICK c \in BOOLEAN : c <=> args.share /\ args.machine = "none"
      OBVIOUS
    <3>3. p7 = p6 \o If(c, "show")
      BY <3>2 DEF If
    <3> HIDE DEF p7
    <3> QED
      BY <2>7, <3>1, <3>2, <3>3, Extended
  <2> HIDE DEF p7
  <2>9. \A s : Has(p2, s) \/ Has(p3, s) \/ Has(p4, s) => Has(p7, s)
    BY <2>4, <2>5, <2>6, <2>7, <2>8
  <2> QED
    BY <2>1, <2>3, <2>4, <2>5, <2>8, <2>9 DEF first
<1> QED
  BY <1>1, <1>2, <1>3 DEF CommandLines

\* The options are looked at, and the statements laid out.
LEMMA OptionsKeep ==
  ASSUME ClientInv, ShellInv, Options
  PROVE  ClientInv' /\ ShellInv'
<1> USE DEF ShellInv
<1>1. /\ stmt = "options" /\ stmt' = "started" /\ args' = args /\ exit = "running"
      /\ UNCHANGED clientVars
      /\ \/ exit' = "running" /\ plan' = Plan
         \/ exit' = "error" /\ plan' = <<>>
         \/ exit' = "ok" /\ plan' = <<>> /\ EndsInOptions
  BY DEF Options
<1>2. ClientInv'
  BY <1>1
  DEF ClientInv, Types, Tried, IsFastest, Choice, Known, Top, Urls,
      clientVars, objectVars, localVars, historyVars
<1>3. todo = <<>> /\ todo' = <<>> /\ args \in CommandLines
  BY <1>1 DEF Progress, Statements, clientVars
<1>4. plan' \in Seq(Statements) /\ Ordered(plan', 1, 9)
  <2>1. Ordered(<<>>, 1, 9) /\ <<>> \in Seq(Statements)
    BY DEF Ordered
  <2> QED
    BY <1>1, <1>3, <2>1, PlanOrdered
<1>5. Rank("started") = 0 /\ Rank("options") = 0
  BY DEF Rank
<1>6. Progress'
  <2>1. Ordered(plan, Rank(stmt) + 1, 9)'
    BY <1>1, <1>4, <1>5 DEF Ordered, Asked
  <2> QED
    BY <1>1, <1>3, <1>4, <2>1 DEF Progress, Statements
<1>7. Done'
  <2> SUFFICES ASSUME exit' = "running", ~ args.list
               PROVE  /\ ~ args.mini => Has(plan', "servers")
                      /\ Has(plan', IF args.mini THEN "mini" ELSE "best")
                      /\ args.download => Has(plan', "download")
                      /\ args.upload => Has(plan', "upload")
    BY <1>1 DEF Done, Pending, Has
  <2> QED
    BY <1>1, <1>3, PlanOrdered
<1>8. Measured'
  BY <1>1, <1>5 DEF Measured, Posted, clientVars, objectVars, historyVars
<1>9. Allowing'
  BY <1>1, <1>3, <1>5
  DEF Allowing, Allowed, ArgsFilter, Top, clientVars, objectVars, localVars, historyVars
<1>10. Delivered'
  BY <1>1 DEF Delivered, EndsInOptions
<1> QED
  BY <1>2, <1>6, <1>7, <1>8, <1>9, <1>10

-----------------------------------------------------------------------------
(* The other steps of shell().                                             *)

(* The next statement: of it, and of those behind it, the invariant says   *)
(* the same as before.                                                     *)
LEMMA NextStatement ==
  ASSUME ShellInv, NEW s, Statement(s)
  PROVE  /\ s \in Statements /\ Asked(s) /\ Rank(stmt) < Rank(s)
         /\ plan' \in Seq(Statements) /\ Ordered(plan', Rank(s) + 1, 9)
         /\ \A t : Has(plan, t) => t = s \/ Has(plan', t)
         /\ \A t : Has(plan', t) => Rank(s) < Rank(t)
         /\ stmt # "options" /\ stmt' = s /\ todo = <<>> /\ raised = None
<1>1. /\ plan \in Seq(Statements) /\ plan # <<>> /\ Head(plan) = s /\ plan' = Tail(plan)
      /\ Ordered(plan, Rank(stmt) + 1, 9) /\ stmt # "options"
      /\ stmt' = s /\ todo = <<>> /\ raised = None
  BY DEF Statement, ShellInv, Progress
<1>2. /\ 1 \in DOMAIN plan /\ plan[1] = s /\ plan' \in Seq(Statements)
      /\ \A i \in DOMAIN plan' : i + 1 \in DOMAIN plan /\ plan'[i] = plan[i + 1] /\ 1 < i + 1
      /\ \A i \in DOMAIN plan : i = 1 \/ (i - 1 \in DOMAIN plan' /\ plan'[i - 1] = plan[i])
      /\ DOMAIN plan' \subseteq Int /\ s \in Statements
  <2> PICK p \in Seq(Statements) : p = plan
    BY <1>1
  <2>1. /\ p # <<>> /\ 1 \in DOMAIN p /\ p[1] = Head(p) /\ Tail(p) \in Seq(Statements)
        /\ \A i \in DOMAIN Tail(p) : i + 1 \in DOMAIN p /\ Tail(p)[i] = p[i + 1] /\ 1 < i + 1
        /\ DOMAIN Tail(p) \subseteq Int /\ Head(p) \in Statements
    BY <1>1
  <2>2. \A i \in DOMAIN p : i = 1 \/ (i - 1 \in DOMAIN Tail(p) /\ Tail(p)[i - 1] = p[i])
    BY <1>1
  <2> QED
    BY <1>1, <2>1, <2>2
<1>3. Asked(s) /\ Rank(stmt) < Rank(s)
  <2>1. Asked(s) /\ Rank(stmt) + 1 <= Rank(s)
    BY <1>1, <1>2 DEF Ordered
  <2> QED
    BY <2>1, Ranks
<1>4. \A i \in DOMAIN plan' : /\ Asked(plan'[i]) /\ Rank(s) < Rank(plan'[i])
                             /\ Rank(plan'[i]) < 9 /\ Rank(s) + 1 <= Rank(plan'[i])
  <2> SUFFICES ASSUME NEW i \in DOMAIN plan'
               PROVE  /\ Asked(plan'[i]) /\ Rank(s) < Rank(plan'[i])
                      /\ Rank(plan'[i]) < 9 /\ Rank(s) + 1 <= Rank(plan'[i])
    OBVIOUS
  <2>1. i + 1 \in DOMAIN plan /\ plan'[i] = plan[i + 1] /\ 1 < i + 1
    BY <1>2
  <2>2. Asked(plan[i + 1]) /\ Rank(s) < Rank(plan[i + 1]) /\ Rank(plan[i + 1]) < 9
    BY <1>1, <1>2, <2>1 DEF Ordered
  <2>3. Rank(s) \in Int /\ Rank(plan[i + 1]) \in Int
    BY Ranks
  <2> QED
    BY <2>1, <2>2, <2>3
<1>5. \A i, j \in DOMAIN plan' : i < j => Rank(plan'[i]) < Rank(plan'[j])
  BY <1>1, <1>2 DEF Ordered
<1>6. \A t : Has(plan, t) => t = s \/ Has(plan', t)
  BY <1>2 DEF Has
<1>7. \A t : Has(plan', t) => Rank(s) < Rank(t)
  BY <1>4 DEF Has
<1>8. Ordered(plan', Rank(s) + 1, 9)
  BY <1>4, <1>5 DEF Ordered
<1> QED
  BY <1>1, <1>2, <1>3, <1>6, <1>7, <1>8

\* shell() comes to its next statement.
LEMMA StatementKeeps ==
  ASSUME ClientInv, ShellInv, NEW s, Statement(s), exit' = exit, args' = args,
         UNCHANGED objectVars, UNCHANGED <<left, tried>>, UNCHANGED historyVars,
         \/ todo' = <<>> /\ s = "report"
         \/ \E m \in Steps \ {"fetch"} :
              /\ todo' = <<m>> /\ <<m>> \in Calls(s)
              /\ m = "servers" => s \in {"servers", "list"} /\ (~ args.list => filter' = ArgsFilter)
  PROVE  ShellInv'
<1> USE DEF ShellInv
<1>1. /\ s \in Statements /\ Asked(s) /\ Rank(stmt) < Rank(s)
      /\ plan' \in Seq(Statements) /\ Ordered(plan', Rank(s) + 1, 9)
      /\ \A t : Has(plan, t) => t = s \/ Has(plan', t)
      /\ \A t : Has(plan', t) => Rank(s) < Rank(t)
      /\ stmt # "options" /\ stmt' = s /\ todo = <<>> /\ raised = None
      /\ exit = "running" /\ exit' = "running"
  BY NextStatement DEF Statement
<1>2. Rank(stmt) \in Int /\ Rank(s) \in Int /\ Rank(s') = Rank(s)
  BY Ranks
<1>3. \/ todo' = <<>> /\ s = "report"
      \/ /\ todo' # <<>> /\ Head(todo') # "fetch"
         /\ Head(todo') = "servers" =>
              s \in {"servers", "list"} /\ (~ args.list => filter' = ArgsFilter)
  <2>1. CASE todo' = <<>> /\ s = "report"
    BY <2>1
  <2>2. CASE ~ (todo' = <<>> /\ s = "report")
    <3>1. PICK m \in Steps \ {"fetch"} :
            /\ todo' = <<m>> /\ <<m>> \in Calls(s)
            /\ m = "servers" => s \in {"servers", "list"} /\ (~ args.list => filter' = ArgsFilter)
      BY <2>2
    <3>2. <<m>> # <<>> /\ Head(<<m>>) = m
      OBVIOUS
    <3> QED
      BY <3>1, <3>2
  <2> QED
    BY <2>1, <2>2
<1>4. Progress'
  <2>1. (stmt \in Statements => Asked(stmt))'
    BY <1>1 DEF Asked
  <2>2. Ordered(plan, Rank(stmt) + 1, 9)'
    <3>1. Ordered(plan, Rank(stmt) + 1, 9)' <=> Ordered(plan', Rank(s) + 1, 9)
      BY <1>1 DEF Ordered, Asked
    <3> QED
      BY <1>1, <3>1
  <2> QED
    BY <1>1, <2>1, <2>2 DEF Progress, Statements
<1>5. Done'
  <2> SUFFICES ASSUME ~ args.list
               PROVE  (/\ ~ args.mini => Has(plan, "servers") \/ Rank(stmt) >= 2
                       /\ Pending(IF args.mini THEN "mini" ELSE "best") \/ best # None
                       /\ args.download => Pending("download") \/ tested.download # None
                       /\ args.upload => Pending("upload") \/ tested.upload # None)'
    BY <1>1 DEF Done
  <2>1. \A t \in {"mini", "best", "download", "upload"} : Pending(t) => Pending(t)'
    <3> SUFFICES ASSUME NEW t \in {"mini", "best", "download", "upload"}, Pending(t)
                 PROVE  Pending(t)'
      OBVIOUS
    <3>1. Has(plan, t)
      BY <1>1 DEF Pending
    <3>2. t = s \/ Has(plan', t)
      BY <1>1, <3>1
    <3>3. t = s => todo' # <<>>
      BY <1>3
    <3> QED
      BY <1>1, <3>2, <3>3 DEF Pending, Has
  <2>2. Has(plan, "servers") => s = "servers" \/ Has(plan', "servers")
    BY <1>1
  <2>3. (~ args.mini => Has(plan, "servers") \/ Rank(stmt) >= 2)'
    <3>1. Rank("servers") = 2
      BY DEF Rank
    <3>2. ~ args.mini => Has(plan, "servers") \/ Rank(stmt) >= 2
      BY <1>1 DEF Done
    <3>3. ~ args.mini => Has(plan', "servers") \/ Rank(s) >= 2
      BY <1>1, <1>2, <2>2, <3>1, <3>2
    <3> QED
      BY <1>1, <3>3 DEF Has
  <2> QED
    BY <1>1, <2>1, <2>3 DEF Done, objectVars, historyVars
<1>6. Measured'
  <2>1. Rank(stmt') = Rank(s)
    BY <1>1
  <2> QED
    BY <1>1, <1>2, <2>1 DEF Measured, Posted, objectVars, historyVars
<1>7. Allowing'
  <2>1. /\ (args.list => best = None)'
        /\ (args.mini /\ ~ args.list =>
              /\ \A i \in DOMAIN left : left[i] = Mini
              /\ \A i \in DOMAIN tried : tried[i].server = Mini
              /\ best \in {Mini, None})'
        /\ (~ args.mini => ~ servers.mini)'
    BY DEF Allowing, objectVars
  <2> SUFFICES ASSUME ~ args.mini, ~ args.list
               PROVE  (/\ \A x \in servers.ids : Allowed(x)
                       /\ \A i \in DOMAIN closest : Allowed(closest[i])
                       /\ \A i \in DOMAIN left : Allowed(left[i])
                       /\ \A i \in DOMAIN tried : Allowed(tried[i].server)
                       /\ best # None => Allowed(best)
                       /\ Top({"servers", "fetch"}) => filter = ArgsFilter
                       /\ Top({"servers", "fetch"}) /\ stmt = "best" => ArgsFilter = NoFilter
                       /\ \/ stmt = "servers" /\ todo = <<>> /\ raised = None
                          \/ Rank(stmt) >= 3
                          => (servers.ids = {} => ArgsFilter = NoFilter))'
    BY <2>1 DEF Allowing
  <2>2. (/\ \A x \in servers.ids : Allowed(x)
         /\ \A i \in DOMAIN closest : Allowed(closest[i])
         /\ \A i \in DOMAIN left : Allowed(left[i])
         /\ \A i \in DOMAIN tried : Allowed(tried[i].server)
         /\ best # None => Allowed(best))'
    BY DEF Allowing, Allowed, objectVars
  <2>3. (/\ Top({"servers", "fetch"}) => filter = ArgsFilter
         /\ Top({"servers", "fetch"}) /\ stmt = "best" => ArgsFilter = NoFilter)'
    <3>1. Top({"servers", "fetch"})' => s \in {"servers", "list"} /\ filter' = ArgsFilter
      BY <1>3 DEF Top
    <3> QED
      BY <1>1, <3>1 DEF ArgsFilter
  <2>4. Rank(s) >= 3 => stmt = "servers" \/ Rank(stmt) >= 3
    <3> SUFFICES ASSUME Rank(s) >= 3, Rank(stmt) < 3
                 PROVE  stmt = "servers"
      BY <1>2
    <3>1. Rank("servers") = 2
      BY DEF Rank
    <3>2. ~ Has(plan, "servers")
      BY <1>1, <1>2, <3>1
    <3>3. Rank(stmt) >= 2
      BY <1>1, <3>2 DEF Done
    <3>4. stmt \in {"list", "mini", "servers"}
      BY <3>3 DEF Rank
    <3> QED
      BY <3>4 DEF Progress, Asked, Statements
  <2>5. (\/ stmt = "servers" /\ todo = <<>> /\ raised = None
         \/ Rank(stmt) >= 3
         => (servers.ids = {} => ArgsFilter = NoFilter))'
    <3>1. Rank(s) >= 3 => (servers.ids = {} => ArgsFilter = NoFilter)
      BY <1>1, <2>4 DEF Allowing
    <3>2. s = "servers" => todo' # <<>>
      BY <1>3
    <3> QED
      BY <1>1, <3>1, <3>2 DEF ArgsFilter, objectVars
  <2> QED
    BY <2>2, <2>3, <2>5
<1>8. Delivered'
  BY <1>1 DEF Delivered
<1> QED
  BY <1>4, <1>5, <1>6, <1>7, <1>8

(* A success comes behind the last statement, so nothing is pending.       *)
LEMMA EndKeeps ==
  ASSUME ClientInv, ShellInv, Finish \/ Fail \/ CtrlC
  PROVE  ClientInv' /\ ShellInv'
<1> USE DEF ShellInv
<1>1. /\ UNCHANGED <<args, plan, stmt>> /\ UNCHANGED clientVars
      /\ exit = "running" /\ exit' \in {"ok", "error", "traceback", "cancelled"}
      /\ exit' = "ok" => Finish
  BY DEF Finish, Fail, Outcome, CtrlC
<1>2. ClientInv'
  BY <1>1
  DEF ClientInv, Types, Tried, IsFastest, Choice, Known, Top, Urls,
      clientVars, objectVars, localVars, historyVars
<1>3. Progress' /\ Done' /\ Measured'
  BY <1>1
  DEF Progress, Ordered, Asked, Done, Measured, Posted, clientVars, objectVars, historyVars
<1>4. Allowing'
  BY <1>1 DEF Allowing, Allowed, ArgsFilter, Top, clientVars, objectVars, localVars
<1>5. Delivered'
  <2> SUFFICES ASSUME Finish, ~ args.list
               PROVE  /\ args.download <=> tested.download # None
                      /\ args.upload <=> tested.upload # None
                      /\ results.share # None => args.share
    BY <1>1 DEF Delivered, EndsInOptions, clientVars, objectVars, historyVars
  <2>1. plan = <<>> /\ todo = <<>> /\ raised = None /\ stmt # "options"
    BY DEF Finish
  <2>2. \A s : ~ Pending(s)
    BY <2>1 DEF Pending, Has
  <2> QED
    BY <1>1, <2>1, <2>2 DEF Done, Measured
<1> QED
  BY <1>2, <1>3, <1>4, <1>5

\* The steps of shell() and of main() keep both invariants.
LEMMA ShellKeeps ==
  ASSUME ClientInv, ShellInv, Shell
  PROVE  ClientInv' /\ ShellInv'
<1>1. CASE Options
  BY <1>1, OptionsKeep
<1>2. CASE RetrieveServers
  <2>1. PICK s \in {"servers", "list"} : Statement(s)
    BY <1>2 DEF RetrieveServers
  <2>2. filter' = IF args.list THEN NoFilter ELSE ArgsFilter
    BY <1>2 DEF RetrieveServers, ArgsFilter
  <2>3. filter' \in [servers : SUBSET Server, exclude : SUBSET Server]
    <3>1. args.server \subseteq Server /\ args.exclude \subseteq Server
      BY DEF ShellInv, Progress, CommandLines
    <3> QED
      BY <2>2, <3>1 DEF NoFilter, ArgsFilter
  <2>4. /\ Call("servers") /\ UNCHANGED objectVars /\ UNCHANGED <<url, left, tried>>
        /\ UNCHANGED historyVars /\ args' = args /\ exit' = exit
    BY <1>2 DEF RetrieveServers
  <2>5. ClientInv'
    BY <2>3, <2>4, CallStep
  <2>6. "servers" \in Steps \ {"fetch"} /\ <<"servers">> \in Calls(s) /\ todo' = <<"servers">>
    BY <2>4 DEF Steps, Calls, Call
  <2>7. ShellInv'
    BY <2>1, <2>2, <2>4, <2>6, StatementKeeps
  <2> QED
    BY <2>5, <2>7
<1>3. CASE CallMethod
  <2>1. PICK s \in {"config", "mini", "best", "download", "upload", "share", "show"} :
          Statement(s) /\ Call(IF s = "show" THEN "share" ELSE s)
    BY <1>3 DEF CallMethod
  <2>2. PICK m \in {"config", "mini", "best", "download", "upload", "share"} :
          m = IF s = "show" THEN "share" ELSE s
    BY <2>1
  <2>3. /\ Call(m) /\ UNCHANGED objectVars /\ UNCHANGED localVars
        /\ UNCHANGED historyVars /\ args' = args /\ exit' = exit
        /\ filter' \in [servers : SUBSET Server, exclude : SUBSET Server]
    BY <1>3, <2>1, <2>2 DEF CallMethod, localVars, ClientInv, Types
  <2>4. ClientInv'
    BY <2>3, CallStep DEF localVars
  <2>5. m \in Steps \ {"fetch"} /\ m # "servers" /\ <<m>> \in Calls(s) /\ todo' = <<m>>
    BY <2>1, <2>2, <2>3 DEF Steps, Calls, Call
  <2>6. ShellInv'
    BY <2>1, <2>3, <2>5, StatementKeeps DEF localVars
  <2> QED
    BY <2>4, <2>6
<1>4. CASE Report
  <2>1. Statement("report") /\ UNCHANGED clientVars /\ args' = args /\ exit' = exit
    BY <1>4 DEF Report
  <2>2. ClientInv'
    BY <2>1
    DEF ClientInv, Types, Tried, IsFastest, Choice, Known, Top, Urls,
        clientVars, objectVars, localVars, historyVars
  <2>3. todo' = <<>>
    BY <2>1 DEF Statement, clientVars
  <2>4. ShellInv'
    BY <2>1, <2>3, StatementKeeps DEF clientVars, localVars
  <2> QED
    BY <2>2, <2>4
<1>5. CASE Finish \/ Fail
  BY <1>5, EndKeeps
<1> QED
  BY <1>1, <1>2, <1>3, <1>4, <1>5 DEF Shell

-----------------------------------------------------------------------------
(* The steps of a program, and the invariant of either caller.             *)

\* A program may call what it likes.
LEMMA ProgramKeeps ==
  ASSUME ClientInv, ProgramInv, ProgramNext
  PROVE  ClientInv' /\ ProgramInv'
<1>1. CASE CallGetServers
  <2>1. /\ Call("servers") /\ UNCHANGED objectVars /\ UNCHANGED <<url, left, tried>>
        /\ UNCHANGED historyVars /\ filter' \in [servers : SUBSET Server, exclude : SUBSET Server]
    BY <1>1 DEF CallGetServers
  <2>2. ClientInv'
    BY <2>1, CallStep
  <2>3. ProgramInv'
    BY <2>1 DEF ProgramNext, ProgramInv, objectVars, shellVars
  <2> QED
    BY <2>2, <2>3
<1>2. CASE CallOther
  <2>1. PICK m \in {"badid", "mini", "closest", "best", "download", "upload", "share"} : Call(m)
    BY <1>2 DEF CallOther
  <2>2. /\ UNCHANGED objectVars /\ UNCHANGED <<url, left, tried>>
        /\ UNCHANGED historyVars /\ filter' \in [servers : SUBSET Server, exclude : SUBSET Server]
    BY <1>2 DEF CallOther, localVars, ClientInv, Types
  <2>3. ClientInv'
    BY <2>1, <2>2, CallStep
  <2>4. ProgramInv'
    BY <2>2 DEF ProgramNext, ProgramInv, objectVars, shellVars
  <2> QED
    BY <2>3, <2>4
<1>3. CASE ClientNext
  <2>1. ClientInv'
    BY <1>3, MethodStep
  <2>2. PICK S : S = AnyServer \ Ignored
    OBVIOUS
  <2>3. /\ \A i \in DOMAIN left : left[i] \in S
        /\ \A i \in DOMAIN tried : tried[i].server \in S
        /\ best \in S \cup {None} /\ Mini \in S
    BY <2>2 DEF ProgramInv, AnyServer
  <2>4. \A i \in DOMAIN closest : closest[i] \in S
    <3>1. \A i \in DOMAIN closest : closest[i] \in Server \ Ignored
      BY DEF ClientInv, Types
    <3> QED
      BY <2>2, <3>1 DEF AnyServer
  <2>5. /\ \A i \in DOMAIN left' : left'[i] \in S
        /\ \A i \in DOMAIN tried' : tried'[i].server \in S
        /\ best' \in S \cup {None}
    BY <1>3, <2>3, <2>4, Sources
  <2>6. ProgramInv'
    BY <2>2, <2>5 DEF ProgramNext, ProgramInv, shellVars
  <2> QED
    BY <2>1, <2>6
<1> QED
  BY <1>1, <1>2, <1>3 DEF ProgramNext

LEMMA InitInv ==
  ASSUME CallersInit
  PROVE  Inv
<1>1. Blank /\ todo \in {<<>>, <<"config">>}
  BY DEF CallersInit, Init, ProgramInit
<1>2. ClientInv
  <2>1. <<"config">> \in Stacks
    BY DEF Stacks, Nested, Steps
  <2>2. /\ left = <<>> /\ tried = <<>> /\ closest = <<>> /\ best = None /\ raised = None
        /\ todo # <<>> => Head(todo) = "config"
        /\ todo \in Stacks
    BY <1>1, <2>1, EmptyStack DEF Blank
  <2>3. Types
    <3>1. results \in Reported({None} \cup Reported({None}))
      BY <1>1 DEF Blank, Reported
    <3>2. /\ tested \in [download : AnyServer \cup {None}, upload : AnyServer \cup {None}]
          /\ filter \in [servers : SUBSET Server, exclude : SUBSET Server]
          /\ servers \in [mini : BOOLEAN, ids : SUBSET AnyServer]
          /\ servers.ids \subseteq IF servers.mini THEN {Mini} ELSE Server \ Ignored
      BY <1>1 DEF Blank, NoFilter
    <3>3. url \in Urls /\ config \in BOOLEAN /\ upThreads \in {Threads, FastThreads}
      <4>1. url = 1 /\ config = FALSE /\ upThreads = Threads
        BY <1>1 DEF Blank
      <4>2. config \in BOOLEAN
        BY <4>1
      <4>3. url \in Urls /\ upThreads \in {Threads, FastThreads}
        BY <4>1 DEF Urls
      <4> QED
        BY <4>2, <4>3
    <3>4. left \in Seq(AnyServer) /\ tried \in Seq(Try) /\ closest \in Seq(Server \ Ignored)
      BY <2>2
    <3> QED
      BY <2>2, <3>1, <3>2, <3>3, <3>4 DEF Types
  <2>4. Tried
    BY <2>2 DEF Tried
  <2>5. Choice
    BY <1>1, <2>2 DEF Choice, Known, Top, Blank
  <2> QED
    BY <2>3, <2>4, <2>5 DEF ClientInv
<1>5. Round
  BY <1>1 DEF Round, Top
<1>3. CASE ProgramInit
  <2>1. ByProgram /\ ProgramInv
    BY <1>3 DEF ProgramInit, ByProgram, ProgramInv, Blank
  <2> QED
    BY <1>2, <1>5, <2>1 DEF Inv
<1>4. CASE Init
  <2>1. /\ Blank /\ todo = <<>> /\ args \in CommandLines /\ plan = <<>> /\ stmt = "options"
        /\ exit = "running"
    BY <1>4 DEF Init
  <2>2. Progress
    BY <2>1 DEF Progress, Ordered, Statements
  <2>3. Done /\ Delivered
    BY <2>1 DEF Done, Delivered
  <2>4. Measured
    BY <2>1 DEF Measured, Blank
  <2>5. Allowing
    BY <2>1 DEF Allowing, Top, Blank, Rank
  <2> QED
    BY <1>2, <1>5, <2>1, <2>2, <2>3, <2>4, <2>5 DEF Inv, ShellInv, ByProgram
<1> QED
  BY <1>3, <1>4 DEF CallersInit

\* A call is not in a round yet.
LEMMA RoundHolds ==
  ASSUME Inv, [CallersNext]_callersVars
  PROVE  Round'
<1>1. CASE ClientNext
  BY <1>1, RoundKeeps DEF Inv
<1>2. CASE UNCHANGED clientVars
  BY <1>2 DEF Inv, Round, Top, clientVars, objectVars, localVars
<1>3. CASE \E m \in Steps \ {"ping"} : Call(m)
  <2>1. PICK m \in Steps \ {"ping"} : todo' = <<m>>
    BY <1>3 DEF Call
  <2>2. Head(todo') # "ping"
    BY <2>1
  <2> QED
    BY <2>2 DEF Round, Top
<1>4. \/ ClientNext \/ UNCHANGED clientVars
      \/ \E m \in Steps \ {"ping"} : Call(m)
  <2>1. CASE ~ByProgram /\ Next
    <3>1. CASE RetrieveServers
      BY <3>1 DEF RetrieveServers, Steps
    <3>2. CASE CallMethod
      BY <3>2 DEF CallMethod, Steps
    <3> QED
      BY <2>1, <3>1, <3>2 DEF Next, Shell, Method, Options, Report, Finish, Fail, CtrlC
  <2>2. CASE ByProgram /\ ProgramNext
    BY <2>2 DEF ProgramNext, CallGetServers, CallOther, Steps
  <2>3. CASE UNCHANGED callersVars
    BY <2>3 DEF callersVars, vars
  <2> QED
    BY <2>1, <2>2, <2>3 DEF CallersNext
<1> QED
  BY <1>1, <1>2, <1>3, <1>4

\* Every step keeps the invariant.
LEMMA NextInv ==
  ASSUME Inv, [CallersNext]_callersVars
  PROVE  Inv'
<1>1. CASE ~ByProgram /\ Next
  <2>1. ClientInv /\ ShellInv
    BY <1>1 DEF Inv
  <2>2. ClientInv' /\ ShellInv'
    BY <1>1, <2>1, ShellKeeps, MethodKeeps, EndKeeps DEF Next
  <2> QED
    BY <2>2, RoundHolds DEF Inv, ShellInv, Progress, ByProgram
<1>2. CASE ByProgram /\ ProgramNext
  <2>1. ClientInv' /\ ProgramInv'
    BY <1>2, ProgramKeeps DEF Inv
  <2> QED
    BY <1>2, <2>1, RoundHolds DEF Inv, ByProgram, ProgramNext, shellVars
<1>3. CASE UNCHANGED callersVars
  <2>1. UNCHANGED <<todo, raised, config, upThreads, servers, closest, best, results>>
    BY <1>3 DEF callersVars, vars, clientVars, objectVars
  <2>2. UNCHANGED <<url, filter, left, tried, got, tested>>
    BY <1>3 DEF callersVars, vars, clientVars, localVars, historyVars
  <2>3. UNCHANGED <<args, plan, stmt, shown, exit>>
    BY <1>3 DEF callersVars, vars, shellVars
  <2>4. ClientInv'
    BY <2>1, <2>2
    DEF Inv, ClientInv, Types, Tried, IsFastest, Choice, Known, Top, Urls
  <2>5. ProgramInv => ProgramInv'
    BY <2>1, <2>2, <2>3 DEF ProgramInv
  <2>6. ShellInv => (Progress /\ Done /\ Measured)'
    BY <2>1, <2>2, <2>3
    DEF ShellInv, Progress, Ordered, Asked, Done, Pending, Has, Measured, Posted
  <2>7. ShellInv => (Allowing /\ Delivered)'
    BY <2>1, <2>2, <2>3
    DEF ShellInv, Allowing, Allowed, ArgsFilter, Top, Delivered, EndsInOptions
  <2> QED
    BY <2>3, <2>4, <2>5, <2>6, <2>7, RoundHolds DEF Inv, ShellInv, ByProgram
<1> QED
  BY <1>1, <1>2, <1>3 DEF CallersNext

(* The object keeps what its methods need, in any order of calls and with  *)
(* any request failing, and shell() has done what lies behind it           *)
(* (speedtest.py:1105 to 1501, 1801 to 1996).                              *)
THEOREM Invariant == CallersSpec => []Inv
BY InitInv, NextInv, PTL DEF CallersSpec

-----------------------------------------------------------------------------
(* The values that the object's attributes and the locals of its methods   *)
(* take; above all, an ignored server never gets into the lists.           *)
THEOREM TypeCorrect == CallersSpec => []TypeOK
<1>1. Inv => TypeOK
  <2> SUFFICES ASSUME Types
               PROVE  TypeOK
    BY DEF Inv, ClientInv
  <2>1. todo \in Seq(Steps)
    BY DEF Types, Stacks
  <2>2. tested \in [{"download", "upload"} -> AnyServer \cup {None}]
    BY DEF Types
  <2> QED
    BY <2>1, <2>2 DEF Types, TypeOK, Steps, Reported
<1> QED
  BY <1>1, Invariant, PTL

(* Whichever methods a caller calls in whichever order, and whatever       *)
(* breaks them off, the server and its latency change only together, and   *)
(* at the end of a whole round (speedtest.py:1415 to 1501).                *)
THEOREM WholeRounds == CallersSpec => WholeRound
<1>1. Inv /\ [CallersNext]_callersVars => [RoundEnds]_Named
  <2> SUFFICES ASSUME Inv, [CallersNext]_callersVars, Named' # Named
               PROVE  RoundEnds
    OBVIOUS
  <2>1. ClientNext \/ UNCHANGED <<best, results>>
    <3>1. UNCHANGED clientVars \/ UNCHANGED objectVars => UNCHANGED <<best, results>>
      BY DEF clientVars, objectVars
    <3>2. CASE ~ByProgram /\ Next
      BY <3>1, <3>2
      DEF Next, Shell, Method, Options, RetrieveServers, CallMethod, Report, Finish, Fail, CtrlC
    <3>3. CASE ByProgram /\ ProgramNext
      BY <3>1, <3>3 DEF ProgramNext, CallGetServers, CallOther
    <3>4. CASE UNCHANGED callersVars
      BY <3>1, <3>4 DEF callersVars, vars
    <3> QED
      BY <3>2, <3>3, <3>4 DEF CallersNext
  <2>2. ClientNext
    BY <2>1 DEF Named
  <2> QED
    BY <2>2, Names DEF Inv
<1> QED
  BY <1>1, Invariant, PTL DEF CallersSpec, WholeRound

(* shell() measures only against a server that its command line allows,    *)
(* although get_closest_servers may retrieve a list without the arguments. *)
THEOREM OnlyAllowed == CallersSpec => []ChosenAllowed
<1>1. Inv => ChosenAllowed
  <2> SUFFICES ASSUME ClientInv, results.server \in Server,
                      IF ByProgram THEN ProgramInv ELSE ShellInv
               PROVE  /\ results.server \notin args.exclude \cup Ignored
                      /\ args.server # {} => results.server \in args.server
                      /\ ~ args.mini
    BY DEF Inv, ChosenAllowed
  <2>1. best = results.server /\ best # None /\ best # Mini
    BY DEF ClientInv, Choice
  <2>2. CASE ByProgram
    BY <2>1, <2>2 DEF ProgramInv, Defaults
  <2>3. CASE ~ByProgram
    <3>1. args.mini \in BOOLEAN /\ args.list \in BOOLEAN
      BY <2>3 DEF ShellInv, Progress, CommandLines
    <3> QED
      BY <2>1, <2>3, <3>1 DEF ShellInv, Allowing, Allowed
  <2> QED
    BY <2>2, <2>3
<1> QED
  BY <1>1, Invariant, PTL

(* The rates and the link that shell() reports belong to the server that   *)
(* it names, in every form of the output.                                  *)
THEOREM OneServerNamed == CallersSpec => []OneServerInShell
<1>1. Inv => OneServerInShell
  BY DEF Inv, ClientInv, Choice, ShellInv, Measured, OneServerInShell, OneServer
<1> QED
  BY <1>1, Invariant, PTL

(* The exit code 0 of main() comes only with every measurement made that   *)
(* was not switched off.                                                   *)
THEOREM SuccessDelivers == CallersSpec => []Delivered
<1>1. Inv => Delivered
  BY DEF Inv, ShellInv, ByProgram, Delivered
<1> QED
  BY <1>1, Invariant, PTL
=============================================================================
