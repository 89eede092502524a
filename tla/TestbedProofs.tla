--------------------------- MODULE TestbedProofs ---------------------------
(***************************************************************************)
(* What scripts and users may rely on, for every value of the constants.   *)
(***************************************************************************)
EXTENDS TestbedUser, SequenceTheorems, FiniteSetTheorems, WellFoundedInduction, TLAPS

-----------------------------------------------------------------------------
(* Sequences put together from sequences.                                  *)

\* A set of numbers that is not empty has a least one.
LEMMA NatLeast ==
  ASSUME NEW T \in SUBSET Nat, T # {}
  PROVE  \E n \in T : \A m \in T : n <= m
<1>1. IsWellFoundedOn(OpToRel(<, Nat), Nat)
  BY NatLessThanWellFounded
<1>2. PICK n \in T : \A m \in T : ~ (<<m, n>> \in OpToRel(<, Nat))
  BY <1>1, WFMin
<1>3. \A m \in T : ~ (m < n)
  BY <1>2 DEF OpToRel
<1> QED
  BY <1>3

JoinedUpTo(seqs, n, f) ==
  /\ DOMAIN f = 1..n
  /\ \A i \in 1..n : f[i] = IF i = 1 THEN seqs[i] ELSE f[i-1] \o seqs[i]

\* FlattenSeq builds its result from longer and longer beginnings, which all exist.
LEMMA JoinedExists ==
  ASSUME NEW S, NEW seqs \in Seq(S), NEW n \in 0..Len(seqs)
  PROVE  \E f : JoinedUpTo(seqs, n, f)
<1> DEFINE T == {m \in 0..Len(seqs) : ~ \E f : JoinedUpTo(seqs, m, f)}
<1> SUFFICES ASSUME T # {} PROVE FALSE
  OBVIOUS
<1>0. Len(seqs) \in Nat
  BY LenProperties
<1>T. T \in SUBSET Nat
  BY <1>0
<1>1. PICK m \in T : \A k \in T : m <= k
  <2> HIDE DEF T
  <2> QED
    BY <1>T, NatLeast
<1>2. CASE m = 0
  <2> DEFINE f == [i \in 1..0 |-> seqs[i]]
  <2>1. JoinedUpTo(seqs, 0, f)
    BY DEF JoinedUpTo
  <2> QED
    BY <1>1, <1>2, <2>1
<1>3. CASE m # 0
  <2>1. m - 1 \in 0..Len(seqs) /\ m - 1 \notin T
    BY <1>0, <1>1, <1>3
  <2>2. PICK f : JoinedUpTo(seqs, m - 1, f)
    BY <2>1
  <2> DEFINE g == [i \in 1..m |-> IF i = m THEN (IF m = 1 THEN seqs[m] ELSE f[m-1] \o seqs[m])
                                  ELSE f[i]]
  <2>3. \A i \in 1..m : g[i] = IF i = 1 THEN seqs[i] ELSE g[i-1] \o seqs[i]
    <3> SUFFICES ASSUME NEW i \in 1..m
                 PROVE  g[i] = IF i = 1 THEN seqs[i] ELSE g[i-1] \o seqs[i]
      OBVIOUS
    <3>1. CASE i = m
      <4>1. i # 1 => g[i-1] = f[m-1]
        BY <3>1, <1>0, <1>3
      <4> QED
        BY <3>1, <4>1
    <3>2. CASE i # m
      <4>1. i \in 1..(m-1) /\ (i # 1 => i-1 \in 1..m /\ i-1 # m)
        BY <3>2, <1>0, <1>3
      <4>2. g[i] = f[i] /\ (i # 1 => g[i-1] = f[i-1])
        BY <4>1, <3>2
      <4>3. f[i] = IF i = 1 THEN seqs[i] ELSE f[i-1] \o seqs[i]
        BY <4>1, <2>2 DEF JoinedUpTo
      <4> QED
        BY <4>2, <4>3
    <3> QED
      BY <3>1, <3>2
  <2>4. JoinedUpTo(seqs, m, g)
    BY <2>3 DEF JoinedUpTo
  <2> QED
    BY <1>1, <2>4
<1> QED
  BY <1>2, <1>3

\* The last of these beginnings is the result.
LEMMA FlattenIs ==
  ASSUME NEW S, NEW seqs \in Seq(S), Len(seqs) # 0
  PROVE  \E f : JoinedUpTo(seqs, Len(seqs), f) /\ FlattenSeq(seqs) = f[Len(seqs)]
<1>0. Len(seqs) \in Nat
  BY LenProperties
<1> DEFINE Flat(f) == [i \in 1..Len(seqs) |-> IF i = 1 THEN seqs[i] ELSE f[i-1] \o seqs[i]]
<1> DEFINE F == CHOOSE f : f = Flat(f)
<1>1. PICK f0 : JoinedUpTo(seqs, Len(seqs), f0)
  BY <1>0, JoinedExists
<1>2. [i \in 1..Len(seqs) |-> f0[i]] = Flat([i \in 1..Len(seqs) |-> f0[i]])
  <2> DEFINE h == [i \in 1..Len(seqs) |-> f0[i]]
  <2> SUFFICES \A i \in 1..Len(seqs) : h[i] = IF i = 1 THEN seqs[i] ELSE h[i-1] \o seqs[i]
    OBVIOUS
  <2> TAKE i \in 1..Len(seqs)
  <2>1. h[i] = f0[i] /\ (i # 1 => h[i-1] = f0[i-1])
    BY <1>0
  <2> QED
    BY <2>1, <1>1 DEF JoinedUpTo
<1>3. F = Flat(F)
  BY <1>2
<1>4. FlattenSeq(seqs) = F[Len(seqs)]
  BY DEF FlattenSeq, F
<1> HIDE DEF F
<1>5. JoinedUpTo(seqs, Len(seqs), F)
  BY <1>3 DEF JoinedUpTo
<1> QED
  BY <1>4, <1>5

\* A set of sequences that holds the empty one and any two of its own joined.
Closed(G) == <<>> \in G /\ \A p, q \in G : p \o q \in G

\* What is put together from sequences of a closed set is in it.
LEMMA Flattened ==
  ASSUME NEW G, Closed(G), NEW seqs \in Seq(G)
  PROVE  FlattenSeq(seqs) \in G
<1>0. Len(seqs) \in Nat /\ \A i \in 1..Len(seqs) : seqs[i] \in G
  BY LenProperties, ElementOfSeq
<1>1. CASE Len(seqs) = 0
  BY <1>1, EmptySeq DEF FlattenSeq, Closed
<1>2. CASE Len(seqs) # 0
  <2>1. PICK f : JoinedUpTo(seqs, Len(seqs), f) /\ FlattenSeq(seqs) = f[Len(seqs)]
    BY <1>2, FlattenIs
  <2>2. \A i \in 1..Len(seqs) : f[i] = IF i = 1 THEN seqs[i] ELSE f[i-1] \o seqs[i]
    BY <2>1 DEF JoinedUpTo
  <2>3. \A i \in 1..Len(seqs) : f[i] \in G
    <3> DEFINE T == {m \in 1..Len(seqs) : f[m] \notin G}
    <3> SUFFICES ASSUME T # {} PROVE FALSE
      OBVIOUS
    <3>0. T \in SUBSET Nat
      BY <1>0
    <3>1. PICK m \in T : \A k \in T : m <= k
      <4> HIDE DEF T
      <4> QED
        BY <3>0, NatLeast
    <3>2. CASE m = 1
      BY <3>1, <3>2, <2>2, <1>0
    <3>3. CASE m # 1
      <4>1. m - 1 \in 1..Len(seqs) /\ m - 1 \notin T
        BY <3>1, <3>3, <1>0
      <4> QED
        BY <3>1, <3>3, <4>1, <2>2, <1>0 DEF Closed
    <3> QED
      BY <3>2, <3>3
  <2> QED
    BY <2>1, <2>3, <1>0, <1>2
<1> QED
  BY <1>1, <1>2

\* The same for sequences with a number each, which are added up.
Additive(G) ==
  /\ <<<<>>, 0>> \in G
  /\ \A p, q : \A m, n \in Nat : <<p, m>> \in G /\ <<q, n>> \in G => <<p \o q, m + n>> \in G

\* As many times the number as there are sequences.
LEMMA FlattenedSum ==
  ASSUME NEW G, Additive(G), NEW S, NEW seqs \in Seq(S), NEW k \in Nat,
         \A i \in 1..Len(seqs) : <<seqs[i], k>> \in G
  PROVE  <<FlattenSeq(seqs), Len(seqs) * k>> \in G
<1>0. Len(seqs) \in Nat
  BY LenProperties
<1>1. CASE Len(seqs) = 0
  <2>1. FlattenSeq(seqs) = <<>> /\ Len(seqs) * k = 0
    BY <1>1, EmptySeq DEF FlattenSeq
  <2> QED
    BY <2>1 DEF Additive
<1>2. CASE Len(seqs) # 0
  <2>1. PICK f : JoinedUpTo(seqs, Len(seqs), f) /\ FlattenSeq(seqs) = f[Len(seqs)]
    BY <1>2, FlattenIs
  <2>2. \A i \in 1..Len(seqs) : f[i] = IF i = 1 THEN seqs[i] ELSE f[i-1] \o seqs[i]
    BY <2>1 DEF JoinedUpTo
  <2>3. \A i \in 1..Len(seqs) : <<f[i], i * k>> \in G
    <3> DEFINE T == {m \in 1..Len(seqs) : <<f[m], m * k>> \notin G}
    <3> SUFFICES ASSUME T # {} PROVE FALSE
      OBVIOUS
    <3>0. T \in SUBSET Nat
      BY <1>0
    <3>1. PICK m \in T : \A j \in T : m <= j
      <4> HIDE DEF T
      <4> QED
        BY <3>0, NatLeast
    <3>2. CASE m = 1
      <4>1. f[m] = seqs[m] /\ m * k = k
        BY <3>1, <3>2, <2>2
      <4> QED
        BY <3>1, <4>1
    <3>3. CASE m # 1
      <4>1. m \in 1..Len(seqs) /\ m - 1 \in 1..Len(seqs) /\ m - 1 \notin T
        BY <3>1, <3>3, <1>0
      <4>2. PICK sum \in Nat : sum = (m - 1) * k
        BY <4>1, <1>0
      <4>3. <<f[m-1], sum>> \in G /\ <<seqs[m], k>> \in G
        BY <4>1, <4>2
      <4>4. <<f[m-1] \o seqs[m], sum + k>> \in G
        BY <4>3 DEF Additive
      <4>5. sum + k = m * k
        BY <4>1, <4>2, <1>0
      <4>6. f[m] = f[m-1] \o seqs[m]
        BY <4>1, <3>3, <2>2
      <4> QED
        BY <3>1, <4>4, <4>5, <4>6
    <3> QED
      BY <3>2, <3>3
  <2>4. <<f[Len(seqs)], Len(seqs) * k>> \in G
    BY <2>3, <1>0, <1>2
  <2> QED
    BY <2>1, <2>4
<1> QED
  BY <1>1, <1>2

-----------------------------------------------------------------------------
(* Commands one after another, each of which takes a step of R: t are the  *)
(* states of S before, between and after them.                             *)

Trace(R, p, a, b, t) ==
  /\ Len(t) = Len(p) + 1 /\ t[1] = a /\ t[Len(t)] = b
  /\ \A i \in 1..Len(p) : <<p[i], t[i], t[i + 1]>> \in R

Walks(S, R, p, a, b) == \E t \in Seq(S) : Trace(R, p, a, b, t)

\* No command leads to where one is.
LEMMA WalksNowhere ==
  ASSUME NEW S, NEW R, NEW a \in S
  PROVE  Walks(S, R, <<>>, a, a)
<1>1. <<a>> \in Seq(S) /\ Trace(R, <<>>, a, a, <<a>>)
  BY DEF Trace
<1> QED
  BY <1>1 DEF Walks

\* And nowhere else.
LEMMA StaysThere ==
  ASSUME NEW S, NEW R, NEW a, NEW b, Walks(S, R, <<>>, a, b)
  PROVE  a = b
<1>1. PICK t \in Seq(S) : Trace(R, <<>>, a, b, t)
  BY DEF Walks
<1>2. Len(<<>>) = 0
  BY EmptySeq
<1> QED
  BY <1>1, <1>2 DEF Trace

\* One command.
LEMMA WalksByOne ==
  ASSUME NEW S, NEW R, NEW c, NEW a \in S, NEW b \in S, <<c, a, b>> \in R
  PROVE  Walks(S, R, <<c>>, a, b)
<1> DEFINE t == <<a, b>>
<1>1. t \in Seq(S)
  OBVIOUS
<1>2. Len(t) = 2 /\ t[1] = a /\ t[2] = b /\ Len(<<c>>) = 1 /\ <<c>>[1] = c
  OBVIOUS
<1>3. Trace(R, <<c>>, a, b, t)
  <2> HIDE DEF t
  <2> QED
    BY <1>2 DEF Trace
<1> QED
  BY <1>1, <1>3 DEF Walks

\* The first command takes a step, and the others go on from where it leads.
LEMMA WalksOn ==
  ASSUME NEW S, NEW R, NEW C, NEW p \in Seq(C), p # <<>>, NEW a, NEW b, Walks(S, R, p, a, b)
  PROVE  \E m \in S : <<Head(p), a, m>> \in R /\ Walks(S, R, Tail(p), m, b)
<1>1. PICK t \in Seq(S) : Trace(R, p, a, b, t)
  BY DEF Walks
<1>2. /\ Len(p) \in Nat /\ Len(p) >= 1 /\ Head(p) = p[1]
      /\ Len(Tail(p)) = Len(p) - 1 /\ \A i \in 1..(Len(p) - 1) : Tail(p)[i] = p[i + 1]
  <2>1. Len(p) \in Nat \ {0}
    BY EmptySeq
  <2> QED
    BY <2>1, HeadTailProperties
<1>3. /\ Len(t) = Len(p) + 1 /\ t # <<>> /\ Tail(t) \in Seq(S)
      /\ Len(Tail(t)) = Len(p) /\ \A i \in 1..Len(p) : Tail(t)[i] = t[i + 1]
  <2>1. Len(t) = Len(p) + 1
    BY <1>1 DEF Trace
  <2>2. t # <<>>
    BY <2>1, <1>2
  <2> QED
    BY <2>1, <2>2, <1>2, HeadTailProperties
<1>4. <<p[1], a, t[2]>> \in R /\ t[Len(p) + 1] = b /\ t[2] \in S
  <2>1. t[1] = a /\ t[Len(p) + 1] = b /\ <<p[1], t[1], t[1 + 1]>> \in R
    BY <1>1, <1>2 DEF Trace
  <2>2. t[2] \in S
    BY <1>2, <1>3, ElementOfSeq
  <2> QED
    BY <2>1, <2>2
<1>5. Trace(R, Tail(p), t[2], b, Tail(t))
  <2>1. Tail(t)[1] = t[2] /\ Tail(t)[Len(p)] = t[Len(p) + 1]
    BY <1>2, <1>3
  <2>2. ASSUME NEW i \in 1..Len(Tail(p))
        PROVE  <<Tail(p)[i], Tail(t)[i], Tail(t)[i + 1]>> \in R
    <3>1. i + 1 \in 1..Len(p) /\ i \in 1..Len(p)
      BY <1>2
    <3>2. Tail(p)[i] = p[i + 1] /\ Tail(t)[i] = t[i + 1] /\ Tail(t)[i + 1] = t[i + 1 + 1]
      BY <1>2, <1>3, <3>1
    <3>3. <<p[i + 1], t[i + 1], t[i + 1 + 1]>> \in R
      BY <1>1, <3>1 DEF Trace
    <3> QED
      BY <3>2, <3>3
  <2> QED
    BY <1>2, <1>3, <1>4, <2>1, <2>2 DEF Trace
<1> QED
  BY <1>2, <1>3, <1>4, <1>5 DEF Walks

\* Commands behind one another go on from where the first ones lead.
LEMMA WalksFurther ==
  ASSUME NEW S, NEW R, NEW C, NEW p \in Seq(C), NEW q \in Seq(C),
         NEW a, NEW b, NEW c, Walks(S, R, p, a, b), Walks(S, R, q, b, c)
  PROVE  Walks(S, R, p \o q, a, c)
<1>1. PICK t \in Seq(S) : Trace(R, p, a, b, t)
  BY DEF Walks
<1>2. PICK u \in Seq(S) : Trace(R, q, b, c, u)
  BY DEF Walks
<1>0. PICK m \in Nat : m = Len(p)
  BY LenProperties
<1>n. PICK n \in Nat : n = Len(q)
  BY LenProperties
<1>t. /\ Len(t) = m + 1 /\ t[1] = a /\ t[m + 1] = b
      /\ \A i \in 1..m : <<p[i], t[i], t[i + 1]>> \in R
  BY <1>0, <1>1 DEF Trace
<1>u. /\ Len(u) = n + 1 /\ u[1] = b /\ u[n + 1] = c
      /\ \A i \in 1..n : <<q[i], u[i], u[i + 1]>> \in R
  BY <1>n, <1>2 DEF Trace
<1>c. /\ Len(p \o q) = m + n
      /\ \A i \in 1..(m + n) : (p \o q)[i] = IF i <= m THEN p[i] ELSE q[i - m]
  BY <1>0, <1>n, ConcatProperties
<1> DEFINE w == [i \in 1..(m + n + 1) |-> IF i <= m THEN t[i] ELSE u[i - m]]
<1>3. w \in Seq(S)
  <2>1. ASSUME NEW i \in 1..(m + n + 1) PROVE (IF i <= m THEN t[i] ELSE u[i - m]) \in S
    <3>1. i <= m => i \in 1..Len(t)
      BY <1>t
    <3>2. ~ (i <= m) => i - m \in 1..Len(u)
      BY <1>u
    <3> QED
      BY <3>1, <3>2, ElementOfSeq
  <2>2. w \in [1..(m + n + 1) -> S]
    BY <2>1
  <2> HIDE DEF w
  <2> QED
    BY <2>2, SeqDef
<1>4. Len(w) = m + n + 1 /\ w[1] = a /\ w[m + n + 1] = c
  <2>1. w[1] = a
    BY <1>t, <1>u
  <2>2. w[m + n + 1] = c
    BY <1>u
  <2> QED
    BY <2>1, <2>2
<1>5. ASSUME NEW i \in 1..(m + n)
      PROVE  <<(p \o q)[i], w[i], w[i + 1]>> \in R
  <2>1. CASE i < m
    <3>1. w[i] = t[i] /\ w[i + 1] = t[i + 1] /\ (p \o q)[i] = p[i] /\ i \in 1..m
      BY <1>c, <2>1
    <3> HIDE DEF w
    <3> QED
      BY <1>t, <3>1
  <2>2. CASE i = m
    <3>1. w[i] = t[i] /\ w[i + 1] = u[1] /\ (p \o q)[i] = p[i] /\ i \in 1..m
      BY <1>c, <2>2
    <3> HIDE DEF w
    <3>2. <<p[i], t[i], t[i + 1]>> \in R
      BY <1>t, <3>1
    <3>3. t[i + 1] = u[1]
      BY <1>t, <1>u, <2>2
    <3> QED
      BY <3>1, <3>2, <3>3
  <2>3. CASE i > m
    <3>1. i - m \in 1..n /\ i + 1 - m = i - m + 1
      BY <2>3
    <3>2. w[i] = u[i - m]
      BY <2>3
    <3>4. w[i + 1] = u[i - m + 1]
      <4>1. i + 1 \in 1..(m + n + 1) /\ ~ (i + 1 <= m)
        BY <2>3
      <4>2. w[i + 1] = u[i + 1 - m]
        BY <4>1
      <4> QED
        BY <3>1, <4>2
    <3>5. (p \o q)[i] = q[i - m]
      BY <1>c, <2>3
    <3> HIDE DEF w
    <3> QED
      BY <1>u, <3>1, <3>2, <3>4, <3>5
  <2>4. i < m \/ i = m \/ i > m
    OBVIOUS
  <2> HIDE DEF w
  <2> QED
    BY <2>1, <2>2, <2>3, <2>4
<1>6. Trace(R, p \o q, a, c, w)
  <2> HIDE DEF w
  <2> QED
    BY <1>c, <1>4, <1>5 DEF Trace
<1> QED
  BY <1>3, <1>6 DEF Walks

-----------------------------------------------------------------------------
(* Commands and containers.                                                *)

Ways == {"docker", "space", "none"}
Apps == {"wireshark", "qupzilla", "iperf3"}
Orbital == {"GEO", "LEO"}
Labels == [kind : Kinds, orbit : Orbital, level : Levels, plr : Losses \cup {None}]

Order(ops, places, args) == [op : ops, at : places, arg : args]

Plain == {"compose down", "compose up", "await hosts", "await answer", "start", "stop",
          "await running", "gui route", "await vpn", "fresh", "speedtest"}

Orders == UNION {
  Order(Plain, {""}, {""}), Order({"stop", "start"}, {"window"}, {""}),
  Order({"scenario"}, {""}, {"delay", "attenuation"}),
  Order({"route delete", "route add"}, Routed, {""}), Order({"loss"}, Lossy, Losses),
  Order({"configure qpep", "pkill main"}, Proxied, {""}),
  Order({"go run"}, Proxied, Programs), Order({"pepsal"}, Lossy, {""}),
  Order({"openvpn"}, {"ws-st"}, {""}),
  Order({"app", "pkill app"}, {"satellite", "ws-st", "ws-gw"}, Apps),
  Order({"iperf", "browse"}, {"ws-st"}, STRING), Order({"record"}, {""}, Labels),
  Order({"raise"}, {""}, {"AttributeError"}), Order({"check link"}, {""}, Losses)}

Beds ==
  [up : BOOLEAN, scenario : {"default", "delay", "attenuation"}, hosts : SUBSET Hosts,
   started : BOOLEAN, running : SUBSET Hosts, route : [Routed -> Ways], gui : BOOLEAN,
   loss : [Lossy -> Losses \cup {None}], tproxy : SUBSET Proxied,
   qpep : [Proxied -> Programs \cup {None}], building : [Proxied -> Seq(Programs)],
   pepsal : SUBSET Lossy, vpn : {"off", "launched"}, apps : SUBSET Apps]

Settings ==
  [orbit : Orbital, loss : [Lossy -> Losses \cup {None}], proxied : SUBSET Proxied,
   qpep : [Proxied -> Programs \cup {None}], pepsal : SUBSET Lossy,
   vpn : {"off", "launched"}]

Samples == [of : STRING, ok : BOOLEAN, setting : Settings \cup {None}]

Typed ==
  /\ bed \in Beds /\ bed.running \subseteq bed.hosts
  /\ todo \in Seq(Orders)
  /\ bench \in Seq(Samples) /\ results \in Seq([label : Labels, batch : Seq(Samples)])
  /\ starts \in Nat /\ (~ ByUser => last = Nothing)
-----------------------------------------------------------------------------
(* What is known of the testbed while a script is under way: whether it is *)
(* known at all, whether all components run, whether somebody may stop     *)
(* them, the network that traffic meets, the routes, and the networks that *)
(* the benchmark has met.                                                  *)

Known ==
  [sure : BOOLEAN, running : BOOLEAN, loose : BOOLEAN, net : Settings,
   route : [Routed -> Ways], met : SUBSET Settings]

Untouched == Promised("Plain", "GEO", 0, None)

\* A network after a command.
Change(c, n) ==
  CASE c.op = "scenario" -> [n EXCEPT !.orbit = IF c.arg = "delay" THEN "LEO" ELSE "GEO"]
    [] c.op = "loss" -> [n EXCEPT !.loss = [@ EXCEPT ![c.at] = c.arg]]
    [] c.op = "configure qpep" -> [n EXCEPT !.proxied = @ \cup {c.at}]
    [] c.op = "go run" -> [n EXCEPT !.qpep = [@ EXCEPT ![c.at] = c.arg]]
    [] c.op = "pepsal" -> [n EXCEPT !.pepsal = @ \cup {c.at}]
    [] c.op = "openvpn" -> [n EXCEPT !.vpn = "launched"]
    [] OTHER -> n

\* Commands after which nothing is known of it.
Doubtful(c, a) ==
  \/ c.op \in {"stop", "pkill main"}
  \/ c.op = "loss" /\ ~ a.running
  \/ c.op = "go run" /\ (a.net.qpep[c.at] # None \/ a.net.proxied = {})

Turned(c, route) ==
  CASE c.op = "route delete" -> [route EXCEPT ![c.at] = "none"]
    [] c.op = "route add" -> [route EXCEPT ![c.at] = IF @ = "none" THEN "space" ELSE @]
    [] OTHER -> route

Met(c, a) ==
  CASE c.op = "fresh" -> {}
    [] c.op \in {"iperf", "browse"} ->
         IF a.sure THEN a.met \cup {a.net} ELSE Settings
    [] OTHER -> a.met

Blank(met) ==
  [sure |-> TRUE, running |-> FALSE, loose |-> FALSE, net |-> Untouched,
   route |-> [c \in Routed |-> "docker"], met |-> met]

Effect(c, a) ==
  IF c.op = "compose down" THEN Blank(a.met)
  ELSE [sure |-> a.sure /\ ~ Doubtful(c, a),
        running |-> c.op = "await running" \/ (a.running /\ c.op # "stop"),
        loose |-> a.loose, net |-> Change(c, a.net), route |-> Turned(c, a.route),
        met |-> Met(c, a)]

\* A command that a script may have at this point.
Allowed(c, a) ==
  /\ c.op = "route add" /\ c.at = "terminal" => a.running \/ a.loose
  /\ c.op = "stop" => a.loose
  /\ c.op = "record" =>
       a.met \subseteq {Promised(c.arg.kind, c.arg.orbit, c.arg.level, c.arg.plr)}

Effects ==
  {x \in Orders \X Known \X Known : Allowed(x[1], x[2]) /\ x[3] = Effect(x[1], x[2])}

\* Commands p are allowed one after another and lead from a to b.
Leads(p, a, b) == Walks(Known, Effects, p, a, b)

Takes(p, A, B) ==
  /\ p \in Seq(Orders) /\ A \subseteq Known /\ B \subseteq Known
  /\ \A a \in A : \E b \in B : Leads(p, a, b)

-----------------------------------------------------------------------------
(* Networks.                                                               *)

Pair(client, gateway) == [c \in Proxied |-> IF c = "terminal" THEN client ELSE gateway]
Lost(plr) == [c \in Lossy |-> IF c = "gateway" THEN plr ELSE None]

Net(orbit, plr, proxied, qpep, pepsal, vpn) ==
  [orbit |-> orbit, loss |-> Lost(plr), proxied |-> proxied, qpep |-> qpep,
   pepsal |-> pepsal, vpn |-> vpn]

Rates == Losses \cup {None}
Options == Programs \cup {None}

LEMMA NetTyped ==
  ASSUME NEW orbit \in Orbital, NEW plr \in Rates, NEW proxied \in SUBSET Proxied,
         NEW client \in Options, NEW gateway \in Options, NEW pepsal \in SUBSET Lossy,
         NEW vpn \in {"off", "launched"}
  PROVE  Net(orbit, plr, proxied, Pair(client, gateway), pepsal, vpn) \in Settings
<1>1. Lost(plr) \in [Lossy -> Losses \cup {None}]
  BY DEF Lost, Rates
<1>2. Pair(client, gateway) \in [Proxied -> Programs \cup {None}]
  BY DEF Pair, Options
<1> QED
  BY <1>1, <1>2 DEF Net, Settings

\* The network of each kind of scenario, spelled out.
LEMMA Promises ==
  ASSUME NEW orbit, NEW level, NEW plr
  PROVE  /\ Promised("Plain", orbit, level, plr) = Net(orbit, plr, {}, Pair(None, None), {}, "off")
         /\ Promised("OpenVPN", orbit, level, plr) = Net(orbit, plr, {}, Pair(None, None), {}, "launched")
         /\ Promised("QPEP", orbit, level, plr) =
              Net(orbit, plr, Proxied, Pair(<<>>, <<>>), {}, "off")
         /\ Promised("QPEP Ack", orbit, level, plr) =
              Net(orbit, plr, Proxied, Pair(<<"acks", level>>, <<"decimation">>), {}, "off")
         /\ Promised("QPEP Congestion", orbit, level, plr) =
              Net(orbit, plr, Proxied,
                  Pair(<<"congestion", level>>, <<"congestion", level>>), {}, "off")
         /\ Promised("PEPSal", orbit, level, plr) =
              Net(orbit, plr, {}, Pair(None, None), {"terminal"}, "off")
         /\ Promised("Distributed PEPsal", orbit, level, plr) =
              Net(orbit, plr, {}, Pair(None, None), Lossy, "off")
<1>1. Promised("Plain", orbit, level, plr) = Net(orbit, plr, {}, Pair(None, None), {}, "off")
  BY DEF Promised, Net, Pair, Lost
<1>2. Promised("OpenVPN", orbit, level, plr) = Net(orbit, plr, {}, Pair(None, None), {}, "launched")
  BY DEF Promised, Net, Pair, Lost
<1>3. Promised("QPEP", orbit, level, plr) = Net(orbit, plr, Proxied, Pair(<<>>, <<>>), {}, "off")
  BY DEF Promised, Net, Pair, Lost
<1>4. Promised("QPEP Ack", orbit, level, plr) =
        Net(orbit, plr, Proxied, Pair(<<"acks", level>>, <<"decimation">>), {}, "off")
  BY DEF Promised, Net, Pair, Lost
<1>5. Promised("QPEP Congestion", orbit, level, plr) =
        Net(orbit, plr, Proxied, Pair(<<"congestion", level>>, <<"congestion", level>>), {}, "off")
  BY DEF Promised, Net, Pair, Lost
<1>6. Promised("PEPSal", orbit, level, plr) =
        Net(orbit, plr, {}, Pair(None, None), {"terminal"}, "off")
  BY DEF Promised, Net, Pair, Lost
<1>7. Promised("Distributed PEPsal", orbit, level, plr) =
        Net(orbit, plr, {}, Pair(None, None), Lossy, "off")
  BY DEF Promised, Net, Pair, Lost
<1> QED
  BY <1>1, <1>2, <1>3, <1>4, <1>5, <1>6, <1>7

LEMMA OptionsTyped ==
  /\ <<>> \in Options /\ <<"decimation">> \in Options /\ None \in Options
  /\ \A level \in Levels : <<"acks", level>> \in Options /\ <<"congestion", level>> \in Options
BY DEF Options, Programs

LEMMA PromisedTyped ==
  ASSUME NEW kind \in Kinds, NEW orbit \in Orbital, NEW level \in Levels, NEW plr \in Rates
  PROVE  Promised(kind, orbit, level, plr) \in Settings
<1>1. /\ {} \in SUBSET Proxied /\ Proxied \in SUBSET Proxied
      /\ {} \in SUBSET Lossy /\ Lossy \in SUBSET Lossy /\ {"terminal"} \in SUBSET Lossy
  BY DEF Lossy
<1>2. CASE kind = "Plain"
  <2>1. Net(orbit, plr, {}, Pair(None, None), {}, "off") \in Settings
    BY <1>1, OptionsTyped, NetTyped
  <2> QED
    BY <1>2, <2>1, Promises
<1>3. CASE kind = "OpenVPN"
  <2>1. Net(orbit, plr, {}, Pair(None, None), {}, "launched") \in Settings
    BY <1>1, OptionsTyped, NetTyped
  <2> QED
    BY <1>3, <2>1, Promises
<1>4. CASE kind = "QPEP"
  <2>1. Net(orbit, plr, Proxied, Pair(<<>>, <<>>), {}, "off") \in Settings
    BY <1>1, OptionsTyped, NetTyped
  <2> QED
    BY <1>4, <2>1, Promises
<1>5. CASE kind = "QPEP Ack"
  <2>1. Net(orbit, plr, Proxied, Pair(<<"acks", level>>, <<"decimation">>), {}, "off") \in Settings
    BY <1>1, OptionsTyped, NetTyped
  <2> QED
    BY <1>5, <2>1, Promises
<1>6. CASE kind = "QPEP Congestion"
  <2>1. Net(orbit, plr, Proxied, Pair(<<"congestion", level>>, <<"congestion", level>>), {}, "off") \in Settings
    BY <1>1, OptionsTyped, NetTyped
  <2> QED
    BY <1>6, <2>1, Promises
<1>7. CASE kind = "PEPSal"
  <2>1. Net(orbit, plr, {}, Pair(None, None), {"terminal"}, "off") \in Settings
    BY <1>1, OptionsTyped, NetTyped
  <2> QED
    BY <1>7, <2>1, Promises
<1>8. CASE kind = "Distributed PEPsal"
  <2>1. Net(orbit, plr, {}, Pair(None, None), Lossy, "off") \in Settings
    BY <1>1, OptionsTyped, NetTyped
  <2> QED
    BY <1>8, <2>1, Promises
<1> QED
  BY <1>2, <1>3, <1>4, <1>5, <1>6, <1>7, <1>8 DEF Kinds

LEMMA UntouchedTyped == Untouched \in Settings
<1>1. "Plain" \in Kinds /\ "GEO" \in Orbital /\ 0 \in Levels /\ None \in Rates
  BY ExperimentsAssumption DEF Kinds, Orbital, Rates
<1> QED
  BY <1>1, PromisedTyped DEF Untouched
-----------------------------------------------------------------------------
(* Single commands.                                                        *)

\* Where a command goes and what its argument is, by its name.
LEMMA OrderCases ==
  ASSUME NEW c \in Orders
  PROVE  /\ c.op = "scenario" => c.arg \in {"delay", "attenuation"}
         /\ c.op \in {"route delete", "route add"} => c.at \in Routed
         /\ c.op = "loss" => c.at \in Lossy /\ c.arg \in Losses
         /\ c.op \in {"configure qpep", "pkill main", "go run"} => c.at \in Proxied
         /\ c.op = "go run" => c.arg \in Programs
         /\ c.op = "pepsal" => c.at \in Lossy
         /\ c.op \in {"app", "pkill app"} => c.arg \in Apps
         /\ c.op \in {"iperf", "browse"} => c.arg \in STRING
         /\ c.op = "record" => c.arg \in Labels
         /\ c.op = "raise" => c.arg = "AttributeError"
<1>1. \/ c \in Order(Plain, {""}, {""})
      \/ c \in Order({"stop", "start"}, {"window"}, {""})
      \/ c \in Order({"scenario"}, {""}, {"delay", "attenuation"})
      \/ c \in Order({"route delete", "route add"}, Routed, {""})
      \/ c \in Order({"loss"}, Lossy, Losses)
      \/ c \in Order({"configure qpep", "pkill main"}, Proxied, {""})
      \/ c \in Order({"go run"}, Proxied, Programs)
      \/ c \in Order({"pepsal"}, Lossy, {""})
      \/ c \in Order({"openvpn"}, {"ws-st"}, {""})
      \/ c \in Order({"app", "pkill app"}, {"satellite", "ws-st", "ws-gw"}, Apps)
      \/ c \in Order({"iperf", "browse"}, {"ws-st"}, STRING)
      \/ c \in Order({"record"}, {""}, Labels)
      \/ c \in Order({"raise"}, {""}, {"AttributeError"})
      \/ c \in Order({"check link"}, {""}, Losses)
  BY DEF Orders
<1>2. CASE c \in Order(Plain, {""}, {""}) \cup Order({"stop", "start"}, {"window"}, {""})
  BY <1>2 DEF Order, Plain
<1>3. CASE c \in Order({"scenario"}, {""}, {"delay", "attenuation"})
  BY <1>3 DEF Order, Plain
<1>4. CASE c \in Order({"route delete", "route add"}, Routed, {""})
  BY <1>4 DEF Order, Plain
<1>5. CASE c \in Order({"loss"}, Lossy, Losses)
  BY <1>5 DEF Order, Plain
<1>6. CASE c \in Order({"configure qpep", "pkill main"}, Proxied, {""})
  BY <1>6 DEF Order, Plain
<1>7. CASE c \in Order({"go run"}, Proxied, Programs)
  BY <1>7 DEF Order, Plain
<1>8. CASE c \in Order({"pepsal"}, Lossy, {""})
  BY <1>8 DEF Order, Plain
<1>9. CASE c \in Order({"openvpn"}, {"ws-st"}, {""})
  BY <1>9 DEF Order, Plain
<1>10. CASE c \in Order({"app", "pkill app"}, {"satellite", "ws-st", "ws-gw"}, Apps)
  BY <1>10 DEF Order, Plain
<1>11. CASE c \in Order({"iperf", "browse"}, {"ws-st"}, STRING)
  BY <1>11 DEF Order, Plain
<1>12. CASE c \in Order({"record"}, {""}, Labels)
  BY <1>12 DEF Order, Plain
<1>13. CASE c \in Order({"raise"}, {""}, {"AttributeError"})
  BY <1>13 DEF Order, Plain
<1>14. CASE c \in Order({"check link"}, {""}, Losses)
  BY <1>14 DEF Order, Plain
<1> QED
  BY <1>1, <1>2, <1>3, <1>4, <1>5, <1>6, <1>7, <1>8, <1>9, <1>10, <1>11, <1>12, <1>13, <1>14

LEMMA ChangeTyped ==
  ASSUME NEW c \in Orders, NEW n \in Settings
  PROVE  Change(c, n) \in Settings
<1>0. /\ n.orbit \in Orbital /\ n.loss \in [Lossy -> Losses \cup {None}]
      /\ n.proxied \subseteq Proxied /\ n.qpep \in [Proxied -> Programs \cup {None}]
      /\ n.pepsal \subseteq Lossy
  BY DEF Settings
<1>1. CASE c.op = "scenario"
  BY <1>1 DEF Change, Settings, Orbital
<1>2. CASE c.op = "loss"
  <2>1. c.at \in Lossy /\ c.arg \in Losses
    BY <1>2, OrderCases
  <2>2. [n.loss EXCEPT ![c.at] = c.arg] \in [Lossy -> Losses \cup {None}]
    BY <2>1, <1>0
  <2> QED
    BY <1>2, <2>2 DEF Change, Settings
<1>3. CASE c.op = "configure qpep"
  <2>1. n.proxied \cup {c.at} \subseteq Proxied
    BY <1>3, <1>0, OrderCases
  <2> QED
    BY <1>3, <2>1 DEF Change, Settings
<1>4. CASE c.op = "go run"
  <2>1. c.at \in Proxied /\ c.arg \in Programs
    BY <1>4, OrderCases
  <2>2. [n.qpep EXCEPT ![c.at] = c.arg] \in [Proxied -> Programs \cup {None}]
    BY <2>1, <1>0
  <2> QED
    BY <1>4, <2>2 DEF Change, Settings
<1>5. CASE c.op = "pepsal"
  <2>1. n.pepsal \cup {c.at} \subseteq Lossy
    BY <1>5, <1>0, OrderCases
  <2> QED
    BY <1>5, <2>1 DEF Change, Settings
<1>6. CASE c.op = "openvpn"
  BY <1>6 DEF Change, Settings
<1>7. CASE c.op \notin {"scenario", "loss", "configure qpep", "go run", "pepsal", "openvpn"}
  BY <1>7 DEF Change
<1> QED
  BY <1>1, <1>2, <1>3, <1>4, <1>5, <1>6, <1>7

LEMMA TurnedTyped ==
  ASSUME NEW c \in Orders, NEW route \in [Routed -> Ways]
  PROVE  Turned(c, route) \in [Routed -> Ways]
<1>1. CASE c.op \in {"route delete", "route add"}
  BY <1>1, OrderCases DEF Turned, Ways
<1>2. CASE c.op \notin {"route delete", "route add"}
  BY <1>2 DEF Turned
<1> QED
  BY <1>1, <1>2

\* What is known after a command is again something that can be known.
LEMMA EffectTyped ==
  ASSUME NEW c \in Orders, NEW a \in Known
  PROVE  Effect(c, a) \in Known
<1>0. a.net \in Settings /\ a.route \in [Routed -> Ways] /\ a.met \in SUBSET Settings
  BY DEF Known
<1>1. CASE c.op = "compose down"
  <2>1. [x \in Routed |-> "docker"] \in [Routed -> Ways]
    BY DEF Ways
  <2> QED
    BY <1>0, <1>1, <2>1, UntouchedTyped DEF Effect, Blank, Known
<1>2. CASE c.op # "compose down"
  <2>1. Change(c, a.net) \in Settings
    BY <1>0, ChangeTyped
  <2>2. Turned(c, a.route) \in [Routed -> Ways]
    BY <1>0, TurnedTyped
  <2>3. Met(c, a) \in SUBSET Settings
    BY <1>0 DEF Met
  <2>4. PICK sure \in BOOLEAN : sure = (a.sure /\ ~ Doubtful(c, a))
    OBVIOUS
  <2>5. PICK running \in BOOLEAN : running = (c.op = "await running" \/ (a.running /\ c.op # "stop"))
    OBVIOUS
  <2>6. Effect(c, a) = [sure |-> sure, running |-> running, loose |-> a.loose,
                        net |-> Change(c, a.net), route |-> Turned(c, a.route), met |-> Met(c, a)]
    BY <1>2, <2>4, <2>5 DEF Effect
  <2>7. a.loose \in BOOLEAN
    BY DEF Known
  <2> QED
    BY <2>1, <2>2, <2>3, <2>6, <2>7 DEF Known
<1> QED
  BY <1>1, <1>2
-----------------------------------------------------------------------------
(* Commands one after another.                                             *)

LEMMA LeadsNowhere ==
  ASSUME NEW a \in Known
  PROVE  Leads(<<>>, a, a)
BY WalksNowhere DEF Leads

LEMMA LeadsByOne ==
  ASSUME NEW c \in Orders, NEW a \in Known, Allowed(c, a)
  PROVE  Leads(<<c>>, a, Effect(c, a))
<1>1. PICK e \in Known : e = Effect(c, a)
  BY EffectTyped
<1>2. <<c, a, e>> \in Effects
  BY <1>1 DEF Effects
<1> QED
  BY <1>1, <1>2, WalksByOne DEF Leads

\* The first command is allowed, and the others go on from where it leads.
LEMMA LeadsOn ==
  ASSUME NEW p \in Seq(Orders), p # <<>>, NEW a \in Known, NEW b \in Known, Leads(p, a, b)
  PROVE  Allowed(Head(p), a) /\ Leads(Tail(p), Effect(Head(p), a), b)
<1>1. PICK e \in Known : <<Head(p), a, e>> \in Effects /\ Leads(Tail(p), e, b)
  BY WalksOn DEF Leads
<1>2. Allowed(Head(p), a) /\ e = Effect(Head(p), a)
  BY <1>1 DEF Effects
<1> QED
  BY <1>1, <1>2

\* Commands one after another lead where the second ones lead.
LEMMA LeadsFurther ==
  ASSUME NEW p \in Seq(Orders), NEW q \in Seq(Orders),
         NEW a \in Known, NEW b \in Known, NEW c \in Known, Leads(p, a, b), Leads(q, b, c)
  PROVE  Leads(p \o q, a, c)
BY WalksFurther DEF Leads

-----------------------------------------------------------------------------
(* Commands that lead from each state of A to a state of B.                *)

LEMMA TakesNothing ==
  ASSUME NEW A, A \subseteq Known
  PROVE  Takes(<<>>, A, A)
BY LeadsNowhere DEF Takes

\* A single command, state by state.
LEMMA TakesOne ==
  ASSUME NEW c \in Orders, NEW A, NEW B, A \subseteq Known, B \subseteq Known,
         \A a \in A : Allowed(c, a) /\ Effect(c, a) \in B
  PROVE  Takes(<<c>>, A, B)
BY LeadsByOne DEF Takes

\* Commands that lead from A to B, then others from B to C.
LEMMA TakesThen ==
  ASSUME NEW p, NEW q, NEW A, NEW B, NEW C, Takes(p, A, B), Takes(q, B, C)
  PROVE  Takes(p \o q, A, C)
<1>1. p \in Seq(Orders) /\ q \in Seq(Orders) /\ A \subseteq Known /\ B \subseteq Known /\ C \subseteq Known
  BY DEF Takes
<1>2. ASSUME NEW a \in A PROVE \E c \in C : Leads(p \o q, a, c)
  <2>1. PICK b \in B : Leads(p, a, b)
    BY DEF Takes
  <2>2. PICK c \in C : Leads(q, b, c)
    BY DEF Takes
  <2> QED
    BY <1>1, <2>1, <2>2, LeadsFurther
<1>3. p \o q \in Seq(Orders)
  BY <1>1, ConcatProperties
<1> QED
  BY <1>1, <1>2, <1>3 DEF Takes

LEMMA Joins ==
  ASSUME NEW S, NEW c \in S, NEW d \in S, NEW e \in S
  PROVE  <<c>> \o <<d>> = <<c, d>> /\ <<c, d>> \o <<e>> = <<c, d, e>>
<1>0. /\ <<c>> \in Seq(S) /\ <<d>> \in Seq(S) /\ <<e>> \in Seq(S)
      /\ <<c, d>> \in Seq(S) /\ <<c, d, e>> \in Seq(S)
      /\ Len(<<c>>) = 1 /\ Len(<<d>>) = 1 /\ Len(<<e>>) = 1
      /\ Len(<<c, d>>) = 2 /\ Len(<<c, d, e>>) = 3
      /\ <<c>>[1] = c /\ <<d>>[1] = d /\ <<e>>[1] = e
      /\ <<c, d>>[1] = c /\ <<c, d>>[2] = d
      /\ <<c, d, e>>[1] = c /\ <<c, d, e>>[2] = d /\ <<c, d, e>>[3] = e
  OBVIOUS
<1> DEFINE x == <<c>>
           y == <<d>>
           z == <<e>>
           xy == <<c, d>>
           xyz == <<c, d, e>>
<1>1. x \in Seq(S) /\ Len(x) = 1 /\ x[1] = c
  BY <1>0
<1>2. y \in Seq(S) /\ Len(y) = 1 /\ y[1] = d
  BY <1>0
<1>3. z \in Seq(S) /\ Len(z) = 1 /\ z[1] = e
  BY <1>0
<1>4. xy \in Seq(S) /\ Len(xy) = 2 /\ xy[1] = c /\ xy[2] = d
  BY <1>0
<1>5. xyz \in Seq(S) /\ Len(xyz) = 3 /\ xyz[1] = c /\ xyz[2] = d /\ xyz[3] = e
  BY <1>0
<1> HIDE DEF x, y, z, xy, xyz
<1>6. x \o y = xy
  <2>1. x \o y \in Seq(S) /\ Len(x \o y) = 2 /\ (x \o y)[1] = c /\ (x \o y)[2] = d
    BY <1>1, <1>2, ConcatProperties
  <2>2. \A i \in 1..Len(x \o y) : (x \o y)[i] = xy[i]
    BY <1>4, <2>1
  <2> QED
    BY <1>4, <2>1, <2>2, SeqEqual
<1>7. xy \o z = xyz
  <2>1. /\ xy \o z \in Seq(S) /\ Len(xy \o z) = 3
        /\ (xy \o z)[1] = c /\ (xy \o z)[2] = d /\ (xy \o z)[3] = e
    <3>1. /\ xy \o z \in Seq(S) /\ Len(xy \o z) = 2 + 1
          /\ \A i \in 1 .. 2 + 1 : (xy \o z)[i] = IF i <= 2 THEN xy[i] ELSE z[i - 2]
      BY <1>3, <1>4, ConcatProperties
    <3>2. (xy \o z)[1] = xy[1] /\ (xy \o z)[2] = xy[2]
      BY <3>1
    <3>3. (xy \o z)[3] = z[1]
      BY <3>1
    <3> QED
      BY <1>3, <1>4, <3>1, <3>2, <3>3
  <2>2. \A i \in 1..Len(xy \o z) : (xy \o z)[i] = xyz[i]
    BY <1>5, <2>1
  <2> QED
    BY <1>5, <2>1, <2>2, SeqEqual
<1> QED
  BY <1>6, <1>7 DEF x, y, z, xy, xyz

\* The two parts of a concatenation, by index.
LEMMA ConcatParts ==
  ASSUME NEW S, NEW p \in Seq(S), NEW q \in Seq(S), NEW m \in Nat, NEW n \in Nat,
         m = Len(p), n = Len(q), NEW w, w = p \o q
  PROVE  /\ w \in Seq(S) /\ Len(w) = m + n
         /\ \A i \in 1..m : w[i] = p[i]
         /\ \A i \in 1..n : w[m + i] = q[i]
<1>1. w \in Seq(S) /\ Len(w) = m + n
  BY ConcatProperties
<1>2. \A i \in 1..(m + n) : w[i] = IF i <= m THEN p[i] ELSE q[i - m]
  BY ConcatProperties
<1>3. \A i \in 1..m : w[i] = p[i]
  <2> TAKE i \in 1..m
  <2>1. i \in 1..(m + n) /\ i <= m
    OBVIOUS
  <2> QED
    BY <1>2, <2>1
<1>4. \A i \in 1..n : w[m + i] = q[i]
  <2> TAKE i \in 1..n
  <2>1. m + i \in 1..(m + n) /\ ~ (m + i <= m) /\ m + i - m = i
    OBVIOUS
  <2>2. w[m + i] = IF m + i <= m THEN p[m + i] ELSE q[m + i - m]
    BY <1>2, <2>1
  <2> QED
    BY <2>1, <2>2
<1> QED
  BY <1>1, <1>3, <1>4

LEMMA JoinsFive ==
  ASSUME NEW S, NEW a \in S, NEW b \in S, NEW c \in S, NEW d \in S, NEW e \in S
  PROVE  <<a, b, c>> \o <<d, e>> = <<a, b, c, d, e>>
<1>0. /\ <<a, b, c>> \in Seq(S) /\ <<d, e>> \in Seq(S) /\ <<a, b, c, d, e>> \in Seq(S)
      /\ Len(<<a, b, c>>) = 3 /\ Len(<<d, e>>) = 2 /\ Len(<<a, b, c, d, e>>) = 5
      /\ <<a, b, c>>[1] = a /\ <<a, b, c>>[2] = b /\ <<a, b, c>>[3] = c
      /\ <<d, e>>[1] = d /\ <<d, e>>[2] = e
      /\ <<a, b, c, d, e>>[1] = a /\ <<a, b, c, d, e>>[2] = b /\ <<a, b, c, d, e>>[3] = c
      /\ <<a, b, c, d, e>>[4] = d /\ <<a, b, c, d, e>>[5] = e
  OBVIOUS
<1> DEFINE x == <<a, b, c>>
           y == <<d, e>>
           z == <<a, b, c, d, e>>
           w == x \o y
<1>1. x \in Seq(S) /\ Len(x) = 3 /\ x[1] = a /\ x[2] = b /\ x[3] = c
  BY <1>0
<1>2. y \in Seq(S) /\ Len(y) = 2 /\ y[1] = d /\ y[2] = e
  BY <1>0
<1>3. z \in Seq(S) /\ Len(z) = 5 /\ z[1] = a /\ z[2] = b /\ z[3] = c /\ z[4] = d /\ z[5] = e
  BY <1>0
<1> HIDE DEF x, y, z
<1>4. w = x \o y
  OBVIOUS
<1> HIDE DEF w
<1>5. /\ w \in Seq(S) /\ Len(w) = 3 + 2
      /\ \A i \in 1..3 : w[i] = x[i]
      /\ \A i \in 1..2 : w[3 + i] = y[i]
  <2>1. PICK m \in Nat : m = 3
    OBVIOUS
  <2>2. PICK n \in Nat : n = 2
    OBVIOUS
  <2>3. m = Len(x) /\ n = Len(y)
    BY <1>1, <1>2, <2>1, <2>2
  <2>4. /\ w \in Seq(S) /\ Len(w) = m + n
        /\ \A i \in 1..m : w[i] = x[i]
        /\ \A i \in 1..n : w[m + i] = y[i]
    <3>1. x \in Seq(S) /\ y \in Seq(S)
      BY <1>1, <1>2
    <3> QED
      BY <1>4, <2>3, <3>1, ConcatParts
  <2> QED
    BY <2>1, <2>2, <2>4
<1>6. w[1] = a /\ w[2] = b /\ w[3] = c
  BY <1>1, <1>5
<1>7. w[3 + 1] = d /\ w[3 + 2] = e
  BY <1>2, <1>5
<1>8. \A i \in 1..5 : w[i] = z[i]
  <2>1. \A i \in 1..5 : i = 1 \/ i = 2 \/ i = 3 \/ i = 4 \/ i = 5
    OBVIOUS
  <2>2. w[4] = d /\ w[5] = e
    BY <1>7
  <2> QED
    BY <1>3, <1>6, <2>1, <2>2
<1>9. Len(w) = 5
  BY <1>5
<1>10. w = z
  BY <1>3, <1>5, <1>8, <1>9, SeqEqual
<1> QED
  BY <1>4, <1>10 DEF x, y, z

LEMMA TakesTwo ==
  ASSUME NEW c \in Orders, NEW d \in Orders, NEW A, NEW B, NEW C,
         Takes(<<c>>, A, B), Takes(<<d>>, B, C)
  PROVE  Takes(<<c, d>>, A, C)
<1>1. Takes(<<c>> \o <<d>>, A, C)
  BY TakesThen
<1> QED
  BY <1>1, Joins

LEMMA TakesThree ==
  ASSUME NEW c \in Orders, NEW d \in Orders, NEW e \in Orders, NEW A, NEW B, NEW C, NEW D,
         Takes(<<c>>, A, B), Takes(<<d>>, B, C), Takes(<<e>>, C, D)
  PROVE  Takes(<<c, d, e>>, A, D)
<1>1. Takes(<<c, d>> \o <<e>>, A, D)
  BY TakesThen, TakesTwo
<1> QED
  BY <1>1, Joins

LEMMA TakesFive ==
  ASSUME NEW a \in Orders, NEW b \in Orders, NEW c \in Orders, NEW d \in Orders,
         NEW e \in Orders, NEW A, Takes(<<a>>, A, A), Takes(<<b>>, A, A), Takes(<<c>>, A, A),
         Takes(<<d>>, A, A), Takes(<<e>>, A, A)
  PROVE  Takes(<<a, b, c, d, e>>, A, A)
<1>1. Takes(<<a, b, c>>, A, A)
  BY TakesThree
<1>2. Takes(<<d, e>>, A, A)
  BY TakesTwo
<1>3. Takes(<<a, b, c>> \o <<d, e>>, A, A)
  BY <1>1, <1>2, TakesThen
<1> QED
  <2>1. <<a, b, c>> \o <<d, e>> = <<a, b, c, d, e>>
    BY JoinsFive
  <2> QED
    BY <1>3, <2>1

\* From fewer states to more.
LEMMA TakesWeaker ==
  ASSUME NEW p, NEW A, NEW B, NEW C, NEW D, Takes(p, B, C), A \subseteq B, C \subseteq D, D \subseteq Known
  PROVE  Takes(p, A, D)
BY DEF Takes

\* A loop whose rounds all lead from A back to A.
LEMMA TakesRounds ==
  ASSUME NEW A, A \subseteq Known, NEW n \in Nat, NEW rounds,
         DOMAIN rounds = 1..n, rounds = [i \in 1..n |-> rounds[i]],
         \A i \in 1..n : Takes(rounds[i], A, A)
  PROVE  Takes(FlattenSeq(rounds), A, A)
<1> DEFINE G == {p \in Seq(Orders) : Takes(p, A, A)}
<1>1. Closed(G)
  <2>1. <<>> \in G
    BY TakesNothing DEF Takes
  <2>2. ASSUME NEW p \in G, NEW q \in G PROVE p \o q \in G
    <3>1. Takes(p \o q, A, A)
      BY TakesThen
    <3> QED
      BY <3>1 DEF Takes
  <2> QED
    BY <2>1, <2>2 DEF Closed
<1>2. \A i \in 1..n : rounds[i] \in G
  BY DEF Takes
<1>3. rounds \in [1..n -> G]
  BY <1>2
<1> HIDE DEF G
<1>4. rounds \in Seq(G)
  BY <1>3, SeqDef
<1>5. FlattenSeq(rounds) \in G
  BY <1>1, <1>4, Flattened
<1> QED
  BY <1>5 DEF G

-----------------------------------------------------------------------------
(* Stages: all that matters of the testbed, and the networks met at most.  *)

Anything(met) == {a \in Known : a.met \subseteq met}

Stage(running, terminal, ws, net, met) ==
  {a \in Known : /\ a.sure /\ a.running = running /\ a.net = net /\ a.met \subseteq met
                 /\ a.route["terminal"] = terminal /\ a.route["ws-st"] = ws}

Way(c, place, way) ==
  IF c.at = place /\ c.op = "route delete" THEN "none"
  ELSE IF c.at = place /\ c.op = "route add" /\ way = "none" THEN "space"
  ELSE way

MetAfter(c, net, met) ==
  IF c.op = "fresh" THEN {} ELSE IF c.op \in {"iperf", "browse"} THEN met \cup {net} ELSE met

Orderly(c, running, net, met) ==
  /\ c.op \notin {"compose down", "stop", "pkill main"}
  /\ c.op = "loss" \/ (c.op = "route add" /\ c.at = "terminal") => running
  /\ c.op = "go run" => net.qpep[c.at] = None /\ net.proxied # {}
  /\ c.op = "record" =>
       met \subseteq {Promised(c.arg.kind, c.arg.orbit, c.arg.level, c.arg.plr)}

LEMMA StagesKnown ==
  ASSUME NEW running, NEW terminal, NEW ws, NEW net, NEW met
  PROVE  /\ Stage(running, terminal, ws, net, met) \subseteq Known
         /\ Stage(running, terminal, ws, net, met) \subseteq Anything(met)
         /\ Anything(met) \subseteq Known
BY DEF Stage, Anything

\* An orderly command leads from one stage to the next.
LEMMA StageToStage ==
  ASSUME NEW c \in Orders, NEW running \in BOOLEAN, NEW terminal, NEW ws, NEW net, NEW met,
         Orderly(c, running, net, met)
  PROVE  Takes(<<c>>, Stage(running, terminal, ws, net, met),
               Stage(running \/ c.op = "await running", Way(c, "terminal", terminal),
                     Way(c, "ws-st", ws), Change(c, net), MetAfter(c, net, met)))
<1> DEFINE A == Stage(running, terminal, ws, net, met)
<1> DEFINE B == Stage(running \/ c.op = "await running", Way(c, "terminal", terminal),
                      Way(c, "ws-st", ws), Change(c, net), MetAfter(c, net, met))
<1>1. ASSUME NEW a \in A PROVE Allowed(c, a) /\ Effect(c, a) \in B
  <2>0. /\ a \in Known /\ a.sure /\ a.running = running /\ a.net = net /\ a.met \subseteq met
        /\ a.route["terminal"] = terminal /\ a.route["ws-st"] = ws
        /\ a.route \in [Routed -> Ways] /\ {"terminal", "ws-st"} \subseteq Routed
    BY DEF Stage, Known, Routed
  <2>1. Allowed(c, a)
    BY <2>0 DEF Allowed, Orderly
  <2>2. ~ Doubtful(c, a)
    BY <2>0 DEF Doubtful, Orderly
  <2>3. /\ Effect(c, a).sure = (a.sure /\ ~ Doubtful(c, a))
        /\ Effect(c, a).running = (c.op = "await running" \/ (a.running /\ c.op # "stop"))
        /\ Effect(c, a).net = Change(c, net) /\ Effect(c, a).route = Turned(c, a.route)
        /\ Effect(c, a).met = Met(c, a)
    BY <2>0 DEF Effect, Orderly
  <2>4. Turned(c, a.route)["terminal"] = Way(c, "terminal", terminal)
    BY <2>0, OrderCases DEF Turned, Way
  <2>5. Turned(c, a.route)["ws-st"] = Way(c, "ws-st", ws)
    BY <2>0, OrderCases DEF Turned, Way
  <2>6. Met(c, a) \subseteq MetAfter(c, net, met)
    BY <2>0 DEF Met, MetAfter, Orderly
  <2>7. Effect(c, a).running = (running \/ c.op = "await running")
    BY <2>0, <2>3 DEF Orderly
  <2>8. Effect(c, a).sure
    BY <2>0, <2>2, <2>3
  <2> QED
    BY <2>0, <2>1, <2>3, <2>4, <2>5, <2>6, <2>7, <2>8, EffectTyped DEF Stage
<1>2. A \subseteq Known /\ B \subseteq Known
  BY StagesKnown
<1> HIDE DEF A, B
<1>3. Takes(<<c>>, A, B)
  BY <1>1, <1>2, TakesOne
<1> QED
  BY <1>3 DEF A, B

-----------------------------------------------------------------------------
(* Commands by name.                                                       *)

\* The commands that testbeds.py, scenarios.py and the scripts execute are commands of the model.
LEMMA Ordered ==
  /\ \A op \in Plain : Plainly(op) \in Orders
  /\ \A op \in {"stop", "start"} : Cmd(op, "window", "") \in Orders
  /\ \A x \in {"delay", "attenuation"} : Cmd("scenario", "", x) \in Orders
  /\ \A c \in Routed : Cmd("route delete", c, "") \in Orders /\ Cmd("route add", c, "") \in Orders
  /\ \A c \in Lossy, plr \in Losses : Cmd("loss", c, plr) \in Orders
  /\ \A c \in Proxied : /\ Cmd("configure qpep", c, "") \in Orders
                        /\ Cmd("pkill main", c, "") \in Orders
  /\ \A c \in Proxied, x \in Programs : Cmd("go run", c, x) \in Orders
  /\ \A c \in Lossy : Cmd("pepsal", c, "") \in Orders
  /\ Cmd("openvpn", "ws-st", "") \in Orders
  /\ \A c \in {"satellite", "ws-st", "ws-gw"}, x \in Apps :
       Cmd("app", c, x) \in Orders /\ Cmd("pkill app", c, x) \in Orders
  /\ \A x \in STRING : Cmd("iperf", "ws-st", x) \in Orders /\ Cmd("browse", "ws-st", x) \in Orders
  /\ \A x \in Labels : Cmd("record", "", x) \in Orders
  /\ Cmd("raise", "", "AttributeError") \in Orders
  /\ \A plr \in Losses : Cmd("check link", "", plr) \in Orders
<1>1. \A op \in Plain : Plainly(op) \in Orders
  <2>1. \A op \in Plain : Plainly(op) \in Order(Plain, {""}, {""})
    BY DEF Plainly, Cmd, Order
  <2> QED
    BY <2>1 DEF Orders
<1>0. \A op \in {"stop", "start"} : Cmd(op, "window", "") \in Orders
  <2>1. \A op \in {"stop", "start"} :
          Cmd(op, "window", "") \in Order({"stop", "start"}, {"window"}, {""})
    BY DEF Cmd, Order
  <2> QED
    BY <2>1 DEF Orders
<1>2. \A x \in {"delay", "attenuation"} : Cmd("scenario", "", x) \in Orders
  <2>1. \A x \in {"delay", "attenuation"} :
          Cmd("scenario", "", x) \in Order({"scenario"}, {""}, {"delay", "attenuation"})
    BY DEF Cmd, Order
  <2> QED
    BY <2>1 DEF Orders
<1>3. \A c \in Routed : Cmd("route delete", c, "") \in Orders /\ Cmd("route add", c, "") \in Orders
  <2>1. \A c \in Routed, op \in {"route delete", "route add"} :
          Cmd(op, c, "") \in Order({"route delete", "route add"}, Routed, {""})
    BY DEF Cmd, Order
  <2> QED
    BY <2>1 DEF Orders
<1>4. \A c \in Lossy, plr \in Losses : Cmd("loss", c, plr) \in Orders
  <2>1. \A c \in Lossy, plr \in Losses : Cmd("loss", c, plr) \in Order({"loss"}, Lossy, Losses)
    BY DEF Cmd, Order
  <2> QED
    BY <2>1 DEF Orders
<1>5. \A c \in Proxied : /\ Cmd("configure qpep", c, "") \in Orders
                         /\ Cmd("pkill main", c, "") \in Orders
  <2>1. \A c \in Proxied, op \in {"configure qpep", "pkill main"} :
          Cmd(op, c, "") \in Order({"configure qpep", "pkill main"}, Proxied, {""})
    BY DEF Cmd, Order
  <2> QED
    BY <2>1 DEF Orders
<1>6. \A c \in Proxied, x \in Programs : Cmd("go run", c, x) \in Orders
  <2>1. \A c \in Proxied, x \in Programs : Cmd("go run", c, x) \in Order({"go run"}, Proxied, Programs)
    BY DEF Cmd, Order
  <2> QED
    BY <2>1 DEF Orders
<1>7. \A c \in Lossy : Cmd("pepsal", c, "") \in Orders
  <2>1. \A c \in Lossy : Cmd("pepsal", c, "") \in Order({"pepsal"}, Lossy, {""})
    BY DEF Cmd, Order
  <2> QED
    BY <2>1 DEF Orders
<1>8. Cmd("openvpn", "ws-st", "") \in Orders
  <2>1. Cmd("openvpn", "ws-st", "") \in Order({"openvpn"}, {"ws-st"}, {""})
    BY DEF Cmd, Order
  <2> QED
    BY <2>1 DEF Orders
<1>9. \A c \in {"satellite", "ws-st", "ws-gw"}, x \in Apps :
        Cmd("app", c, x) \in Orders /\ Cmd("pkill app", c, x) \in Orders
  <2>1. \A c \in {"satellite", "ws-st", "ws-gw"}, x \in Apps, op \in {"app", "pkill app"} :
          Cmd(op, c, x) \in Order({"app", "pkill app"}, {"satellite", "ws-st", "ws-gw"}, Apps)
    BY DEF Cmd, Order
  <2> QED
    BY <2>1 DEF Orders
<1>10. \A x \in STRING : Cmd("iperf", "ws-st", x) \in Orders /\ Cmd("browse", "ws-st", x) \in Orders
  <2>1. \A x \in STRING, op \in {"iperf", "browse"} :
          Cmd(op, "ws-st", x) \in Order({"iperf", "browse"}, {"ws-st"}, STRING)
    BY DEF Cmd, Order
  <2> QED
    BY <2>1 DEF Orders
<1>11. \A x \in Labels : Cmd("record", "", x) \in Orders
  <2>1. \A x \in Labels : Cmd("record", "", x) \in Order({"record"}, {""}, Labels)
    BY DEF Cmd, Order
  <2> QED
    BY <2>1 DEF Orders
<1>12. Cmd("raise", "", "AttributeError") \in Orders
  <2>1. Cmd("raise", "", "AttributeError") \in Order({"raise"}, {""}, {"AttributeError"})
    BY DEF Cmd, Order
  <2> QED
    BY <2>1 DEF Orders
<1>13. \A plr \in Losses : Cmd("check link", "", plr) \in Orders
  <2>1. \A plr \in Losses : Cmd("check link", "", plr) \in Order({"check link"}, {""}, Losses)
    BY DEF Cmd, Order
  <2> QED
    BY <2>1 DEF Orders
<1> QED
  BY <1>0, <1>1, <1>2, <1>3, <1>4, <1>5, <1>6, <1>7, <1>8, <1>9, <1>10, <1>11, <1>12, <1>13

\* After compose down nothing is left of what was there.
LEMMA ByComposeDown ==
  ASSUME NEW met \in SUBSET Settings
  PROVE  Takes(<<Plainly("compose down")>>, Anything(met),
               Stage(FALSE, "docker", "docker", Untouched, met))
<1> DEFINE c == Plainly("compose down")
<1>1. c \in Orders
  BY Ordered DEF Plain
<1>2. c.op = "compose down"
  BY DEF Plainly, Cmd
<1> HIDE DEF c
<1>3. ASSUME NEW a \in Anything(met)
      PROVE  Allowed(c, a) /\ Effect(c, a) \in Stage(FALSE, "docker", "docker", Untouched, met)
  <2>1. a \in Known /\ a.met \subseteq met
    BY DEF Anything
  <2>2. Allowed(c, a)
    BY <1>2 DEF Allowed
  <2>3. Effect(c, a) = Blank(a.met) /\ Effect(c, a) \in Known
    BY <1>1, <1>2, <2>1, EffectTyped DEF Effect
  <2> QED
    BY <2>1, <2>2, <2>3 DEF Stage, Blank, Routed
<1>4. Takes(<<c>>, Anything(met), Stage(FALSE, "docker", "docker", Untouched, met))
  BY <1>1, <1>3, StagesKnown, TakesOne
<1> QED
  BY <1>4 DEF c

Idle == {"compose up", "await hosts", "await answer", "start", "gui route", "speedtest",
         "await vpn", "app", "pkill app", "raise", "check link"}

\* Commands that leave a stage as it is.
LEMMA ByIdle ==
  ASSUME NEW c \in Orders, c.op \in Idle,
         NEW running \in BOOLEAN, NEW terminal, NEW ws, NEW net, NEW met
  PROVE  Takes(<<c>>, Stage(running, terminal, ws, net, met), Stage(running, terminal, ws, net, met))
<1>1. Orderly(c, running, net, met)
  BY DEF Orderly, Idle
<1>2. /\ (running \/ c.op = "await running") = running /\ Way(c, "terminal", terminal) = terminal
      /\ Way(c, "ws-st", ws) = ws /\ Change(c, net) = net /\ MetAfter(c, net, met) = met
  BY DEF Idle, Way, Change, MetAfter
<1> QED
  BY <1>1, <1>2, StageToStage

\* The loop over the status ends only when all components run.
LEMMA ByAwaitRunning ==
  ASSUME NEW running \in BOOLEAN, NEW terminal, NEW ws, NEW net, NEW met
  PROVE  Takes(<<Plainly("await running")>>, Stage(running, terminal, ws, net, met),
               Stage(TRUE, terminal, ws, net, met))
<1> DEFINE c == Plainly("await running")
<1>0. c \in Orders
  BY Ordered DEF Plain
<1>1. c.op = "await running"
  BY DEF Plainly, Cmd
<1> HIDE DEF c
<1>2. Orderly(c, running, net, met)
  BY <1>1 DEF Orderly
<1>3. /\ (running \/ c.op = "await running") = TRUE /\ Way(c, "terminal", terminal) = terminal
      /\ Way(c, "ws-st", ws) = ws /\ Change(c, net) = net /\ MetAfter(c, net, met) = met
  BY <1>1 DEF Way, Change, MetAfter
<1>4. Takes(<<c>>, Stage(running, terminal, ws, net, met), Stage(TRUE, terminal, ws, net, met))
  BY <1>0, <1>2, <1>3, StageToStage
<1> QED
  BY <1>4 DEF c

Over(place, at, way) == IF at = place THEN "space" ELSE way

\* A default route is replaced by the one over the satellite.
LEMMA ByDefault ==
  ASSUME NEW place \in Routed, NEW running \in BOOLEAN, place = "terminal" => running,
         NEW terminal, NEW ws, NEW net, NEW met
  PROVE  Takes(Default(place), Stage(running, terminal, ws, net, met),
               Stage(running, Over(place, "terminal", terminal), Over(place, "ws-st", ws), net, met))
<1> DEFINE c == Cmd("route delete", place, "")
           d == Cmd("route add", place, "")
           Gone(at, way) == IF at = place THEN "none" ELSE way
<1>0. c \in Orders /\ d \in Orders
  BY Ordered
<1>1. c.op = "route delete" /\ c.at = place /\ d.op = "route add" /\ d.at = place
  BY DEF Cmd
<1>2. Default(place) = <<c, d>>
  BY DEF Default
<1> HIDE DEF c, d
<1>3. Takes(<<c>>, Stage(running, terminal, ws, net, met),
            Stage(running, Gone("terminal", terminal), Gone("ws-st", ws), net, met))
  <2>1. Orderly(c, running, net, met)
    BY <1>1 DEF Orderly
  <2>2. /\ (running \/ c.op = "await running") = running
        /\ Way(c, "terminal", terminal) = Gone("terminal", terminal)
        /\ Way(c, "ws-st", ws) = Gone("ws-st", ws)
        /\ Change(c, net) = net /\ MetAfter(c, net, met) = met
    BY <1>1 DEF Way, Change, MetAfter
  <2> QED
    BY <1>0, <2>1, <2>2, StageToStage
<1>4. Takes(<<d>>, Stage(running, Gone("terminal", terminal), Gone("ws-st", ws), net, met),
            Stage(running, Over(place, "terminal", terminal), Over(place, "ws-st", ws), net, met))
  <2>1. Orderly(d, running, net, met)
    BY <1>1 DEF Orderly
  <2>2. /\ (running \/ d.op = "await running") = running
        /\ Way(d, "terminal", Gone("terminal", terminal)) = Over(place, "terminal", terminal)
        /\ Way(d, "ws-st", Gone("ws-st", ws)) = Over(place, "ws-st", ws)
        /\ Change(d, net) = net /\ MetAfter(d, net, met) = met
    BY <1>1 DEF Way, Change, MetAfter, Over
  <2> HIDE DEF Gone
  <2> QED
    BY <1>0, <2>1, <2>2, StageToStage
<1> HIDE DEF Gone
<1> QED
  BY <1>0, <1>2, <1>3, <1>4, TakesTwo

Changing == {"scenario", "loss", "configure qpep", "go run", "pepsal", "openvpn"}

\* Commands that change the network and nothing else.
LEMMA ByChange ==
  ASSUME NEW c \in Orders, c.op \in Changing,
         NEW running \in BOOLEAN, NEW terminal, NEW ws, NEW net, NEW met, NEW after,
         c.op = "loss" => running,
         c.op = "go run" => net.qpep[c.at] = None /\ net.proxied # {},
         after = Change(c, net)
  PROVE  Takes(<<c>>, Stage(running, terminal, ws, net, met), Stage(running, terminal, ws, after, met))
<1>1. Orderly(c, running, net, met)
  BY DEF Orderly, Changing
<1>2. /\ (running \/ c.op = "await running") = running /\ Way(c, "terminal", terminal) = terminal
      /\ Way(c, "ws-st", ws) = ws /\ MetAfter(c, net, met) = met
  BY DEF Changing, Way, MetAfter
<1> QED
  BY <1>1, <1>2, StageToStage

\* The testbed is up and routed, at a network.
On(net, met) == Stage(TRUE, "space", "space", net, met)

\* A new benchmark has met nothing.
LEMMA ByFresh ==
  ASSUME NEW net, NEW met
  PROVE  Takes(<<Plainly("fresh")>>, On(net, met), On(net, {}))
<1> DEFINE c == Plainly("fresh")
<1>0. c \in Orders
  BY Ordered DEF Plain
<1>1. c.op = "fresh"
  BY DEF Plainly, Cmd
<1> HIDE DEF c
<1>2. Orderly(c, TRUE, net, met)
  BY <1>1 DEF Orderly
<1>3. /\ (TRUE \/ c.op = "await running") = TRUE /\ Way(c, "terminal", "space") = "space"
      /\ Way(c, "ws-st", "space") = "space" /\ Change(c, net) = net /\ MetAfter(c, net, met) = {}
  BY <1>1 DEF Way, Change, MetAfter
<1>4. Takes(<<c>>, On(net, met), On(net, {}))
  BY <1>0, <1>2, <1>3, StageToStage DEF On
<1> QED
  BY <1>4 DEF c

\* Whatever the state, the benchmark starts anew.
LEMMA ByFreshAnywhere ==
  Takes(<<Plainly("fresh")>>, Known, Anything({}))
<1> DEFINE c == Plainly("fresh")
<1>0. c \in Orders
  BY Ordered DEF Plain
<1>1. c.op = "fresh"
  BY DEF Plainly, Cmd
<1> HIDE DEF c
<1>2. ASSUME NEW a \in Known PROVE Allowed(c, a) /\ Effect(c, a) \in Anything({})
  <2>1. Allowed(c, a)
    BY <1>1 DEF Allowed
  <2>2. Effect(c, a).met = {}
    BY <1>1 DEF Effect, Met
  <2> QED
    BY <1>0, <2>1, <2>2, EffectTyped DEF Anything
<1>3. Takes(<<c>>, Known, Anything({}))
  BY <1>0, <1>2, StagesKnown, TakesOne
<1> QED
  BY <1>3 DEF c

\* A transfer meets the network that there is.
LEMMA ByTransfer ==
  ASSUME NEW c \in Orders, c.op \in {"iperf", "browse"}, NEW net
  PROVE  Takes(<<c>>, On(net, {net}), On(net, {net}))
<1>2. Orderly(c, TRUE, net, {net})
  BY DEF Orderly
<1>3. /\ (TRUE \/ c.op = "await running") = TRUE /\ Way(c, "terminal", "space") = "space"
      /\ Way(c, "ws-st", "space") = "space" /\ Change(c, net) = net
      /\ MetAfter(c, net, {net}) = {net}
  BY DEF Way, Change, MetAfter
<1> QED
  BY <1>2, <1>3, StageToStage DEF On

Promise(label) == Promised(label.kind, label.orbit, label.level, label.plr)

\* A batch may be filed under a label if only the network of the label was met.
LEMMA ByRecord ==
  ASSUME NEW label \in Labels, NEW net, NEW met, met \subseteq {Promise(label)}
  PROVE  Takes(<<Cmd("record", "", label)>>, On(net, met), On(net, met))
<1> DEFINE c == Cmd("record", "", label)
<1>0. c \in Orders
  BY Ordered
<1>1. c.op = "record" /\ c.arg = label
  BY DEF Cmd
<1> HIDE DEF c
<1>2. Orderly(c, TRUE, net, met)
  BY <1>1 DEF Orderly, Promise
<1>3. /\ (TRUE \/ c.op = "await running") = TRUE /\ Way(c, "terminal", "space") = "space"
      /\ Way(c, "ws-st", "space") = "space" /\ Change(c, net) = net /\ MetAfter(c, net, met) = met
  BY <1>1 DEF Way, Change, MetAfter
<1>4. Takes(<<c>>, On(net, met), On(net, met))
  BY <1>0, <1>2, <1>3, StageToStage DEF On
<1> QED
  BY <1>4 DEF c

-----------------------------------------------------------------------------
(* What testbeds.py and scenarios.py lead to.                              *)

Bare(orbit) == Net(orbit, None, {}, Pair(None, None), {}, "off")

\* start_testbed: all components run and the terminal is routed over the tunnel.
LEMMA Starts ==
  ASSUME NEW orbit \in Orbital, NEW met \in SUBSET Settings
  PROVE  Takes(start_testbed(orbit), Anything(met), Stage(TRUE, "space", "docker", Bare(orbit), met))
<1> DEFINE S(running, terminal, net) == Stage(running, terminal, "docker", net, met)
           first == <<Plainly("compose down"), Plainly("compose up"), Plainly("await hosts")>>
           second == IF orbit = "LEO" THEN <<Cmd("scenario", "", "delay")>> ELSE <<>>
           third == <<Plainly("start"), Plainly("await running")>>
<1>0. \A op \in {"compose down", "compose up", "await hosts", "start", "await running"} :
        Plainly(op) \in Orders /\ Plainly(op).op = op
  BY Ordered DEF Plain, Plainly, Cmd
<1>1. Takes(first, Anything(met), S(FALSE, "docker", Bare("GEO")))
  <2>1. Untouched = Bare("GEO")
    BY Promises DEF Untouched, Bare
  <2>2. Takes(<<Plainly("compose down")>>, Anything(met), S(FALSE, "docker", Bare("GEO")))
    BY <2>1, ByComposeDown
  <2>3. Takes(<<Plainly("compose up")>>, S(FALSE, "docker", Bare("GEO")), S(FALSE, "docker", Bare("GEO")))
    BY <1>0, ByIdle DEF Idle
  <2>4. Takes(<<Plainly("await hosts")>>, S(FALSE, "docker", Bare("GEO")), S(FALSE, "docker", Bare("GEO")))
    BY <1>0, ByIdle DEF Idle
  <2>5. /\ Plainly("compose down") \in Orders /\ Plainly("compose up") \in Orders
        /\ Plainly("await hosts") \in Orders
    BY <1>0
  <2> DEFINE X == S(FALSE, "docker", Bare("GEO"))
             Y == Anything(met)
  <2>6. /\ Takes(<<Plainly("compose down")>>, Y, X) /\ Takes(<<Plainly("compose up")>>, X, X)
        /\ Takes(<<Plainly("await hosts")>>, X, X)
    BY <2>2, <2>3, <2>4
  <2> HIDE DEF X, Y
  <2>7. Takes(first, Y, X)
    BY <2>5, <2>6, TakesThree
  <2> QED
    BY <2>7 DEF X, Y
<1>2. Takes(second, S(FALSE, "docker", Bare("GEO")), S(FALSE, "docker", Bare(orbit)))
  <2>1. CASE orbit = "LEO"
    <3> DEFINE c == Cmd("scenario", "", "delay")
    <3>1. c \in Orders /\ c.op = "scenario"
      BY Ordered DEF Cmd
    <3>2. Change(c, Bare("GEO")) = Bare("LEO")
      BY DEF Bare, Change, Cmd, Net
    <3>3. second = <<c>>
      BY <2>1
    <3> HIDE DEF c, second
    <3>4. Takes(<<c>>, S(FALSE, "docker", Bare("GEO")), S(FALSE, "docker", Bare("LEO")))
      BY <3>1, <3>2, ByChange DEF Changing
    <3> QED
      BY <2>1, <3>3, <3>4
  <2>2. CASE orbit # "LEO"
    <3>1. orbit = "GEO" /\ second = <<>>
      BY <2>2 DEF Orbital
    <3> HIDE DEF second
    <3> QED
      BY <3>1, StagesKnown, TakesNothing
  <2> QED
    BY <2>1, <2>2
<1>3. Takes(third, S(FALSE, "docker", Bare(orbit)), S(TRUE, "docker", Bare(orbit)))
  <2>1. Takes(<<Plainly("start")>>, S(FALSE, "docker", Bare(orbit)), S(FALSE, "docker", Bare(orbit)))
    BY <1>0, ByIdle DEF Idle
  <2>2. Takes(<<Plainly("await running")>>, S(FALSE, "docker", Bare(orbit)), S(TRUE, "docker", Bare(orbit)))
    BY ByAwaitRunning
  <2> HIDE DEF S
  <2> QED
    BY <1>0, <2>1, <2>2, TakesTwo
<1>4. Takes(Default("terminal"), S(TRUE, "docker", Bare(orbit)), S(TRUE, "space", Bare(orbit)))
  <2>1. Over("terminal", "terminal", "docker") = "space" /\ Over("terminal", "ws-st", "docker") = "docker"
    BY DEF Over
  <2>2. "terminal" \in Routed
    BY DEF Routed
  <2>3. Takes(Default("terminal"), Stage(TRUE, "docker", "docker", Bare(orbit), met),
              Stage(TRUE, Over("terminal", "terminal", "docker"),
                    Over("terminal", "ws-st", "docker"), Bare(orbit), met))
    BY <2>2, ByDefault
  <2> QED
    BY <2>1, <2>3
<1>5. start_testbed(orbit) = ((first \o second) \o third) \o Default("terminal")
  BY DEF start_testbed
<1> HIDE DEF first, second, third
<1>6. Takes(first \o second, Anything(met), S(FALSE, "docker", Bare(orbit)))
  BY <1>1, <1>2, TakesThen
<1>7. Takes((first \o second) \o third, Anything(met), S(TRUE, "docker", Bare(orbit)))
  BY <1>3, <1>6, TakesThen
<1> QED
  BY <1>4, <1>5, <1>7, TakesThen

\* Scenario.deploy_scenario: the testbed with both routes, and nothing on it.
LEMMA Bases ==
  ASSUME NEW orbit \in Orbital, NEW met \in SUBSET Settings
  PROVE  Takes(Base(orbit), Anything(met), On(Bare(orbit), met))
<1> DEFINE c == Plainly("gui route")
<1>1. c \in Orders /\ c.op = "gui route"
  BY Ordered DEF Plain, Plainly, Cmd
<1>2. Base(orbit) = start_testbed(orbit) \o (<<c>> \o Default("ws-st"))
  BY DEF Base, connect_terminal_workstation
<1> HIDE DEF c
<1>3. Takes(<<c>>, Stage(TRUE, "space", "docker", Bare(orbit), met),
            Stage(TRUE, "space", "docker", Bare(orbit), met))
  BY <1>1, ByIdle DEF Idle
<1>4. Takes(Default("ws-st"), Stage(TRUE, "space", "docker", Bare(orbit), met), On(Bare(orbit), met))
  <2>1. Over("ws-st", "terminal", "space") = "space" /\ Over("ws-st", "ws-st", "docker") = "space"
    BY DEF Over
  <2>2. "ws-st" \in Routed
    BY DEF Routed
  <2>3. Takes(Default("ws-st"), Stage(TRUE, "space", "docker", Bare(orbit), met),
              Stage(TRUE, Over("ws-st", "terminal", "space"),
                    Over("ws-st", "ws-st", "docker"), Bare(orbit), met))
    BY <2>2, ByDefault
  <2> QED
    BY <2>1, <2>3 DEF On
<1>5. Takes(<<c>> \o Default("ws-st"), Stage(TRUE, "space", "docker", Bare(orbit), met),
            On(Bare(orbit), met))
  BY <1>3, <1>4, TakesThen
<1> QED
  BY <1>2, <1>5, Starts, TakesThen

QpepNet(orbit, proxied, client, gateway) ==
  Net(orbit, None, proxied, Pair(client, gateway), {}, "off")

\* configure_qpep.sh on terminal and gateway.
LEMMA ByConfigured ==
  ASSUME NEW orbit \in Orbital, NEW met \in SUBSET Settings
  PROVE  Takes(Configured, On(Bare(orbit), met), On(QpepNet(orbit, Proxied, None, None), met))
<1> DEFINE c == Cmd("configure qpep", "terminal", "")
           d == Cmd("configure qpep", "ws-gw", "")
           A == On(Bare(orbit), met)
           B == On(QpepNet(orbit, {"terminal"}, None, None), met)
           C == On(QpepNet(orbit, Proxied, None, None), met)
<1>1. c \in Orders /\ d \in Orders /\ c.op = "configure qpep" /\ d.op = "configure qpep"
  BY Ordered DEF Proxied, Cmd
<1>2. Configured = <<c, d>>
  BY DEF Configured, Both
<1>3. QpepNet(orbit, {"terminal"}, None, None) = Change(c, Bare(orbit))
  BY DEF Change, Cmd, Net, QpepNet, Bare
<1>4. QpepNet(orbit, Proxied, None, None) = Change(d, QpepNet(orbit, {"terminal"}, None, None))
  <2>1. {"terminal"} \cup {"ws-gw"} = Proxied
    BY DEF Proxied
  <2> QED
    BY <2>1 DEF Change, Cmd, Net, QpepNet
<1> HIDE DEF c, d
<1>5. Takes(<<c>>, A, B)
  BY <1>1, <1>3, ByChange DEF Changing, On
<1>6. Takes(<<d>>, B, C)
  BY <1>1, <1>4, ByChange DEF Changing, On
<1> HIDE DEF A, B, C
<1>7. Takes(<<c, d>>, A, C)
  BY <1>1, <1>5, <1>6, TakesTwo
<1> QED
  BY <1>2, <1>7 DEF A, C

\* QPEP is launched on terminal and gateway.
LEMMA ByLaunched ==
  ASSUME NEW orbit \in Orbital, NEW met \in SUBSET Settings,
         NEW client \in Programs, NEW gateway \in Programs
  PROVE  Takes(Launched(client, gateway), On(QpepNet(orbit, Proxied, None, None), met),
               On(QpepNet(orbit, Proxied, client, gateway), met))
<1> DEFINE c == Cmd("go run", "terminal", client)
           d == Cmd("go run", "ws-gw", gateway)
           A == On(QpepNet(orbit, Proxied, None, None), met)
           B == On(QpepNet(orbit, Proxied, client, None), met)
           C == On(QpepNet(orbit, Proxied, client, gateway), met)
<1>1. /\ c \in Orders /\ c.op = "go run" /\ c.at = "terminal"
      /\ d \in Orders /\ d.op = "go run" /\ d.at = "ws-gw"
  BY Ordered DEF Proxied, Cmd
<1>2. Launched(client, gateway) = <<c, d>>
  BY DEF Launched
<1>3. QpepNet(orbit, Proxied, client, None) = Change(c, QpepNet(orbit, Proxied, None, None))
  <2>1. [Pair(None, None) EXCEPT !["terminal"] = client] = Pair(client, None)
    BY DEF Pair, Proxied
  <2> QED
    BY <2>1 DEF Change, Cmd, Net, QpepNet
<1>4. QpepNet(orbit, Proxied, client, gateway) = Change(d, QpepNet(orbit, Proxied, client, None))
  <2>1. [Pair(client, None) EXCEPT !["ws-gw"] = gateway] = Pair(client, gateway)
    BY DEF Pair, Proxied
  <2> QED
    BY <2>1 DEF Change, Cmd, Net, QpepNet
<1>5. /\ QpepNet(orbit, Proxied, None, None).qpep[c.at] = None
      /\ QpepNet(orbit, Proxied, client, None).qpep[d.at] = None
      /\ QpepNet(orbit, Proxied, None, None).proxied # {}
      /\ QpepNet(orbit, Proxied, client, None).proxied # {}
  BY <1>1 DEF QpepNet, Net, Pair, Proxied
<1> HIDE DEF c, d
<1>6. Takes(<<c>>, A, B)
  BY <1>1, <1>3, <1>5, ByChange DEF Changing, On
<1>7. Takes(<<d>>, B, C)
  BY <1>1, <1>4, <1>5, ByChange DEF Changing, On
<1> HIDE DEF A, B, C
<1>8. Takes(<<c, d>>, A, C)
  BY <1>1, <1>6, <1>7, TakesTwo
<1> QED
  BY <1>2, <1>8 DEF A, C

\* pepsal on one more container.
LEMMA ByPepsal ==
  ASSUME NEW orbit \in Orbital, NEW met \in SUBSET Settings, NEW c \in Lossy, NEW before
  PROVE  Takes(<<Cmd("pepsal", c, "")>>,
               On(Net(orbit, None, {}, Pair(None, None), before, "off"), met),
               On(Net(orbit, None, {}, Pair(None, None), before \cup {c}, "off"), met))
<1> DEFINE d == Cmd("pepsal", c, "")
<1>1. d \in Orders /\ d.op = "pepsal"
  BY Ordered DEF Cmd
<1>2. Net(orbit, None, {}, Pair(None, None), before \cup {c}, "off")
        = Change(d, Net(orbit, None, {}, Pair(None, None), before, "off"))
  BY DEF Change, Cmd, Net
<1> HIDE DEF d
<1>3. Takes(<<d>>, On(Net(orbit, None, {}, Pair(None, None), before, "off"), met),
            On(Net(orbit, None, {}, Pair(None, None), before \cup {c}, "off"), met))
  BY <1>1, <1>2, ByChange DEF Changing, On
<1> QED
  BY <1>3 DEF d

\* OpenVPN is launched, and given its time.
LEMMA ByOpenVpn ==
  ASSUME NEW orbit \in Orbital, NEW met \in SUBSET Settings
  PROVE  Takes(<<Cmd("openvpn", "ws-st", ""), Plainly("await vpn")>>, On(Bare(orbit), met),
               On(Net(orbit, None, {}, Pair(None, None), {}, "launched"), met))
<1> DEFINE c == Cmd("openvpn", "ws-st", "")
           d == Plainly("await vpn")
           A == On(Bare(orbit), met)
           C == On(Net(orbit, None, {}, Pair(None, None), {}, "launched"), met)
<1>1. c \in Orders /\ d \in Orders /\ c.op = "openvpn" /\ d.op = "await vpn"
  BY Ordered DEF Plain, Plainly, Cmd
<1>2. Net(orbit, None, {}, Pair(None, None), {}, "launched") = Change(c, Bare(orbit))
  BY DEF Change, Cmd, Net, Bare
<1> HIDE DEF c, d
<1>4. Takes(<<c>>, A, C)
  BY <1>1, <1>2, ByChange DEF Changing, On
<1>5. Takes(<<d>>, C, C)
  BY <1>1, ByIdle DEF Idle, On
<1> HIDE DEF A, C
<1>6. Takes(<<c, d>>, A, C)
  BY <1>1, <1>4, <1>5, TakesTwo
<1> QED
  BY <1>6 DEF A, C, c, d

\* A scenario deployed from nothing is what it promises, whatever was there.
LEMMA Deploys ==
  ASSUME NEW kind \in Kinds, NEW orbit \in Orbital, NEW level \in Levels,
         NEW met \in SUBSET Settings
  PROVE  Takes(deploy_scenario(kind, FALSE, orbit, level), Anything(met),
               On(Promised(kind, orbit, level, None), met))
<1> DEFINE A == Anything(met)
           B == On(Bare(orbit), met)
<1>1. Takes(Base(orbit), A, B)
  BY Bases
<1>2. BaseUnless(FALSE, orbit) = Base(orbit)
  BY DEF BaseUnless
<1>3. \A client, gateway \in Programs :
        Takes((Base(orbit) \o Configured) \o Launched(client, gateway), A,
              On(QpepNet(orbit, Proxied, client, gateway), met))
  <2> TAKE client, gateway \in Programs
  <2> DEFINE C == On(QpepNet(orbit, Proxied, None, None), met)
             D == On(QpepNet(orbit, Proxied, client, gateway), met)
  <2>1. Takes(Configured, B, C)
    BY ByConfigured
  <2>2. Takes(Launched(client, gateway), C, D)
    BY ByLaunched
  <2> HIDE DEF A, B, C, D
  <2>3. Takes(Base(orbit) \o Configured, A, C)
    BY <1>1, <2>1, TakesThen
  <2>4. Takes((Base(orbit) \o Configured) \o Launched(client, gateway), A, D)
    BY <2>2, <2>3, TakesThen
  <2> QED
    BY <2>4 DEF D
<1>4. {<<>>, <<"decimation">>, <<"acks", level>>, <<"congestion", level>>} \subseteq Programs
  BY DEF Programs
<1>5. Configured \in Seq(Orders) /\ Base(orbit) \in Seq(Orders)
  BY <1>1, ByConfigured DEF Takes
<1>6. CASE kind = "Plain"
  <2>1. deploy_scenario(kind, FALSE, orbit, level) = Base(orbit)
    BY <1>2, <1>6 DEF deploy_scenario, DeployPlain
  <2>2. Promised(kind, orbit, level, None) = Bare(orbit)
    BY <1>6, Promises DEF Bare
  <2> QED
    BY <1>1, <2>1, <2>2
<1>7. CASE kind = "OpenVPN"
  <2> DEFINE q == <<Cmd("openvpn", "ws-st", ""), Plainly("await vpn")>>
             C == On(Promised(kind, orbit, level, None), met)
  <2>1. deploy_scenario(kind, FALSE, orbit, level) = Base(orbit) \o q
    BY <1>2, <1>7 DEF deploy_scenario, DeployOpenVPN
  <2>2. Takes(q, B, C)
    BY <1>7, Promises, ByOpenVpn
  <2> HIDE DEF A, B, C, q
  <2>3. Takes(Base(orbit) \o q, A, C)
    BY <1>1, <2>2, TakesThen
  <2> QED
    BY <2>1, <2>3 DEF A, C
<1>8. CASE kind = "PEPSal"
  <2> DEFINE q == <<Cmd("pepsal", "terminal", "")>>
             C == On(Promised(kind, orbit, level, None), met)
  <2>1. deploy_scenario(kind, FALSE, orbit, level) = (Base(orbit) \o q) \o <<>>
    BY <1>2, <1>8 DEF deploy_scenario, DeployPEPsal
  <2>2. Takes(q, B, C)
    <3>1. "terminal" \in Lossy /\ {} \cup {"terminal"} = {"terminal"}
      BY DEF Lossy
    <3>2. Takes(q, On(Net(orbit, None, {}, Pair(None, None), {}, "off"), met),
                On(Net(orbit, None, {}, Pair(None, None), {} \cup {"terminal"}, "off"), met))
      BY <3>1, ByPepsal
    <3>3. Promised(kind, orbit, level, None) = Net(orbit, None, {}, Pair(None, None), {"terminal"}, "off")
      BY <1>8, Promises
    <3> QED
      BY <3>1, <3>2, <3>3 DEF Bare
  <2> HIDE DEF A, B, C, q
  <2>3. Takes(Base(orbit) \o q, A, C)
    BY <1>1, <2>2, TakesThen
  <2>4. (Base(orbit) \o q) \o <<>> = Base(orbit) \o q
    BY <2>3, ConcatEmptySeq DEF Takes
  <2> QED
    BY <2>1, <2>3, <2>4 DEF A, C
<1>9. CASE kind = "Distributed PEPsal"
  <2> DEFINE q == <<Cmd("pepsal", "terminal", "")>>
             r == <<Cmd("pepsal", "gateway", "")>>
             C == On(Net(orbit, None, {}, Pair(None, None), {"terminal"}, "off"), met)
             D == On(Promised(kind, orbit, level, None), met)
  <2>0. {"terminal", "gateway"} = Lossy /\ {} \cup {"terminal"} = {"terminal"}
        /\ {"terminal"} \cup {"gateway"} = Lossy
    BY DEF Lossy
  <2>1. deploy_scenario(kind, FALSE, orbit, level) = (Base(orbit) \o q) \o r
    BY <1>2, <1>9 DEF deploy_scenario, DeployPEPsal
  <2>2. Takes(q, B, C)
    <3>1. Takes(q, On(Net(orbit, None, {}, Pair(None, None), {}, "off"), met),
                On(Net(orbit, None, {}, Pair(None, None), {} \cup {"terminal"}, "off"), met))
      BY <2>0, ByPepsal
    <3> QED
      BY <2>0, <3>1 DEF Bare
  <2>3. Takes(r, C, D)
    <3>1. Takes(r, C, On(Net(orbit, None, {}, Pair(None, None), {"terminal"} \cup {"gateway"}, "off"), met))
      BY <2>0, ByPepsal
    <3>2. Promised(kind, orbit, level, None) = Net(orbit, None, {}, Pair(None, None), Lossy, "off")
      BY <1>9, Promises
    <3> QED
      BY <2>0, <3>1, <3>2
  <2> HIDE DEF A, B, C, D, q, r
  <2>4. Takes(Base(orbit) \o q, A, C)
    BY <1>1, <2>2, TakesThen
  <2>5. Takes((Base(orbit) \o q) \o r, A, D)
    BY <2>3, <2>4, TakesThen
  <2> QED
    BY <2>1, <2>5 DEF A, D
<1>10. CASE kind = "QPEP"
  <2>1. deploy_scenario(kind, FALSE, orbit, level) =
          ((Base(orbit) \o Configured) \o <<>>) \o Launched(<<>>, <<>>)
    BY <1>2, <1>10 DEF deploy_scenario, DeployQPEP
  <2>2. (Base(orbit) \o Configured) \o <<>> = Base(orbit) \o Configured
    <3>1. Base(orbit) \o Configured \in Seq(Orders)
      BY <1>5, ConcatProperties
    <3> QED
      BY <3>1, ConcatEmptySeq
  <2>3. PICK x \in Programs : x = <<>>
    BY <1>4
  <2>4. Promised(kind, orbit, level, None) = QpepNet(orbit, Proxied, x, x)
    BY <1>10, <2>3, Promises DEF QpepNet
  <2> QED
    BY <1>3, <2>1, <2>2, <2>3, <2>4
<1>11. CASE kind = "QPEP Ack"
  <2>1. deploy_scenario(kind, FALSE, orbit, level) =
          (Base(orbit) \o Configured) \o Launched(<<"acks", level>>, <<"decimation">>)
    BY <1>2, <1>11 DEF deploy_scenario, DeployQPEPAck, KilledOrConfigured
  <2>2. PICK x \in Programs : x = <<"acks", level>>
    BY <1>4
  <2>3. PICK y \in Programs : y = <<"decimation">>
    BY <1>4
  <2>4. Promised(kind, orbit, level, None) = QpepNet(orbit, Proxied, x, y)
    BY <1>11, <2>2, <2>3, Promises DEF QpepNet
  <2> QED
    BY <1>3, <2>1, <2>2, <2>3, <2>4
<1>12. CASE kind = "QPEP Congestion"
  <2>1. deploy_scenario(kind, FALSE, orbit, level) =
          (Base(orbit) \o Configured) \o Launched(<<"congestion", level>>, <<"congestion", level>>)
    BY <1>2, <1>12 DEF deploy_scenario, DeployQPEPCongestion, KilledOrConfigured
  <2>2. PICK x \in Programs : x = <<"congestion", level>>
    BY <1>4
  <2>3. Promised(kind, orbit, level, None) = QpepNet(orbit, Proxied, x, x)
    BY <1>12, <2>2, Promises DEF QpepNet
  <2> QED
    BY <1>3, <2>1, <2>2, <2>3
<1> QED
  BY <1>6, <1>7, <1>8, <1>9, <1>10, <1>11, <1>12 DEF Kinds

-----------------------------------------------------------------------------
(* Benchmarks.                                                             *)

LEMMA ByTimes ==
  ASSUME NEW A, NEW body, Takes(body, A, A), NEW n \in Nat
  PROVE  Takes(Times(n, body), A, A)
<1> DEFINE rounds == [i \in 1..n |-> body]
<1>1. DOMAIN rounds = 1..n /\ rounds = [i \in 1..n |-> rounds[i]] /\ \A i \in 1..n : rounds[i] = body
  OBVIOUS
<1>2. A \subseteq Known
  BY DEF Takes
<1>3. Times(n, body) = FlattenSeq(rounds)
  BY DEF Times
<1> HIDE DEF rounds
<1> QED
  BY <1>1, <1>2, <1>3, TakesRounds

\* All that IperfBenchmark.run meets is one network.
LEMMA ByIperf ==
  ASSUME NEW net, NEW n \in Nat
  PROVE  Takes(IperfRun(n), On(net, {net}), On(net, {net}))
<1> DEFINE A == On(net, {net})
           rounds == [i \in DOMAIN Sizes |-> run_iperf_test(Sizes[i])]
<1>1. PICK k \in Nat : k = Len(Sizes) /\ DOMAIN Sizes = 1..k
  BY ExperimentsAssumption, LenProperties
<1>2. \A i \in 1..k : Sizes[i] \in STRING
  BY <1>1, ExperimentsAssumption, ElementOfSeq
<1>3. A \subseteq Known
  BY StagesKnown DEF On
<1>4. \A size \in STRING : Takes(run_iperf_test(size), A, A)
  <2> TAKE size \in STRING
  <2> DEFINE c == Cmd("pkill app", "ws-gw", "iperf3")
             d == Cmd("app", "ws-gw", "iperf3")
             e == Cmd("iperf", "ws-st", size)
  <2>1. /\ c \in Orders /\ d \in Orders /\ e \in Orders
        /\ c.op = "pkill app" /\ d.op = "app" /\ e.op = "iperf"
    BY Ordered DEF Apps, Cmd
  <2>2. run_iperf_test(size) = <<c, d, e>>
    BY DEF run_iperf_test
  <2> HIDE DEF c, d, e
  <2>3. Takes(<<c>>, A, A) /\ Takes(<<d>>, A, A)
    BY <2>1, ByIdle DEF Idle, On
  <2>4. Takes(<<e>>, A, A)
    BY <2>1, ByTransfer
  <2> HIDE DEF A
  <2> QED
    BY <2>1, <2>2, <2>3, <2>4, TakesThree
<1>5. DOMAIN rounds = 1..k /\ rounds = [i \in 1..k |-> rounds[i]]
  BY <1>1
<1>6. \A i \in 1..k : Takes(rounds[i], A, A)
  <2> HIDE DEF A
  <2> QED
    BY <1>1, <1>2, <1>4
<1>7. IperfRun(n) = Times(n, FlattenSeq(rounds))
  BY DEF IperfRun, Each
<1> HIDE DEF A, rounds
<1>8. Takes(FlattenSeq(rounds), A, A)
  BY <1>3, <1>5, <1>6, TakesRounds
<1> QED
  BY <1>7, <1>8, ByTimes DEF A

\* One visit of each site meets one network.
LEMMA BySites ==
  ASSUME NEW net
  PROVE  Takes(Each(Sites, Browse), On(net, {net}), On(net, {net}))
<1> DEFINE A == On(net, {net})
           rounds == [i \in DOMAIN Sites |-> Browse(Sites[i])]
<1>1. PICK k \in Nat : k = Len(Sites) /\ DOMAIN Sites = 1..k
  BY ExperimentsAssumption, LenProperties
<1>2. \A i \in 1..k : Sites[i] \in STRING
  BY <1>1, ExperimentsAssumption, ElementOfSeq
<1>3. A \subseteq Known
  BY StagesKnown DEF On
<1>4. \A site \in STRING : Takes(Browse(site), A, A)
  <2> TAKE site \in STRING
  <2> DEFINE e == Cmd("browse", "ws-st", site)
  <2>1. e \in Orders /\ e.op = "browse"
    BY Ordered DEF Cmd
  <2>2. Browse(site) = <<e>>
    BY DEF Browse
  <2> HIDE DEF e
  <2> QED
    BY <2>1, <2>2, ByTransfer
<1>5. DOMAIN rounds = 1..k /\ rounds = [i \in 1..k |-> rounds[i]]
  BY <1>1
<1>6. \A i \in 1..k : Takes(rounds[i], A, A)
  <2> HIDE DEF A
  <2> QED
    BY <1>1, <1>2, <1>4
<1>7. Each(Sites, Browse) = FlattenSeq(rounds)
  BY DEF Each
<1> HIDE DEF A, rounds
<1> QED
  BY <1>3, <1>5, <1>6, <1>7, TakesRounds DEF A

LEMMA ByDefaultRoute ==
  ASSUME NEW net, NEW met
  PROVE  Takes(Default("ws-st"), On(net, met), On(net, met))
<1>1. Over("ws-st", "terminal", "space") = "space" /\ Over("ws-st", "ws-st", "space") = "space"
  BY DEF Over
<1>2. "ws-st" \in Routed
  BY DEF Routed
<1>3. Takes(Default("ws-st"), Stage(TRUE, "space", "space", net, met),
            Stage(TRUE, Over("ws-st", "terminal", "space"), Over("ws-st", "ws-st", "space"), net, met))
  BY <1>2, ByDefault
<1> QED
  BY <1>1, <1>3 DEF On

\* Deploying anew between two iterations leads back to the same network.
LEMMA BySitespeed ==
  ASSUME NEW net, NEW n \in Nat, NEW redeploy,
         Takes(redeploy, On(net, {net}), On(net, {net}))
  PROVE  Takes(SitespeedRun(n + 1, redeploy), On(net, {net}), On(net, {net}))
<1> DEFINE A == On(net, {net})
           body == (redeploy \o Default("ws-st")) \o Each(Sites, Browse)
<1>1. SitespeedRun(n + 1, redeploy) =
        (Default("ws-st") \o Each(Sites, Browse)) \o Times(n, body)
  <2>1. n + 1 - 1 = n
    OBVIOUS
  <2> QED
    BY <2>1 DEF SitespeedRun
<1>2. Takes(Default("ws-st"), A, A) /\ Takes(Each(Sites, Browse), A, A)
  BY ByDefaultRoute, BySites
<1> HIDE DEF A
<1>3. Takes(redeploy, A, A)
  BY DEF A
<1>4. Takes(redeploy \o Default("ws-st"), A, A)
  BY <1>2, <1>3, TakesThen
<1>5. Takes(body, A, A)
  BY <1>2, <1>4, TakesThen
<1> HIDE DEF body
<1>6. Takes(Times(n, body), A, A)
  BY <1>5, ByTimes
<1>7. Takes(Default("ws-st") \o Each(Sites, Browse), A, A)
  BY <1>2, TakesThen
<1>8. Takes((Default("ws-st") \o Each(Sites, Browse)) \o Times(n, body), A, A)
  BY <1>6, <1>7, TakesThen
<1> QED
  BY <1>1, <1>8 DEF A

\* Setting the loss changes the loss of a deployed scenario.
LEMMA ByLoss ==
  ASSUME NEW kind \in Kinds, NEW orbit, NEW level, NEW before, NEW plr \in Losses, NEW met
  PROVE  Takes(Loss(plr), On(Promised(kind, orbit, level, before), met),
               On(Promised(kind, orbit, level, plr), met))
<1> DEFINE c == Cmd("loss", "gateway", plr)
           A == On(Promised(kind, orbit, level, before), met)
           B == On(Promised(kind, orbit, level, plr), met)
<1>1. c \in Orders /\ c.op = "loss"
  BY Ordered DEF Cmd, Lossy
<1>2. Promised(kind, orbit, level, plr) = Change(c, Promised(kind, orbit, level, before))
  <2>1. [Lost(before) EXCEPT !["gateway"] = plr] = Lost(plr)
    BY DEF Lost, Lossy
  <2> DEFINE n == Promised(kind, orbit, level, before)
  <2>2. \A p : Promised(kind, orbit, level, p) =
                 Net(orbit, p, n.proxied, n.qpep, n.pepsal, n.vpn)
    BY DEF Promised, Net, Lost
  <2> HIDE DEF n
  <2>3. Change(c, Net(orbit, before, n.proxied, n.qpep, n.pepsal, n.vpn)) =
          Net(orbit, plr, n.proxied, n.qpep, n.pepsal, n.vpn)
    BY <2>1 DEF Change, Cmd, Net
  <2> QED
    BY <2>2, <2>3
<1>3. Loss(plr) = <<>> \o <<c>>
  BY DEF Loss, set_plr_percentage
<1> HIDE DEF c
<1>4. Takes(<<c>>, A, B)
  BY <1>1, <1>2, ByChange DEF Changing, On
<1>5. <<>> \o <<c>> = <<c>>
  BY <1>1, ConcatEmptySeq
<1> QED
  BY <1>3, <1>4, <1>5

-----------------------------------------------------------------------------
(* Scripts.                                                                *)

\* Nothing is asked of the state.
LEMMA Everything == Anything(Settings) = Known /\ Settings \in SUBSET Settings
BY DEF Anything, Known

\* On the network of a label, with all that the benchmark has met met there.
There(s, level, plr) ==
  LET net == Promised(s[2], s[3], level, plr) IN On(net, {net})

LEMMA ThereIsTyped ==
  ASSUME NEW s \in Scripts, NEW level \in Levels, NEW plr \in Rates
  PROVE  /\ s[1] \in ScriptNames /\ s[2] \in Kinds /\ s[3] \in Orbital
         /\ Promised(s[2], s[3], level, plr) \in Settings
         /\ Label(s, level, plr) \in Labels
         /\ Promise(Label(s, level, plr)) = Promised(s[2], s[3], level, plr)
<1>1. s \in ScriptNames \X Kinds \X {"GEO", "LEO"}
  BY ExperimentsAssumption
<1>2. s[1] \in ScriptNames /\ s[2] \in Kinds /\ s[3] \in Orbital
  BY <1>1 DEF Orbital
<1>3. Promised(s[2], s[3], level, plr) \in Settings
  BY <1>2, PromisedTyped
<1>4. Label(s, level, plr) \in Labels
  BY <1>2 DEF Label, Labels, Rates
<1>5. Promise(Label(s, level, plr)) = Promised(s[2], s[3], level, plr)
  BY DEF Promise, Label
<1> QED
  BY <1>2, <1>3, <1>4, <1>5

\* The scenario of a script is deployed from whatever there is.
LEMMA DeploysThere ==
  ASSUME NEW s \in Scripts, NEW level \in Levels, NEW met \in SUBSET Settings
  PROVE  Takes(Deploy(s, level), Anything(met), On(Promised(s[2], s[3], level, None), met))
<1>1. s[2] \in Kinds /\ s[3] \in Orbital
  BY ThereIsTyped DEF Rates
<1> QED
  BY <1>1, Deploys DEF Deploy

\* What was measured on the network of a label may be filed under it.
LEMMA Records ==
  ASSUME NEW s \in Scripts, NEW level \in Levels, NEW plr \in Rates, NEW p, NEW A,
         Takes(p, A, There(s, level, plr))
  PROVE  Takes(p \o Record(s, level, plr), A, There(s, level, plr))
<1> DEFINE net == Promised(s[2], s[3], level, plr)
           q == Record(s, level, plr)
<1>1. There(s, level, plr) = On(net, {net})
  BY DEF There
<1>2. q = <<Cmd("record", "", Label(s, level, plr))>>
  BY DEF Record
<1>3. Label(s, level, plr) \in Labels /\ {net} \subseteq {Promise(Label(s, level, plr))}
  BY ThereIsTyped
<1> HIDE DEF net, q
<1>4. Takes(q, There(s, level, plr), There(s, level, plr))
  BY <1>1, <1>2, <1>3, ByRecord
<1>5. Takes(p \o q, A, There(s, level, plr))
  BY <1>4, TakesThen
<1> QED
  BY <1>5 DEF q

\* Measuring on a network met alone until now, or anew.
LEMMA Narrows ==
  ASSUME NEW net, NEW met, met \subseteq {net}
  PROVE  On(net, met) \subseteq On(net, {net}) /\ On(net, met) \subseteq Known
BY DEF On, Stage

\* A new benchmark is where its label says.
LEMMA FreshThere ==
  ASSUME NEW s \in Scripts, NEW level \in Levels, NEW plr \in Rates, NEW met
  PROVE  Takes(<<Plainly("fresh")>>, On(Promised(s[2], s[3], level, plr), met), There(s, level, plr))
<1> DEFINE net == Promised(s[2], s[3], level, plr)
           p == <<Plainly("fresh")>>
<1>1. Takes(p, On(net, met), On(net, {}))
  BY ByFresh
<1>2. On(net, {}) \subseteq On(net, {net}) /\ On(net, {net}) \subseteq Known
  BY Narrows
<1>3. There(s, level, plr) = On(net, {net})
  BY DEF There
<1> HIDE DEF net, p
<1>4. Takes(p, On(net, met), On(net, {net}))
  BY <1>1, <1>2, TakesWeaker
<1> QED
  BY <1>3, <1>4 DEF net, p

\* An iperf benchmark stays on the network of its label.
LEMMA IperfThere ==
  ASSUME NEW s \in Scripts, NEW level \in Levels, NEW plr \in Rates, NEW n \in Nat
  PROVE  Takes(run_benchmarks(s, TRUE, IperfRun(n)), There(s, level, plr), There(s, level, plr))
<1>1. Takes(IperfRun(n), There(s, level, plr), There(s, level, plr))
  BY ByIperf DEF There
<1>2. run_benchmarks(s, TRUE, IperfRun(n)) = <<>> \o IperfRun(n)
  BY DEF run_benchmarks
<1>3. <<>> \o IperfRun(n) = IperfRun(n)
  BY <1>1, ConcatEmptySeq DEF Takes
<1> QED
  BY <1>1, <1>2, <1>3

\* A new benchmark, deployed from nothing.
LEMMA FreshDeploy ==
  ASSUME NEW s \in Scripts
  PROVE  Takes(<<Plainly("fresh")>> \o Deploy(s, 0), Known, There(s, 0, None))
<1> DEFINE net == Promised(s[2], s[3], 0, None)
           p == <<Plainly("fresh")>>
<1>0. 0 \in Levels /\ {} \in SUBSET Settings
  BY ExperimentsAssumption
<1>1. Takes(p, Known, Anything({}))
  BY ByFreshAnywhere
<1>2. Takes(Deploy(s, 0), Anything({}), On(net, {}))
  BY <1>0, DeploysThere
<1>3. On(net, {}) \subseteq On(net, {net}) /\ On(net, {net}) \subseteq Known
  BY Narrows
<1>4. There(s, 0, None) = On(net, {net})
  BY DEF There
<1> HIDE DEF net, p
<1>5. Takes(p \o Deploy(s, 0), Known, On(net, {}))
  BY <1>1, <1>2, TakesThen
<1>6. Takes(p \o Deploy(s, 0), Known, On(net, {net}))
  BY <1>3, <1>5, TakesWeaker, StagesKnown
<1> QED
  BY <1>4, <1>6 DEF p

LEMMA ThereKnown ==
  ASSUME NEW s, NEW level, NEW plr
  PROVE  There(s, level, plr) \subseteq Known
BY Narrows DEF There

LEMMA PlainRates == None \in Rates /\ Losses \subseteq Rates /\ 0 \in Levels
BY ExperimentsAssumption DEF Rates

\* On the network of a scenario at some packet loss.
AtSomeLoss(s, level) ==
  {a \in Known : \E plr \in Rates : a \in On(Promised(s[2], s[3], level, plr), Settings)}

LEMMA SomeLoss ==
  ASSUME NEW s \in Scripts, NEW level \in Levels, NEW plr \in Rates
  PROVE  /\ There(s, level, plr) \subseteq AtSomeLoss(s, level)
         /\ On(Promised(s[2], s[3], level, plr), Settings) \subseteq AtSomeLoss(s, level)
         /\ AtSomeLoss(s, level) \subseteq Known
<1>1. Promised(s[2], s[3], level, plr) \in Settings
  BY ThereIsTyped
<1>2. On(Promised(s[2], s[3], level, plr), Settings) \subseteq AtSomeLoss(s, level)
  BY DEF AtSomeLoss, On, Stage
<1>3. There(s, level, plr) \subseteq On(Promised(s[2], s[3], level, plr), Settings)
  BY <1>1 DEF There, On, Stage
<1>4. AtSomeLoss(s, level) \subseteq Known
  BY DEF AtSomeLoss
<1> QED
  BY <1>2, <1>3, <1>4

\* Setting the loss leads from any loss to the one that is set.
LEMMA LossFromSome ==
  ASSUME NEW s \in Scripts, NEW level \in Levels, NEW plr \in Losses
  PROVE  Takes(Loss(plr), AtSomeLoss(s, level), On(Promised(s[2], s[3], level, plr), Settings))
<1> DEFINE B == On(Promised(s[2], s[3], level, plr), Settings)
<1>1. s[2] \in Kinds /\ plr \in Rates
  BY ThereIsTyped, PlainRates
<1>2. \A before : Takes(Loss(plr), On(Promised(s[2], s[3], level, before), Settings), B)
  BY <1>1, ByLoss
<1> HIDE DEF B
<1>3. B \subseteq Known /\ Loss(plr) \in Seq(Orders)
  BY <1>2 DEF Takes
<1>4. ASSUME NEW a \in AtSomeLoss(s, level) PROVE \E b \in B : Leads(Loss(plr), a, b)
  <2>1. PICK before \in Rates : a \in On(Promised(s[2], s[3], level, before), Settings)
    BY DEF AtSomeLoss
  <2> QED
    BY <1>2, <2>1 DEF Takes
<1>5. AtSomeLoss(s, level) \subseteq Known
  BY DEF AtSomeLoss
<1>6. Takes(Loss(plr), AtSomeLoss(s, level), B)
  BY <1>3, <1>4, <1>5 DEF Takes
<1> QED
  BY <1>6 DEF B

\* ack_bundling_iperf_scenario files every batch rightly.
LEMMA TakesAckBundling ==
  ASSUME NEW s \in Scripts
  PROVE  Takes(ack_bundling_iperf_scenario(s), Known, Known)
<1> DEFINE AtPlr(level, plr) ==
             Loss(plr) \o <<Plainly("fresh")>>
             \o run_benchmarks(s, TRUE, IperfRun(Iterations)) \o Record(s, level, plr)
           Inner(level) == [i \in DOMAIN Plrs |-> AtPlr(level, Plrs[i])]
           AtLevel(level) == Deploy(s, level) \o FlattenSeq(Inner(level))
           outer == [i \in DOMAIN AckLevels |-> AtLevel(AckLevels[i])]
<1>1. ack_bundling_iperf_scenario(s) = FlattenSeq(outer)
  BY DEF ack_bundling_iperf_scenario, Each
<1>2. PICK k \in Nat : k = Len(Plrs) /\ DOMAIN Plrs = 1..k
  BY ExperimentsAssumption, LenProperties
<1>3. \A i \in 1..k : Plrs[i] \in Losses
  BY <1>2, ExperimentsAssumption, ElementOfSeq
<1>4. PICK m \in Nat : m = Len(AckLevels) /\ DOMAIN AckLevels = 1..m
  BY ExperimentsAssumption, LenProperties
<1>5. \A i \in 1..m : AckLevels[i] \in Levels
  BY <1>4, ExperimentsAssumption, ElementOfSeq
<1>6. ASSUME NEW level \in Levels, NEW plr \in Losses
      PROVE  Takes(AtPlr(level, plr), AtSomeLoss(s, level), AtSomeLoss(s, level))
  <2> DEFINE A == AtSomeLoss(s, level)
             B == On(Promised(s[2], s[3], level, plr), Settings)
             T == There(s, level, plr)
             fresh == <<Plainly("fresh")>>
             run == run_benchmarks(s, TRUE, IperfRun(Iterations))
  <2>0. plr \in Rates /\ Iterations \in Nat
    BY PlainRates, ExperimentsAssumption
  <2>1. Takes(Loss(plr), A, B)
    BY LossFromSome
  <2>2. Takes(fresh, B, T)
    BY <2>0, FreshThere
  <2>3. Takes(run, T, T)
    BY <2>0, IperfThere
  <2>4. T \subseteq A /\ A \subseteq Known
    BY <2>0, SomeLoss
  <2> HIDE DEF A, B, fresh, run
  <2>5. Takes(Loss(plr) \o fresh, A, T)
    BY <2>1, <2>2, TakesThen
  <2>6. Takes((Loss(plr) \o fresh) \o run, A, T)
    BY <2>3, <2>5, TakesThen
  <2>7. Takes(((Loss(plr) \o fresh) \o run) \o Record(s, level, plr), A, T)
    BY <2>0, <2>6, Records
  <2> HIDE DEF T
  <2>8. Takes(((Loss(plr) \o fresh) \o run) \o Record(s, level, plr), A, A)
    BY <2>4, <2>7, TakesWeaker
  <2> QED
    BY <2>8 DEF A, fresh, run
<1>7. ASSUME NEW level \in Levels PROVE Takes(AtLevel(level), Known, Known)
  <2> DEFINE A == AtSomeLoss(s, level)
             inner == Inner(level)
  <2>1. A \subseteq Known /\ On(Promised(s[2], s[3], level, None), Settings) \subseteq A
    BY SomeLoss, PlainRates
  <2>2. \A i \in 1..k : inner[i] = AtPlr(level, Plrs[i])
    BY <1>2
  <2>3. DOMAIN inner = 1..k /\ inner = [i \in 1..k |-> inner[i]]
    BY <1>2
  <2> HIDE DEF inner
  <2>4. \A i \in 1..k : Takes(inner[i], A, A)
    BY <1>3, <1>6, <2>2
  <2> HIDE DEF A, AtPlr
  <2>5. Takes(FlattenSeq(inner), A, A)
    BY <2>1, <2>3, <2>4, TakesRounds
  <2>6. Takes(Deploy(s, level), Known, On(Promised(s[2], s[3], level, None), Settings))
    BY Everything, DeploysThere
  <2>7. Takes(Deploy(s, level), Known, A)
    BY <2>1, <2>6, TakesWeaker
  <2>8. Takes(Deploy(s, level) \o FlattenSeq(inner), Known, A)
    BY <2>5, <2>7, TakesThen
  <2>9. Takes(Deploy(s, level) \o FlattenSeq(inner), Known, Known)
    BY <2>1, <2>8, TakesWeaker
  <2> QED
    BY <2>9 DEF inner
<1>8. \A i \in 1..m : outer[i] = AtLevel(AckLevels[i])
  BY <1>4
<1>9. DOMAIN outer = 1..m /\ outer = [i \in 1..m |-> outer[i]]
  BY <1>4
<1> HIDE DEF AtLevel, Inner, AtPlr, outer
<1>10. \A i \in 1..m : Takes(outer[i], Known, Known)
  BY <1>5, <1>7, <1>8
<1>11. Takes(FlattenSeq(outer), Known, Known)
  BY <1>9, <1>10, TakesRounds
<1> QED
  BY <1>1, <1>11

\* iperf_test_scenario files its batch rightly.
LEMMA TakesIperfTest ==
  ASSUME NEW s \in Scripts
  PROVE  Takes(iperf_test_scenario(s), Known, Known)
<1> DEFINE fresh == <<Plainly("fresh")>>
           run == IperfRun(Iterations)
           T == There(s, 0, None)
<1>0. None \in Rates /\ 0 \in Levels /\ Iterations \in Nat
  BY PlainRates, ExperimentsAssumption
<1>1. iperf_test_scenario(s) = (fresh \o (Deploy(s, 0) \o run)) \o Record(s, 0, None)
  BY DEF iperf_test_scenario, run_benchmarks
<1>2. Takes(fresh \o Deploy(s, 0), Known, T)
  BY FreshDeploy
<1>3. Takes(run, T, T)
  BY <1>0, ByIperf DEF There
<1>4. fresh \in Seq(Orders) /\ Deploy(s, 0) \in Seq(Orders) /\ run \in Seq(Orders)
  BY <1>0, <1>3, ByFreshAnywhere, DeploysThere, Everything DEF Takes
<1> HIDE DEF fresh, run, T
<1>5. Takes((fresh \o Deploy(s, 0)) \o run, Known, T)
  BY <1>2, <1>3, TakesThen
<1>6. (fresh \o Deploy(s, 0)) \o run = fresh \o (Deploy(s, 0) \o run)
  BY <1>4, ConcatAssociative
<1>7. Takes((fresh \o (Deploy(s, 0) \o run)) \o Record(s, 0, None), Known, T)
  BY <1>0, <1>5, <1>6, Records DEF T
<1> QED
  BY <1>1, <1>7, TakesWeaker, ThereKnown DEF T

\* plt_test_scenario files nothing and obeys the order of the commands.
LEMMA TakesPltTest ==
  ASSUME NEW s \in Scripts
  PROVE  Takes(plt_test_scenario(s), Known, Known)
<1> DEFINE fresh == <<Plainly("fresh")>>
           run == SitespeedRun(Iterations, Deploy(s, 0))
           T == There(s, 0, None)
           net == Promised(s[2], s[3], 0, None)
<1>0. None \in Rates /\ 0 \in Levels /\ Iterations \in Nat /\ Iterations - 1 \in Nat
      /\ Iterations - 1 + 1 = Iterations
  BY PlainRates, ExperimentsAssumption
<1>1. plt_test_scenario(s) = ((fresh \o Deploy(s, 0)) \o (<<>> \o run)) \o Record(s, 0, None)
  BY DEF plt_test_scenario, run_benchmarks
<1>2. Takes(fresh \o Deploy(s, 0), Known, T)
  BY FreshDeploy
<1>3. Takes(Deploy(s, 0), On(net, {net}), On(net, {net}))
  <2>1. {net} \in SUBSET Settings
    BY <1>0, ThereIsTyped
  <2>2. On(net, {net}) \subseteq Anything({net})
    BY StagesKnown DEF On
  <2>3. Takes(Deploy(s, 0), Anything({net}), On(net, {net}))
    BY <1>0, <2>1, DeploysThere
  <2>4. On(net, {net}) \subseteq Known
    BY Narrows
  <2> HIDE DEF net
  <2> QED
    BY <2>2, <2>3, <2>4, TakesWeaker
<1>4. Takes(run, T, T)
  <2>2. T = On(net, {net})
    BY DEF There
  <2> HIDE DEF net, T
  <2>3. Takes(SitespeedRun(Iterations - 1 + 1, Deploy(s, 0)), On(net, {net}), On(net, {net}))
    BY <1>0, <1>3, BySitespeed
  <2> QED
    BY <1>0, <2>2, <2>3
<1>5. <<>> \o run = run
  BY <1>4, ConcatEmptySeq DEF Takes
<1> HIDE DEF fresh, run, T
<1>6. Takes((fresh \o Deploy(s, 0)) \o run, Known, T)
  BY <1>2, <1>4, TakesThen
<1>7. Takes(((fresh \o Deploy(s, 0)) \o run) \o Record(s, 0, None), Known, T)
  BY <1>0, <1>6, Records DEF T
<1> QED
  BY <1>1, <1>5, <1>7, TakesWeaker, ThereKnown DEF T

\* SitespeedBenchmark.run with one iteration meets one network.
LEMMA BySitespeedOnce ==
  ASSUME NEW net, NEW redeploy
  PROVE  Takes(SitespeedRun(1, redeploy), On(net, {net}), On(net, {net}))
<1> DEFINE body == redeploy \o Default("ws-st") \o Each(Sites, Browse)
           A == On(net, {net})
           q == Default("ws-st") \o Each(Sites, Browse)
<1>1. Times(0, body) = <<>>
  <2> DEFINE rounds == [i \in 1..0 |-> body]
  <2>1. rounds \in Seq({}) /\ rounds = <<>> /\ Len(rounds) = 0
    OBVIOUS
  <2> HIDE DEF rounds
  <2>2. FlattenSeq(rounds) = <<>>
    BY <2>1 DEF FlattenSeq
  <2> QED
    BY <2>2 DEF Times, rounds
<1>2. SitespeedRun(1, redeploy) = q \o Times(0, body)
  <2>1. 1 - 1 = 0
    OBVIOUS
  <2> QED
    BY <2>1 DEF SitespeedRun
<1>3. Takes(Default("ws-st"), A, A) /\ Takes(Each(Sites, Browse), A, A)
  BY ByDefaultRoute, BySites
<1> HIDE DEF A, body
<1>4. Takes(q, A, A)
  BY <1>3, TakesThen
<1> HIDE DEF q
<1>5. q \o <<>> = q
  BY <1>4, ConcatEmptySeq DEF Takes
<1> QED
  BY <1>1, <1>2, <1>4, <1>5 DEF A

\* plr_plt_scenario files every batch rightly.
LEMMA TakesPlrPlt ==
  ASSUME NEW s \in Scripts
  PROVE  Takes(plr_plt_scenario(s), Known, Known)
<1> DEFINE run == SitespeedRun(1, Deploy(s, 0))
           Batch(plr) ==
             <<Plainly("fresh")>> \o Deploy(s, 0) \o Loss(plr)
             \o run_benchmarks(s, TRUE, run) \o Record(s, 0, plr)
           outer == [i \in DOMAIN Plrs |-> Times(MetaIterations, Batch(Plrs[i]))]
<1>1. plr_plt_scenario(s) = FlattenSeq(outer)
  BY DEF plr_plt_scenario, Each
<1>2. PICK k \in Nat : k = Len(Plrs) /\ DOMAIN Plrs = 1..k
  BY ExperimentsAssumption, LenProperties
<1>3. \A i \in 1..k : Plrs[i] \in Losses
  BY <1>2, ExperimentsAssumption, ElementOfSeq
<1>4. ASSUME NEW plr \in Losses PROVE Takes(Batch(plr), Known, Known)
  <2> DEFINE fresh == <<Plainly("fresh")>>
             net == Promised(s[2], s[3], 0, None)
             lossy == Promised(s[2], s[3], 0, plr)
             T == There(s, 0, plr)
  <2>0. None \in Rates /\ plr \in Rates /\ 0 \in Levels /\ {} \in SUBSET Settings
    BY PlainRates
  <2>1. Batch(plr) = (((fresh \o Deploy(s, 0)) \o Loss(plr)) \o (<<>> \o run)) \o Record(s, 0, plr)
    BY DEF run_benchmarks
  <2>2. Takes(fresh, Known, Anything({}))
    BY ByFreshAnywhere
  <2>3. Takes(Deploy(s, 0), Anything({}), On(net, {}))
    BY <2>0, DeploysThere
  <2>4. Takes(Loss(plr), On(net, {}), On(lossy, {}))
    BY <2>0, ByLoss, ThereIsTyped
  <2>5. On(lossy, {}) \subseteq T /\ T \subseteq Known
    BY Narrows DEF There
  <2>6. Takes(run, T, T)
    BY BySitespeedOnce DEF There
  <2>7. <<>> \o run = run
    BY <2>6, ConcatEmptySeq DEF Takes
  <2> HIDE DEF fresh, run, net, lossy, T, Batch
  <2>8. Takes(fresh \o Deploy(s, 0), Known, On(net, {}))
    BY <2>2, <2>3, TakesThen
  <2>9. Takes((fresh \o Deploy(s, 0)) \o Loss(plr), Known, On(lossy, {}))
    BY <2>4, <2>8, TakesThen
  <2>10. Takes((fresh \o Deploy(s, 0)) \o Loss(plr), Known, T)
    BY <2>5, <2>9, TakesWeaker
  <2>11. Takes(((fresh \o Deploy(s, 0)) \o Loss(plr)) \o run, Known, T)
    BY <2>6, <2>10, TakesThen
  <2>12. Takes((((fresh \o Deploy(s, 0)) \o Loss(plr)) \o run) \o Record(s, 0, plr), Known, T)
    BY <2>0, <2>11, Records DEF T
  <2> QED
    BY <2>1, <2>5, <2>7, <2>12, TakesWeaker
<1> HIDE DEF Batch, run
<1>5. \A i \in 1..k : Takes(outer[i], Known, Known)
  BY <1>2, <1>3, <1>4, ByTimes, ExperimentsAssumption
<1>6. DOMAIN outer = 1..k /\ outer = [i \in 1..k |-> outer[i]]
  BY <1>2
<1> HIDE DEF outer
<1> QED
  BY <1>1, <1>5, <1>6, TakesRounds

\* plr_test_scenario files every batch rightly.
LEMMA TakesPlrTest ==
  ASSUME NEW s \in Scripts
  PROVE  Takes(plr_test_scenario(s), Known, Known)
<1> DEFINE Run(plr) == <<Plainly("fresh")>> \o run_benchmarks(s, TRUE, IperfRun(1))
                       \o Record(s, 0, plr) \o <<Cmd("check link", "", plr)>>
           Batch(plr) == Deploy(s, 0) \o Loss(plr) \o Times(Iterations, Run(plr))
           outer == [i \in DOMAIN Plrs |-> Times(MetaIterations, Batch(Plrs[i]))]
<1>1. plr_test_scenario(s) = FlattenSeq(outer)
  BY DEF plr_test_scenario, Each
<1>2. PICK k \in Nat : k = Len(Plrs) /\ DOMAIN Plrs = 1..k
  BY ExperimentsAssumption, LenProperties
<1>3. \A i \in 1..k : Plrs[i] \in Losses
  BY <1>2, ExperimentsAssumption, ElementOfSeq
<1>4. ASSUME NEW plr \in Losses PROVE Takes(Batch(plr), Known, Known)
  <2> DEFINE fresh == <<Plainly("fresh")>>
             run == run_benchmarks(s, TRUE, IperfRun(1))
             check == <<Cmd("check link", "", plr)>>
             net == Promised(s[2], s[3], 0, None)
             lossy == Promised(s[2], s[3], 0, plr)
             A == On(lossy, Settings)
             T == There(s, 0, plr)
  <2>0. None \in Rates /\ plr \in Rates /\ 0 \in Levels /\ 1 \in Nat /\ Iterations \in Nat
    BY PlainRates, ExperimentsAssumption
  <2>1. Takes(Deploy(s, 0), Known, On(net, Settings))
    BY <2>0, DeploysThere, Everything
  <2>2. Takes(Loss(plr), On(net, Settings), A)
    BY <2>0, ByLoss, ThereIsTyped
  <2>3. Takes(fresh, A, T)
    BY <2>0, FreshThere
  <2>4. Takes(run, T, T)
    BY <2>0, IperfThere
  <2>5. Takes(check, T, T)
    <3> DEFINE c == Cmd("check link", "", plr)
    <3>1. c \in Orders /\ c.op = "check link"
      BY Ordered DEF Cmd
    <3> HIDE DEF c
    <3>2. Takes(<<c>>, T, T)
      BY <3>1, ByIdle DEF Idle, There, On
    <3> QED
      BY <3>2 DEF c
  <2>6. T \subseteq A /\ A \subseteq Known
    BY <2>0, ThereIsTyped DEF There, On, Stage
  <2> HIDE DEF fresh, run, check, net, lossy, A, T
  <2>7. Takes(fresh \o run, A, T)
    BY <2>3, <2>4, TakesThen
  <2>8. Takes((fresh \o run) \o Record(s, 0, plr), A, T)
    BY <2>0, <2>7, Records DEF T
  <2>9. Takes(((fresh \o run) \o Record(s, 0, plr)) \o check, A, T)
    BY <2>5, <2>8, TakesThen
  <2>10. Takes(((fresh \o run) \o Record(s, 0, plr)) \o check, A, A)
    BY <2>6, <2>9, TakesWeaker
  <2>11. Takes(Run(plr), A, A)
    BY <2>10 DEF fresh, run, check
  <2> HIDE DEF Run
  <2>12. Takes(Times(Iterations, Run(plr)), A, A)
    BY <2>0, <2>11, ByTimes
  <2>13. Takes(Deploy(s, 0) \o Loss(plr), Known, A)
    BY <2>1, <2>2, TakesThen
  <2>14. Takes((Deploy(s, 0) \o Loss(plr)) \o Times(Iterations, Run(plr)), Known, A)
    BY <2>12, <2>13, TakesThen
  <2> QED
    BY <2>6, <2>14, TakesWeaker
<1> HIDE DEF Batch, Run
<1>5. \A i \in 1..k : Takes(outer[i], Known, Known)
  BY <1>2, <1>3, <1>4, ByTimes, ExperimentsAssumption
<1>6. DOMAIN outer = 1..k /\ outer = [i \in 1..k |-> outer[i]]
  BY <1>2
<1> HIDE DEF outer
<1> QED
  BY <1>1, <1>5, <1>6, TakesRounds

LEMMA ByIdleOn ==
  ASSUME NEW c \in Orders, c.op \in Idle, NEW net, NEW met
  PROVE  Takes(<<c>>, On(net, met), On(net, met))
BY ByIdle DEF On

\* The browser example, from whatever there is.
LEMMA TakesBrowser ==
  ASSUME NEW s \in Scripts
  PROVE  Takes(BrowserExample(s[2], s[3], TRUE), Known, Known)
<1> DEFINE c == Cmd("app", "ws-st", "qupzilla")
           d == Cmd("app", "satellite", "wireshark")
           p == deploy_scenario(s[2], FALSE, s[3], 0)
           A == On(Promised(s[2], s[3], 0, None), Settings)
<1>1. c \in Orders /\ d \in Orders /\ c.op = "app" /\ d.op = "app"
  BY Ordered DEF Apps, Cmd
<1>2. BrowserExample(s[2], s[3], TRUE) = (p \o <<c>>) \o <<d>>
  BY DEF BrowserExample, launch_web_browser, launch_wireshark
<1>3. Takes(p, Known, A)
  BY Everything, PlainRates, DeploysThere DEF Deploy
<1> HIDE DEF c, d
<1>4. Takes(<<c>>, A, A) /\ Takes(<<d>>, A, A)
  BY <1>1, ByIdleOn DEF Idle
<1>5. A \subseteq Known
  BY StagesKnown DEF On
<1> HIDE DEF p, A
<1>6. Takes(p \o <<c>>, Known, A)
  BY <1>3, <1>4, TakesThen
<1>7. Takes((p \o <<c>>) \o <<d>>, Known, A)
  BY <1>4, <1>6, TakesThen
<1> QED
  BY <1>2, <1>5, <1>7, TakesWeaker

\* The program of the README, with any benchmark that stays on its network.
LEMMA TakesReadme ==
  ASSUME NEW s \in Scripts, NEW run, Takes(run, There(s, 0, None), There(s, 0, None))
  PROVE  Takes(ReadmeExample(s, run), Known, Known)
<1> DEFINE fresh == <<Plainly("fresh")>>
           T == There(s, 0, None)
<1>0. None \in Rates /\ 0 \in Levels
  BY PlainRates
<1>1. ReadmeExample(s, run) = (fresh \o (Deploy(s, 0) \o run)) \o Record(s, 0, None)
  BY DEF ReadmeExample, run_benchmarks
<1>2. Takes(fresh \o Deploy(s, 0), Known, T)
  BY FreshDeploy
<1>3. fresh \in Seq(Orders) /\ Deploy(s, 0) \in Seq(Orders) /\ run \in Seq(Orders)
  BY <1>0, ByFreshAnywhere, DeploysThere, Everything DEF Takes
<1> HIDE DEF fresh, T
<1>4. Takes((fresh \o Deploy(s, 0)) \o run, Known, T)
  BY <1>2, TakesThen DEF T
<1>5. (fresh \o Deploy(s, 0)) \o run = fresh \o (Deploy(s, 0) \o run)
  BY <1>3, ConcatAssociative
<1>6. Takes((fresh \o (Deploy(s, 0) \o run)) \o Record(s, 0, None), Known, T)
  BY <1>0, <1>4, <1>5, Records DEF T
<1> QED
  BY <1>1, <1>6, TakesWeaker, ThereKnown DEF T

LEMMA TakesReadmePlt ==
  ASSUME NEW s \in Scripts
  PROVE  Takes(ReadmeExample(s, SitespeedRun(Iterations, Fault("AttributeError"))), Known, Known)
<1> DEFINE c == Cmd("raise", "", "AttributeError")
           net == Promised(s[2], s[3], 0, None)
           fault == Fault("AttributeError")
<1>1. c \in Orders /\ c.op = "raise" /\ fault = <<c>>
  <2>2. c \in Orders
    BY Ordered
  <2>3. c.op = "raise"
    BY DEF Cmd
  <2>4. fault = <<c>>
    BY DEF Fault
  <2> QED
    BY <2>2, <2>3, <2>4
<1>2. Iterations - 1 \in Nat /\ Iterations - 1 + 1 = Iterations
  BY ExperimentsAssumption
<1>3. There(s, 0, None) = On(net, {net})
  BY DEF There
<1> HIDE DEF c, net, fault
<1>4. Takes(fault, On(net, {net}), On(net, {net}))
  BY <1>1, ByIdleOn DEF Idle
<1>5. Takes(SitespeedRun(Iterations - 1 + 1, fault), On(net, {net}), On(net, {net}))
  BY <1>2, <1>3, <1>4, BySitespeed
<1> QED
  BY <1>2, <1>3, <1>5, TakesReadme DEF fault

LEMMA TakesReadmeSpeedtest ==
  ASSUME NEW s \in Scripts
  PROVE  Takes(ReadmeExample(s, SpeedtestRun), Known, Known)
<1> DEFINE c == Plainly("speedtest")
<1>1. c \in Orders /\ c.op = "speedtest" /\ SpeedtestRun = <<c>>
  BY Ordered DEF SpeedtestRun, Plain, Plainly, Cmd
<1> HIDE DEF c
<1>2. Takes(SpeedtestRun, There(s, 0, None), There(s, 0, None))
  BY <1>1, ByIdleOn DEF Idle, There
<1> QED
  BY <1>2, TakesReadme

\* Every script, from whatever an earlier one has left.
LEMMA Scripted ==
  ASSUME NEW s \in Scripts
  PROVE  Takes(Program[s], Known, Known)
<1>1. s[1] \in ScriptNames
  BY ThereIsTyped, PlainRates
<1>2. Program[s] = Commands(s)
  BY DEF Program
<1>3. CASE s[1] \in {"ack bundling", "iperf", "plt"}
  BY <1>2, <1>3, TakesAckBundling, TakesIperfTest, TakesPltTest DEF Commands
<1>4. CASE s[1] \in {"plr plt", "plr", "browser"}
  BY <1>2, <1>4, TakesPlrPlt, TakesPlrTest, TakesBrowser DEF Commands
<1>5. CASE s[1] \in {"readme plt", "readme speedtest"}
  BY <1>2, <1>5, TakesReadmePlt, TakesReadmeSpeedtest DEF Commands
<1> QED
  BY <1>1, <1>3, <1>4, <1>5 DEF ScriptNames

-----------------------------------------------------------------------------
(* What a user calls.                                                      *)

\* Somebody stops the simulation, or has stopped it.
Loosened == {a \in Known : a.loose}

\* Commands that are allowed whatever is known.
LEMMA ByFree ==
  ASSUME NEW c \in Orders, c.op \notin {"stop", "record"},
         ~ (c.op = "route add" /\ c.at = "terminal")
  PROVE  Takes(<<c>>, Known, Known)
<1>1. \A a \in Known : Allowed(c, a) /\ Effect(c, a) \in Known
  BY EffectTyped DEF Allowed
<1> QED
  BY <1>1, TakesOne

\* Once the simulation has been stopped, the routes are nobody's promise.
LEMMA ByLoosened ==
  ASSUME NEW c \in Orders, c.op \notin {"compose down", "record"}
  PROVE  Takes(<<c>>, Loosened, Loosened)
<1>1. ASSUME NEW a \in Loosened PROVE Allowed(c, a) /\ Effect(c, a) \in Loosened
  <2>1. a \in Known /\ a.loose
    BY DEF Loosened
  <2>2. Allowed(c, a)
    BY <2>1 DEF Allowed
  <2>3. Effect(c, a).loose
    BY <2>1 DEF Effect
  <2> QED
    BY <2>1, <2>2, <2>3, EffectTyped DEF Loosened
<1>2. Loosened \subseteq Known
  BY DEF Loosened
<1> QED
  BY <1>1, <1>2, TakesOne

LEMMA TakesConfigured == Takes(Configured, Known, Known)
<1> DEFINE c == Cmd("configure qpep", "terminal", "")
           d == Cmd("configure qpep", "ws-gw", "")
<1>1. c \in Orders /\ d \in Orders /\ c.op = "configure qpep" /\ d.op = "configure qpep"
  BY Ordered DEF Proxied, Cmd
<1>2. Configured = <<c, d>>
  BY DEF Configured, Both
<1> HIDE DEF c, d
<1>3. Takes(<<c>>, Known, Known) /\ Takes(<<d>>, Known, Known)
  BY <1>1, ByFree
<1> QED
  BY <1>1, <1>2, <1>3, TakesTwo

LEMMA TakesLaunched ==
  ASSUME NEW client \in Programs, NEW gateway \in Programs
  PROVE  Takes(Launched(client, gateway), Known, Known)
<1> DEFINE c == Cmd("go run", "terminal", client)
           d == Cmd("go run", "ws-gw", gateway)
<1>1. c \in Orders /\ d \in Orders /\ c.op = "go run" /\ d.op = "go run"
  BY Ordered DEF Proxied, Cmd
<1>2. Launched(client, gateway) = <<c, d>>
  BY DEF Launched
<1> HIDE DEF c, d
<1>3. Takes(<<c>>, Known, Known) /\ Takes(<<d>>, Known, Known)
  BY <1>1, ByFree
<1> QED
  BY <1>1, <1>2, <1>3, TakesTwo

LEMMA TakesKilled ==
  ASSUME NEW x \in Proxied, NEW y \in Proxied
  PROVE  Takes(Both("pkill main", x, y), Known, Known)
<1> DEFINE c == Cmd("pkill main", x, "")
           d == Cmd("pkill main", y, "")
<1>1. c \in Orders /\ d \in Orders /\ c.op = "pkill main" /\ d.op = "pkill main"
  BY Ordered DEF Cmd
<1>2. Both("pkill main", x, y) = <<c, d>>
  BY DEF Both
<1> HIDE DEF c, d
<1>3. Takes(<<c>>, Known, Known) /\ Takes(<<d>>, Known, Known)
  BY <1>1, ByFree
<1> QED
  BY <1>1, <1>2, <1>3, TakesTwo

LEMMA TakesPepsal ==
  ASSUME NEW c \in Lossy
  PROVE  Takes(<<Cmd("pepsal", c, "")>>, Known, Known)
<1> DEFINE d == Cmd("pepsal", c, "")
<1>1. d \in Orders /\ d.op = "pepsal"
  BY Ordered DEF Cmd
<1> HIDE DEF d
<1>2. Takes(<<d>>, Known, Known)
  BY <1>1, ByFree
<1> QED
  BY <1>2 DEF d

LEMMA TakesOpenVpn ==
  Takes(<<Cmd("openvpn", "ws-st", ""), Plainly("await vpn")>>, Known, Known)
<1> DEFINE c == Cmd("openvpn", "ws-st", "")
           d == Plainly("await vpn")
<1>1. c \in Orders /\ d \in Orders /\ c.op = "openvpn" /\ d.op = "await vpn"
  BY Ordered DEF Plain, Plainly, Cmd
<1> HIDE DEF c, d
<1>2. Takes(<<c>>, Known, Known) /\ Takes(<<d>>, Known, Known)
  BY <1>1, ByFree
<1>3. Takes(<<c, d>>, Known, Known)
  BY <1>1, <1>2, TakesTwo
<1> QED
  BY <1>3 DEF c, d

\* With testbed_up, on whatever network there is.
LEMMA DeploysUp ==
  ASSUME NEW kind \in Kinds, NEW orbit, NEW level \in Levels
  PROVE  Takes(deploy_scenario(kind, TRUE, orbit, level), Known, Known)
<1>1. BaseUnless(TRUE, orbit) = <<>> /\ Takes(<<>>, Known, Known)
  BY TakesNothing DEF BaseUnless
<1>2. {<<>>, <<"decimation">>, <<"acks", level>>, <<"congestion", level>>} \subseteq Programs
  BY DEF Programs
<1>3. "terminal" \in Proxied /\ "ws-gw" \in Proxied /\ "terminal" \in Lossy /\ "gateway" \in Lossy
  BY DEF Proxied, Lossy
<1>4. CASE kind = "Plain"
  BY <1>1, <1>4 DEF deploy_scenario, DeployPlain
<1>5. CASE kind = "OpenVPN"
  <2> DEFINE q == <<Cmd("openvpn", "ws-st", ""), Plainly("await vpn")>>
  <2>1. deploy_scenario(kind, TRUE, orbit, level) = <<>> \o q
    BY <1>1, <1>5 DEF deploy_scenario, DeployOpenVPN
  <2>2. Takes(q, Known, Known)
    BY TakesOpenVpn
  <2> HIDE DEF q
  <2> QED
    BY <1>1, <2>1, <2>2, TakesThen
<1>6. CASE kind = "PEPSal"
  <2> DEFINE q == <<Cmd("pepsal", "terminal", "")>>
  <2>1. deploy_scenario(kind, TRUE, orbit, level) = (<<>> \o q) \o <<>>
    BY <1>1, <1>6 DEF deploy_scenario, DeployPEPsal
  <2>2. Takes(q, Known, Known)
    BY <1>3, TakesPepsal
  <2> HIDE DEF q
  <2>3. Takes(<<>> \o q, Known, Known)
    BY <1>1, <2>2, TakesThen
  <2> QED
    BY <1>1, <2>1, <2>3, TakesThen
<1>7. CASE kind = "Distributed PEPsal"
  <2> DEFINE q == <<Cmd("pepsal", "terminal", "")>>
             r == <<Cmd("pepsal", "gateway", "")>>
  <2>1. deploy_scenario(kind, TRUE, orbit, level) = (<<>> \o q) \o r
    BY <1>1, <1>7 DEF deploy_scenario, DeployPEPsal
  <2>2. Takes(q, Known, Known) /\ Takes(r, Known, Known)
    BY <1>3, TakesPepsal
  <2> HIDE DEF q, r
  <2>3. Takes(<<>> \o q, Known, Known)
    BY <1>1, <2>2, TakesThen
  <2> QED
    BY <2>1, <2>2, <2>3, TakesThen
<1>8. CASE kind = "QPEP"
  <2> DEFINE k == Both("pkill main", "ws-gw", "terminal")
             l == Launched(<<>>, <<>>)
  <2>1. deploy_scenario(kind, TRUE, orbit, level) = ((<<>> \o Configured) \o k) \o l
    BY <1>1, <1>8 DEF deploy_scenario, DeployQPEP
  <2>2. Takes(k, Known, Known) /\ Takes(l, Known, Known)
    BY <1>2, <1>3, TakesKilled, TakesLaunched
  <2> HIDE DEF k, l
  <2>3. Takes(<<>> \o Configured, Known, Known)
    BY <1>1, TakesConfigured, TakesThen
  <2>4. Takes((<<>> \o Configured) \o k, Known, Known)
    BY <2>2, <2>3, TakesThen
  <2> QED
    BY <2>1, <2>2, <2>4, TakesThen
<1>9. CASE kind = "QPEP Ack"
  <2> DEFINE k == Both("pkill main", "terminal", "ws-gw")
             l == Launched(<<"acks", level>>, <<"decimation">>)
  <2>1. deploy_scenario(kind, TRUE, orbit, level) = (<<>> \o k) \o l
    BY <1>1, <1>9 DEF deploy_scenario, DeployQPEPAck, KilledOrConfigured
  <2>2. Takes(k, Known, Known) /\ Takes(l, Known, Known)
    BY <1>2, <1>3, TakesKilled, TakesLaunched
  <2> HIDE DEF k, l
  <2>3. Takes(<<>> \o k, Known, Known)
    BY <1>1, <2>2, TakesThen
  <2> QED
    BY <2>1, <2>2, <2>3, TakesThen
<1>10. CASE kind = "QPEP Congestion"
  <2> DEFINE k == Both("pkill main", "terminal", "ws-gw")
             l == Launched(<<"congestion", level>>, <<"congestion", level>>)
  <2>1. deploy_scenario(kind, TRUE, orbit, level) = (<<>> \o k) \o l
    BY <1>1, <1>10 DEF deploy_scenario, DeployQPEPCongestion, KilledOrConfigured
  <2>2. Takes(k, Known, Known) /\ Takes(l, Known, Known)
    BY <1>2, <1>3, TakesKilled, TakesLaunched
  <2> HIDE DEF k, l
  <2>3. Takes(<<>> \o k, Known, Known)
    BY <1>1, <2>2, TakesThen
  <2> QED
    BY <2>1, <2>2, <2>3, TakesThen
<1> QED
  BY <1>4, <1>5, <1>6, <1>7, <1>8, <1>9, <1>10 DEF Kinds

\* The other functions that a program may call.
LEMMA TakesCalls ==
  /\ Takes(stop_testbed, Known, Known)
  /\ Takes(connect_sitespeed_workstation, Known, Known)
  /\ Takes(launch_wireshark, Known, Known)
<1>1. Takes(stop_testbed, Known, Known)
  <2>1. Plainly("compose down") \in Orders /\ Plainly("compose down").op = "compose down"
    BY Ordered DEF Plain, Plainly, Cmd
  <2> QED
    BY <2>1, ByFree DEF stop_testbed
<1>2. Takes(connect_sitespeed_workstation, Known, Known)
  <2> DEFINE c == Cmd("route delete", "sitespeed", "")
             d == Cmd("route add", "sitespeed", "")
  <2>1. c \in Orders /\ d \in Orders /\ c.op = "route delete" /\ d.op = "route add" /\ d.at = "sitespeed"
    BY Ordered DEF Routed, Cmd
  <2>2. connect_sitespeed_workstation = <<c, d>>
    BY DEF connect_sitespeed_workstation, Default
  <2> HIDE DEF c, d
  <2>3. Takes(<<c>>, Known, Known) /\ Takes(<<d>>, Known, Known)
    BY <2>1, ByFree
  <2> QED
    BY <2>1, <2>2, <2>3, TakesTwo
<1>3. Takes(launch_wireshark, Known, Known)
  <2> DEFINE c == Cmd("app", "satellite", "wireshark")
  <2>1. c \in Orders /\ c.op = "app" /\ launch_wireshark = <<c>>
    BY Ordered DEF Apps, Cmd, launch_wireshark
  <2> HIDE DEF c
  <2> QED
    BY <2>1, ByFree
<1> QED
  BY <1>1, <1>2, <1>3

\* set_plr_percentage, whatever there is.
LEMMA TakesSetPlr ==
  ASSUME NEW plr \in Losses, NEW st_out \in BOOLEAN, NEW gw_out \in BOOLEAN
  PROVE  Takes(set_plr_percentage(plr, st_out, gw_out), Known, Known)
<1> DEFINE p == IF st_out THEN <<Cmd("loss", "terminal", plr)>> ELSE <<>>
           q == IF gw_out THEN <<Cmd("loss", "gateway", plr)>> ELSE <<>>
<1>1. \A c \in Lossy : Takes(<<Cmd("loss", c, plr)>>, Known, Known)
  <2> TAKE x \in Lossy
  <2> DEFINE c == Cmd("loss", x, plr)
  <2>1. c \in Orders /\ c.op = "loss"
    BY Ordered DEF Cmd
  <2> HIDE DEF c
  <2>2. Takes(<<c>>, Known, Known)
    BY <2>1, ByFree
  <2> QED
    BY <2>2 DEF c
<1>2. Takes(<<>>, Known, Known) /\ "terminal" \in Lossy /\ "gateway" \in Lossy
  BY TakesNothing DEF Lossy
<1>3. Takes(p, Known, Known)
  BY <1>1, <1>2
<1>4. Takes(q, Known, Known)
  BY <1>1, <1>2
<1>5. set_plr_percentage(plr, st_out, gw_out) = p \o q
  BY DEF set_plr_percentage
<1> HIDE DEF p, q
<1> QED
  BY <1>3, <1>4, <1>5, TakesThen

\* Stopping and starting, once it is known that somebody does.
LEMMA TakesStops ==
  /\ Takes(run_attenuation_scenario, Loosened, Known)
  /\ Takes(<<Cmd("stop", "window", ""), Cmd("start", "window", "")>>, Loosened, Known)
<1> DEFINE await == Plainly("await answer")
           stop == Plainly("stop")
           load == Cmd("scenario", "", "attenuation")
           start == Plainly("start")
           add == Cmd("route add", "terminal", "")
           off == Cmd("stop", "window", "")
           on == Cmd("start", "window", "")
           L == Loosened
<1>1. /\ await \in Orders /\ stop \in Orders /\ load \in Orders /\ start \in Orders /\ add \in Orders
      /\ await.op = "await answer" /\ stop.op = "stop" /\ load.op = "scenario"
      /\ start.op = "start" /\ add.op = "route add"
      /\ off \in Orders /\ on \in Orders /\ off.op = "stop" /\ on.op = "start"
  BY Ordered DEF Plain, Routed, Plainly, Cmd
<1>2. run_attenuation_scenario = <<await, stop, load, start, add>>
  BY DEF run_attenuation_scenario
<1> HIDE DEF await, stop, load, start, add, off, on
<1>3. /\ Takes(<<await>>, L, L) /\ Takes(<<stop>>, L, L) /\ Takes(<<load>>, L, L)
      /\ Takes(<<start>>, L, L) /\ Takes(<<add>>, L, L)
      /\ Takes(<<off>>, L, L) /\ Takes(<<on>>, L, L)
  BY <1>1, ByLoosened
<1>4. L \subseteq Known
  BY DEF Loosened
<1>5. Takes(<<off, on>>, L, Known)
  <2>1. Takes(<<off, on>>, L, L)
    BY <1>1, <1>3, TakesTwo
  <2> QED
    BY <1>4, <2>1, TakesWeaker
<1>6. Takes(<<await, stop, load, start, add>>, L, Known)
  <2>1. Takes(<<await, stop, load, start, add>>, L, L)
    BY <1>1, <1>3, TakesFive
  <2> QED
    BY <1>4, <2>1, TakesWeaker
<1> QED
  BY <1>2, <1>5, <1>6 DEF off, on

-----------------------------------------------------------------------------
(* The state is typed.                                                     *)

BedOK == bed \in Beds /\ bed.running \subseteq bed.hosts

\* The next command is one, and so are those behind it.
LEMMA ThisOrder ==
  ASSUME todo \in Seq(Orders), todo # <<>>
  PROVE  this \in Orders /\ Tail(todo) \in Seq(Orders)
BY HeadTailProperties DEF this

LEMMA FreshTyped == Fresh \in Beds /\ Fresh.running \subseteq Fresh.hosts
<1>1. /\ [c \in Routed |-> "docker"] \in [Routed -> Ways]
      /\ [c \in Lossy |-> None] \in [Lossy -> Losses \cup {None}]
      /\ [c \in Proxied |-> None] \in [Proxied -> Programs \cup {None}]
      /\ [c \in Proxied |-> <<>>] \in [Proxied -> Seq(Programs)]
  BY DEF Ways
<1> QED
  BY <1>1 DEF Fresh, Beds

\* tc sets the loss, or fails.
LEMMA SetLossTyped ==
  ASSUME BedOK, todo \in Seq(Orders), SetLoss
  PROVE  BedOK'
<1>1. this \in Orders /\ this.op = "loss"
  BY ThisOrder DEF SetLoss, Executes, At, this
<1>2. this.at \in Lossy /\ this.arg \in Losses
  BY <1>1, OrderCases
<1>3. CASE bed.running = {}
  BY <1>3 DEF SetLoss, BedOK
<1>4. CASE bed.running # {}
  <2>1. [bed.loss EXCEPT ![this.at] = this.arg] \in [Lossy -> Losses \cup {None}]
    BY <1>2 DEF BedOK, Beds
  <2> QED
    BY <1>4, <2>1 DEF SetLoss, BedOK, Beds
<1> QED
  BY <1>3, <1>4

\* Proxies are configured, killed and launched.
LEMMA ProxyTyped ==
  ASSUME BedOK, todo \in Seq(Orders), ConfigureQpep \/ KillMain \/ LaunchQpep \/ LaunchPepsal
  PROVE  BedOK'
<1>1. CASE ConfigureQpep
  <2>1. this \in Orders /\ this.op = "configure qpep"
    BY <1>1, ThisOrder DEF ConfigureQpep, Executes, At, this
  <2>2. bed.tproxy \cup {this.at} \in SUBSET Proxied
    BY <2>1, OrderCases DEF BedOK, Beds
  <2> QED
    BY <1>1, <2>2 DEF ConfigureQpep, BedOK, Beds
<1>2. CASE KillMain
  <2>1. [bed.qpep EXCEPT ![this.at] = None] \in [Proxied -> Programs \cup {None}]
    BY DEF BedOK, Beds
  <2> QED
    BY <1>2, <2>1 DEF KillMain, BedOK, Beds
<1>3. CASE LaunchQpep
  <2>1. this \in Orders /\ this.op = "go run"
    BY <1>3, ThisOrder DEF LaunchQpep, Executes, At, this
  <2>2. this.at \in Proxied /\ this.arg \in Programs
    BY <2>1, OrderCases
  <2>3. Append(bed.building[this.at], this.arg) \in Seq(Programs)
    BY <2>2 DEF BedOK, Beds
  <2>4. [bed.building EXCEPT ![this.at] = Append(@, this.arg)] \in [Proxied -> Seq(Programs)]
    BY <2>3 DEF BedOK, Beds
  <2> QED
    BY <1>3, <2>4 DEF LaunchQpep, BedOK, Beds
<1>4. CASE LaunchPepsal
  <2>1. this \in Orders /\ this.op = "pepsal"
    BY <1>4, ThisOrder DEF LaunchPepsal, Executes, At, this
  <2>2. bed.pepsal \cup {this.at} \in SUBSET Lossy
    BY <2>1, OrderCases DEF BedOK, Beds
  <2> QED
    BY <1>4, <2>2 DEF LaunchPepsal, BedOK, Beds
<1> QED
  BY <1>1, <1>2, <1>3, <1>4

LEMMA RouteTyped ==
  ASSUME BedOK, todo \in Seq(Orders), RouteDelete \/ RouteAdd \/ StopSimulation
  PROVE  BedOK'
<1>1. CASE RouteDelete
  <2>1. [bed.route EXCEPT ![this.at] = "none"] \in [Routed -> Ways]
    BY DEF BedOK, Beds, Ways
  <2> QED
    BY <1>1, <2>1 DEF RouteDelete, BedOK, Beds
<1>2. CASE RouteAdd
  <2>1. [bed.route EXCEPT ![this.at] = IF @ = "none" THEN "space" ELSE @] \in [Routed -> Ways]
    BY DEF BedOK, Beds, Ways
  <2> QED
    BY <1>2, <2>1 DEF RouteAdd, BedOK, Beds
<1>3. CASE StopSimulation
  <2>1. [bed.route EXCEPT !["terminal"] = IF @ = "space" THEN "none" ELSE @] \in [Routed -> Ways]
    BY DEF BedOK, Beds, Ways
  <2>2. [c \in Lossy |-> None] \in [Lossy -> Losses \cup {None}]
    OBVIOUS
  <2> QED
    BY <1>3, <2>1, <2>2 DEF StopSimulation, BedOK, Beds
<1> QED
  BY <1>1, <1>2, <1>3

LEMMA AppTyped ==
  ASSUME BedOK, todo \in Seq(Orders), LaunchApp \/ KillApp
  PROVE  BedOK'
<1>1. CASE LaunchApp
  <2>1. this \in Orders /\ this.op = "app"
    BY <1>1, ThisOrder DEF LaunchApp, Executes, At, this
  <2>2. bed.apps \cup {this.arg} \in SUBSET Apps
    BY <2>1, OrderCases DEF BedOK, Beds
  <2> QED
    BY <1>1, <2>2 DEF LaunchApp, BedOK, Beds
<1>2. CASE KillApp
  BY <1>2 DEF KillApp, BedOK, Beds
<1> QED
  BY <1>1, <1>2

LEMMA CommandBed ==
  ASSUME BedOK, todo \in Seq(Orders), Command
  PROVE  BedOK'
<1>1. CASE ComposeDown
  BY <1>1, FreshTyped DEF ComposeDown, BedOK
<1>2. CASE ComposeUp \/ StartSimulation \/ GuiRoute \/ LaunchOpenVpn
  BY <1>2 DEF ComposeUp, StartSimulation, GuiRoute, LaunchOpenVpn, BedOK, Beds
<1>3. CASE AwaitHosts \/ AwaitAnswer \/ AwaitRunning \/ AwaitVpn
  BY <1>3 DEF AwaitHosts, AwaitAnswer, AwaitRunning, AwaitVpn, BedOK
<1>4. CASE LoadScenario
  <2>1. this \in Orders /\ this.op = "scenario"
    BY <1>4, ThisOrder DEF LoadScenario, Executes, At, this
  <2>2. this.arg \in {"default", "delay", "attenuation"}
    BY <2>1, OrderCases
  <2> QED
    BY <1>4, <2>2 DEF LoadScenario, BedOK, Beds
<1>5. CASE RouteDelete \/ RouteAdd \/ StopSimulation
  BY <1>5, RouteTyped
<1>6. CASE SetLoss
  BY <1>6, SetLossTyped
<1>7. CASE ConfigureQpep \/ KillMain \/ LaunchQpep \/ LaunchPepsal
  BY <1>7, ProxyTyped
<1>8. CASE LaunchApp \/ KillApp
  BY <1>8, AppTyped
<1> QED
  BY <1>1, <1>2, <1>3, <1>4, <1>5, <1>6, <1>7, <1>8 DEF Command

LEMMA CommandTodo ==
  ASSUME Command
  PROVE  todo # <<>> /\ todo' = Tail(todo) /\ outcome = "running" /\ outcome' = outcome
BY DEF Command, ComposeDown, ComposeUp, AwaitHosts, AwaitAnswer, LoadScenario,
   StartSimulation, StopSimulation, AwaitRunning, RouteDelete, RouteAdd, GuiRoute, SetLoss,
   ConfigureQpep, KillMain, LaunchQpep, LaunchPepsal, LaunchOpenVpn, AwaitVpn, LaunchApp,
   KillApp, Executes, At

\* A command leaves containers and commands typed.
LEMMA CommandTyped ==
  ASSUME BedOK, todo \in Seq(Orders), Command
  PROVE  BedOK' /\ todo' \in Seq(Orders)
BY CommandBed, CommandTodo, ThisOrder

LEMMA Unlisted ==
  ASSUME NEW S, NEW q \in Seq(S), NEW i \in DOMAIN q
  PROVE  SubSeq(q, 1, i - 1) \o SubSeq(q, i + 1, Len(q)) \in Seq(S) /\ q[i] \in S
<1>1. Len(q) \in Nat /\ i \in 1..Len(q) /\ \A j \in 1..Len(q) : q[j] \in S
  BY LenProperties, ElementOfSeq
<1>2. SubSeq(q, 1, i - 1) \in Seq(S)
  BY <1>1, SubSeqProperties
<1>3. SubSeq(q, i + 1, Len(q)) \in Seq(S)
  BY <1>1, SubSeqProperties
<1> QED
  BY <1>1, <1>2, <1>3, ConcatProperties

\* What containers do on their own leaves them typed.
LEMMA OutsideTyped ==
  ASSUME BedOK, Outside
  PROVE  BedOK'
<1>1. CASE HostRegisters
  <2>1. PICK h \in Hosts : bed' = [bed EXCEPT !.hosts = @ \cup {h}]
    BY <1>1 DEF HostRegisters
  <2>2. bed.hosts \cup {h} \in SUBSET Hosts
    BY DEF BedOK, Beds
  <2> QED
    BY <2>1, <2>2 DEF BedOK, Beds
<1>2. CASE HostRuns
  <2>1. PICK h \in bed.hosts : bed' = [bed EXCEPT !.running = @ \cup {h}]
    BY <1>2 DEF HostRuns
  <2>2. bed.running \cup {h} \in SUBSET Hosts /\ bed.running \cup {h} \subseteq bed.hosts
    BY DEF BedOK, Beds
  <2> QED
    BY <2>1, <2>2 DEF BedOK, Beds
<1>4. CASE BuildEnds
  <2>0. PICK c \in Proxied : \E i \in DOMAIN bed.building[c] :
          bed' = [bed EXCEPT !.qpep[c] = IF @ = None THEN bed.building[c][i] ELSE @,
                             !.building[c] = SubSeq(@, 1, i - 1) \o SubSeq(@, i + 1, Len(@))]
    BY <1>4 DEF BuildEnds
  <2>1. PICK i \in DOMAIN bed.building[c] :
          bed' = [bed EXCEPT !.qpep[c] = IF @ = None THEN bed.building[c][i] ELSE @,
                             !.building[c] = SubSeq(@, 1, i - 1) \o SubSeq(@, i + 1, Len(@))]
    BY <2>0
  <2>2. bed.building[c] \in Seq(Programs)
    BY DEF BedOK, Beds
  <2> DEFINE rest == SubSeq(bed.building[c], 1, i - 1)
                       \o SubSeq(bed.building[c], i + 1, Len(bed.building[c]))
             built == IF bed.qpep[c] = None THEN bed.building[c][i] ELSE bed.qpep[c]
  <2>3. rest \in Seq(Programs) /\ bed.building[c][i] \in Programs
    BY <2>2, Unlisted
  <2>4. built \in Programs \cup {None}
    BY <2>3 DEF BedOK, Beds
  <2>5. bed' = [bed EXCEPT !.qpep = [@ EXCEPT ![c] = built], !.building = [@ EXCEPT ![c] = rest]]
    BY <2>1
  <2> HIDE DEF rest, built
  <2> QED
    BY <2>3, <2>4, <2>5 DEF BedOK, Beds
<1> QED
  BY <1>1, <1>2, <1>4 DEF Outside

LEMMA SettingTyped == BedOK => Setting \in Settings
<1> SUFFICES ASSUME BedOK PROVE Setting \in Settings
  OBVIOUS
<1> QED
  BY DEF BedOK, Beds, Setting, Settings, Orbital

LEMMA SampleTyped ==
  ASSUME BedOK, NEW of \in STRING, NEW ok \in BOOLEAN
  PROVE  Sample(of, ok) \in Samples
BY SettingTyped DEF Sample, Samples

LEMMA ScriptTodo ==
  ASSUME Typed, Next
  PROVE  BedOK' /\ todo' \in Seq(Orders)
<1>0. BedOK /\ todo \in Seq(Orders)
  BY DEF Typed, BedOK
<1>1. CASE Deploying
  BY <1>0, <1>1, CommandTyped DEF Deploying
<1>2. CASE FreshBench \/ Iperf \/ BrowseSite \/ RecordBatch
  <2>1. todo # <<>> /\ todo' = Tail(todo) /\ bed' = bed
    BY <1>2 DEF FreshBench, Iperf, BrowseSite, RecordBatch, Executes, At
  <2>2. Tail(todo) \in Seq(Orders)
    BY <1>0, <2>1, ThisOrder
  <2>3. BedOK'
    BY <1>0, <2>1 DEF BedOK
  <2> QED
    BY <2>1, <2>2, <2>3
<1>3. CASE Speedtest
  <2>1. todo # <<>> /\ (todo' = Tail(todo) \/ todo' = <<>>) /\ bed' = bed
    BY <1>3 DEF Speedtest, At
  <2>2. Tail(todo) \in Seq(Orders) /\ <<>> \in Seq(Orders)
    BY <1>0, <2>1, ThisOrder, EmptySeq
  <2>3. BedOK'
    BY <1>0, <2>1 DEF BedOK
  <2> QED
    BY <2>1, <2>2, <2>3
<1>4. CASE CheckLink
  <2>1. todo # <<>> /\ todo' = <<>> \o Tail(todo) /\ bed' = bed
    BY <1>4 DEF CheckLink, At, EqualsZero
  <2>2. Tail(todo) \in Seq(Orders)
    BY <1>0, <2>1, ThisOrder
  <2> QED
    BY <1>0, <2>1, <2>2, ConcatEmptySeq DEF BedOK
<1>5. CASE Raise \/ Finish \/ Dies \/ Kill
  <2>1. (todo' = todo \/ todo' = <<>>) /\ bed' = bed
    BY <1>5 DEF Raise, Finish, Dies, Kill, ConnectionLost
  <2>2. BedOK'
    BY <1>0, <2>1 DEF BedOK
  <2>3. <<>> \in Seq(Orders)
    BY EmptySeq
  <2> QED
    BY <1>0, <2>1, <2>2, <2>3
<1>6. CASE Happens
  <2>1. todo' = todo
    BY <1>6 DEF Happens, Outside, HostRegisters, HostRuns, BuildEnds
  <2> QED
    BY <1>0, <1>6, <2>1, OutsideTyped DEF Happens
<1>7. CASE Restart
  <2>1. PICK s \in Scripts : todo' = Program[s] /\ bed' = bed
    BY <1>7 DEF Restart
  <2>2. Program[s] \in Seq(Orders)
    BY Scripted DEF Takes
  <2> QED
    BY <1>0, <2>1, <2>2 DEF BedOK
<1> QED
  BY <1>1, <1>2, <1>3, <1>4, <1>5, <1>6, <1>7 DEF Next, Working

LEMMA ScriptBench ==
  ASSUME Typed, Next
  PROVE  bench' \in Seq(Samples)
<1>0. BedOK /\ todo \in Seq(Orders) /\ bench \in Seq(Samples)
  BY DEF Typed, BedOK
<1>1. CASE Iperf
  <2>1. PICK ok \in {FALSE} \cup {Reaches /\ "iperf3" \in bed.apps} :
          bench' = Append(bench, Sample(this.arg, ok))
    BY <1>1 DEF Iperf
  <2>2. this \in Orders /\ this.op = "iperf"
    BY <1>0, <1>1, ThisOrder DEF Iperf, Executes, At, this
  <2>3. this.arg \in STRING /\ ok \in BOOLEAN
    BY <2>2, OrderCases
  <2>4. Sample(this.arg, ok) \in Samples
    BY <1>0, <2>3, SampleTyped
  <2> QED
    BY <1>0, <2>1, <2>4, AppendProperties
<1>2. CASE BrowseSite
  <2>1. PICK n \in 0..SubIterations :
          bench' = bench \o [i \in 1..n |-> Sample(this.arg, TRUE)]
    BY <1>2 DEF BrowseSite
  <2>2. this \in Orders /\ this.op = "browse"
    BY <1>0, <1>2, ThisOrder DEF BrowseSite, Executes, At, this
  <2>3. this.arg \in STRING
    BY <2>2, OrderCases
  <2>4. Sample(this.arg, TRUE) \in Samples
    BY <1>0, <2>3, SampleTyped
  <2>5. PICK x \in Samples : x = Sample(this.arg, TRUE)
    BY <2>4
  <2>6. n \in Nat
    BY ExperimentsAssumption
  <2>7. [i \in 1..n |-> x] \in [1..n -> Samples]
    OBVIOUS
  <2>8. [i \in 1..n |-> x] \in Seq(Samples)
    BY <2>6, <2>7, SeqDef
  <2>9. bench' = bench \o [i \in 1..n |-> x]
    BY <2>1, <2>5
  <2> QED
    BY <1>0, <2>8, <2>9, ConcatProperties
<1>3. CASE ~ Iperf /\ ~ BrowseSite
  <2>1. bench' = bench \/ bench' = <<>>
    BY <1>3 DEF Next, Working, Deploying, FreshBench, Speedtest, RecordBatch, CheckLink, Raise,
       Finish, Happens, Dies, Kill, Restart, Forgotten, benchVars
  <2>2. <<>> \in Seq(Samples)
    BY EmptySeq
  <2> QED
    BY <1>0, <2>1, <2>2
<1> QED
  BY <1>1, <1>2, <1>3

Batches == [label : Labels, batch : Seq(Samples)]

LEMMA ScriptResults ==
  ASSUME Typed, Next
  PROVE  results' \in Seq(Batches)
<1>0. bench \in Seq(Samples) /\ results \in Seq(Batches) /\ todo \in Seq(Orders)
  BY DEF Typed, Batches
<1>1. CASE RecordBatch
  <2>1. results' = Append(results, [label |-> this.arg, batch |-> bench])
    BY <1>1 DEF RecordBatch
  <2>2. this \in Orders /\ this.op = "record"
    BY <1>0, <1>1, ThisOrder DEF RecordBatch, Executes, At, this
  <2>3. this.arg \in Labels
    BY <2>2, OrderCases
  <2>4. [label |-> this.arg, batch |-> bench] \in Batches
    BY <1>0, <2>3 DEF Batches
  <2> QED
    BY <1>0, <2>1, <2>4, AppendProperties
<1>2. CASE ~ RecordBatch
  <2>1. results' = results \/ results' = <<>>
    BY <1>2 DEF Next, Working, Deploying, FreshBench, Speedtest, Iperf, BrowseSite, CheckLink,
       Raise, Finish, Happens, Dies, Kill, Restart, Forgotten, benchVars
  <2>2. <<>> \in Seq(Batches)
    BY EmptySeq
  <2> QED
    BY <1>0, <2>1, <2>2
<1> QED
  BY <1>1, <1>2

\* The steps of a script.
LEMMA ScriptTyped ==
  ASSUME Typed, ByScript(Next)
  PROVE  Typed'
<1>1. Next /\ starts # 0 /\ UNCHANGED userVars
  BY DEF ByScript, ByUser
<1>2. BedOK' /\ todo' \in Seq(Orders) /\ bench' \in Seq(Samples) /\ results' \in Seq(Batches)
  BY <1>1, ScriptTodo, ScriptBench, ScriptResults
<1>3. starts' \in {starts, starts + 1}
  BY <1>1 DEF Next, Working, Deploying, FreshBench, Speedtest, Iperf, BrowseSite, RecordBatch,
     CheckLink, Raise, Finish, Happens, Dies, Kill, Restart, benchVars
<1>4. starts' \in Nat /\ last' = last /\ last = Nothing
  BY <1>1, <1>3 DEF Typed, ByUser, userVars
<1> QED
  BY <1>2, <1>4 DEF Typed, BedOK, Batches, Nothing

LEMMA UserTodo ==
  ASSUME todo \in Seq(Orders), BedOK, UserNext
  PROVE  BedOK' /\ todo' \in Seq(Orders)
<1>1. CASE CallDeploy
  <2>1. PICK kind \in Chosen, up \in BOOLEAN, orbit \in Orbits, level \in UserLevels :
          todo' = deploy_scenario(kind, up, orbit, level) /\ bed' = bed
    BY <1>1 DEF CallDeploy, Calls
  <2>2. kind \in Kinds /\ orbit \in Orbital /\ level \in Levels
    BY UserAssumption DEF Orbital
  <2>3. deploy_scenario(kind, TRUE, orbit, level) \in Seq(Orders)
    BY <2>2, DeploysUp DEF Takes
  <2>4. deploy_scenario(kind, FALSE, orbit, level) \in Seq(Orders)
    BY <2>2, Deploys, Everything DEF Takes
  <2> QED
    BY <2>1, <2>3, <2>4 DEF BedOK
<1>2. CASE CallOther
  <2>1. bed' = bed
    BY <1>2 DEF CallOther, Calls
  <2>2. \/ todo' \in {stop_testbed, connect_sitespeed_workstation, launch_wireshark}
        \/ \E plr \in UserLosses, st_out, gw_out \in BOOLEAN :
             todo' = set_plr_percentage(plr, st_out, gw_out)
    BY <1>2 DEF CallOther, Calls
  <2>3. Takes(stop_testbed, Known, Known) /\ Takes(connect_sitespeed_workstation, Known, Known)
        /\ Takes(launch_wireshark, Known, Known)
    BY TakesCalls
  <2>4. \A plr \in UserLosses, st_out, gw_out \in BOOLEAN :
          Takes(set_plr_percentage(plr, st_out, gw_out), Known, Known)
    BY TakesSetPlr, UserAssumption
  <2>5. todo' \in Seq(Orders)
    BY <2>2, <2>3, <2>4 DEF Takes
  <2> QED
    BY <2>1, <2>5 DEF BedOK
<1>3. CASE CallAttenuation \/ RestartSimulation
  <2>1. /\ bed' = bed
        /\ todo' \in {run_attenuation_scenario, <<Cmd("stop", "window", ""), Cmd("start", "window", "")>>}
    BY <1>3 DEF CallAttenuation, RestartSimulation, Calls
  <2> QED
    BY <2>1, TakesStops DEF Takes, BedOK
<1>4. CASE Executing
  <2>1. CASE Command
    BY <2>1, CommandTyped
  <2>2. CASE Outside
    <3>1. todo' = todo
      BY <2>2 DEF Outside, HostRegisters, HostRuns, BuildEnds
    <3> QED
      BY <2>2, <3>1, OutsideTyped
  <2>3. CASE ConnectionLost
    <3>1. BedOK' /\ todo' = <<>>
      BY <2>3 DEF ConnectionLost, BedOK
    <3>2. <<>> \in Seq(Orders)
      BY EmptySeq
    <3> QED
      BY <3>1, <3>2
  <2> QED
    BY <1>4, <2>1, <2>2, <2>3 DEF Executing
<1> QED
  BY <1>1, <1>2, <1>3, <1>4 DEF UserNext

\* The steps of a user.
LEMMA UserTyped ==
  ASSUME Typed, ByUser, UserNext
  PROVE  Typed'
<1>1. BedOK' /\ todo' \in Seq(Orders)
  BY UserTodo DEF Typed, BedOK
<1>2. bench' = bench /\ results' = results /\ starts' = starts
  BY DEF UserNext, scriptVars, benchVars
<1> QED
  BY <1>1, <1>2 DEF Typed, BedOK, ByUser

LEMMA InitTyped == TestbedInit => Typed
<1> SUFFICES ASSUME TestbedInit PROVE Typed
  OBVIOUS
<1>1. bed = Fresh /\ bench = <<>> /\ results = <<>> /\ starts \in {0, 1} /\ last = Nothing
  BY DEF TestbedInit, ScriptInit, UserInit, Init
<1>2. <<>> \in Seq(Orders) /\ <<>> \in Seq(Samples) /\ <<>> \in Seq(Batches)
  BY EmptySeq
<1>3. todo \in Seq(Orders)
  <2>1. CASE ScriptInit
    <3>1. script \in Scripts /\ todo = Program[script]
      BY <2>1 DEF ScriptInit, Init
    <3> QED
      BY <3>1, Scripted DEF Takes
  <2>2. CASE UserInit
    BY <2>2, <1>2 DEF UserInit
  <2> QED
    BY <2>1, <2>2 DEF TestbedInit
<1> QED
  BY <1>1, <1>2, <1>3, FreshTyped DEF Typed, Batches

\* Every step keeps the types.
LEMMA NextTyped ==
  ASSUME Typed, [TestbedNext]_allVars
  PROVE  Typed'
<1>1. CASE ByScript(Next)
  BY <1>1, ScriptTyped
<1>2. CASE ByUser /\ UserNext
  BY <1>2, UserTyped
<1>3. CASE UNCHANGED allVars
  BY <1>3 DEF Typed, ByUser, allVars, vars, testbedVars, benchVars, userVars
<1> QED
  BY <1>1, <1>2, <1>3 DEF TestbedNext

(* Whatever scripts and users do, and whatever fails, the containers are   *)
(* in a state they can be in, and every command still to come is one.      *)
THEOREM AlwaysTyped == TestbedSpec => []Typed
<1>1. TestbedInit => Typed
  BY InitTyped
<1>2. Typed /\ [TestbedNext]_allVars => Typed'
  BY NextTyped
<1> QED
  BY <1>1, <1>2, PTL DEF TestbedSpec

\* The invariant has the types the runs check.
LEMMA TypedIsTypeOK == Typed => TypeOK
<1> SUFFICES ASSUME Typed PROVE TypeOK
  OBVIOUS
<1>1. bed \in Beds /\ bed.running \subseteq bed.hosts
  BY DEF Typed
<1>2. bed.building \in [Proxied -> Seq(Programs)]
  BY <1>1 DEF Beds
<1>3. \A c \in Proxied : bed.building[c] \in Seq(Programs)
  BY <1>2
<1>4. /\ bed.hosts \subseteq Hosts
      /\ bed.route \in [Routed -> {"docker", "space", "none"}]
      /\ bed.loss \in [Lossy -> Losses \cup {None}]
  BY <1>1 DEF Beds, Ways
<1>5. /\ bed.tproxy \subseteq Proxied /\ bed.qpep \in [Proxied -> Programs \cup {None}]
      /\ bed.pepsal \subseteq Lossy /\ bed.apps \subseteq {"wireshark", "qupzilla", "iperf3"}
      /\ bed.vpn \in {"off", "launched"}
  BY <1>1 DEF Beds, Apps
<1>6. {bed.up, bed.started, bed.gui} \subseteq BOOLEAN
  BY <1>1 DEF Beds
<1> QED
  BY <1>1, <1>3, <1>4, <1>5, <1>6 DEF TypeOK

\* The types of the containers, as the runs check them (testbeds.py, scenarios.py).
THEOREM TypeCorrect == TestbedSpec => []TypeOK
BY AlwaysTyped, TypedIsTypeOK, PTL

-----------------------------------------------------------------------------
(* What is known is true.                                                  *)

\* The program with options x runs at c, or is the only one built there.
Settling(c, x) ==
  \/ bed.building[c] = <<>> /\ bed.qpep[c] = x
  \/ bed.building[c] = <<x>> /\ bed.qpep[c] = None

Matches(net, route) ==
  /\ net.orbit = (IF bed.scenario = "delay" THEN "LEO" ELSE "GEO")
  /\ bed.loss = net.loss /\ bed.tproxy = net.proxied /\ bed.pepsal = net.pepsal
  /\ bed.route = route
  /\ \A c \in Proxied : Settling(c, net.qpep[c])
  /\ net.proxied = {} => \A c \in Proxied : net.qpep[c] = None
  /\ bed.vpn = net.vpn

Fits(a) ==
  /\ a.running => bed.running = Hosts
  /\ a.sure => Matches(a.net, a.route)

MetOnly(met) == \A i \in DOMAIN bench : bench[i].ok => bench[i].setting \in met

Describes(a) == Fits(a) /\ MetOnly(a.met) /\ (a.loose => stopped)

\* Where the commands still to come lead, if a call of deploy_scenario is under way.
Goal(b) ==
  (outcome = "running" /\ last.kind # None /\ ~ last.up) =>
    /\ last.level \in Levels
    /\ b \in On(Promised(last.kind, last.orbit, last.level, None), Settings)

Tracked == \E a \in Known : \E b \in Known : Describes(a) /\ Leads(todo, a, b) /\ Goal(b)

\* What a command changes of what is known, part by part.
LEMMA EffectParts ==
  ASSUME NEW c, NEW a, c.op # "compose down"
  PROVE  /\ Effect(c, a).sure = (a.sure /\ ~ Doubtful(c, a))
         /\ Effect(c, a).running = (c.op = "await running" \/ (a.running /\ c.op # "stop"))
         /\ Effect(c, a).loose = a.loose /\ Effect(c, a).net = Change(c, a.net)
         /\ Effect(c, a).route = Turned(c, a.route) /\ Effect(c, a).met = Met(c, a)
BY DEF Effect

\* With one more RUNNING in the status than there are components running, more than three are all.
LEMMA AllRun ==
  ASSUME BedOK, OtherWords <= 1, Cardinality(bed.running) + OtherWords > 3
  PROVE  bed.running = Hosts
<1>1. bed.running \subseteq Hosts
  BY DEF BedOK, Beds
<1>2. IsFiniteSet(Hosts) /\ Cardinality(Hosts) = 3
  <2> DEFINE A == {"SAT"}
             B == A \cup {"GW0"}
             C == B \cup {"ST1"}
  <2>1. IsFiniteSet(A) /\ Cardinality(A) = 1
    BY FS_Singleton
  <2>2. "GW0" \notin A /\ "ST1" \notin B /\ Hosts = C
    BY DEF Hosts
  <2>3. IsFiniteSet(B) /\ Cardinality(B) = Cardinality(A) + 1
    <3> HIDE DEF A
    <3> QED
      BY <2>1, <2>2, FS_AddElement
  <2>4. IsFiniteSet(C) /\ Cardinality(C) = Cardinality(B) + 1
    <3> HIDE DEF B
    <3> QED
      BY <2>2, <2>3, FS_AddElement
  <2> HIDE DEF A, B, C
  <2> QED
    BY <2>1, <2>2, <2>3, <2>4
<1>3. OtherWords \in Nat
  BY TestbedAssumption
<1>4. /\ Cardinality(bed.running) <= Cardinality(Hosts)
      /\ Cardinality(Hosts) = Cardinality(bed.running) => Hosts = bed.running
  <2>1. bed.running \in SUBSET Hosts /\ IsFiniteSet(Hosts)
    BY <1>1, <1>2
  <2> QED
    BY <2>1, FS_Subset
<1>5. Cardinality(bed.running) \in Nat
  BY <1>1, <1>2, FS_Subset, FS_CardinalityType
<1> QED
  BY <1>2, <1>3, <1>4, <1>5

\* Commands that change nothing that traffic meets.
LEMMA SameMatches ==
  ASSUME NEW net, NEW route, Matches(net, route),
         bed'.scenario = bed.scenario, bed'.loss = bed.loss, bed'.tproxy = bed.tproxy,
         bed'.pepsal = bed.pepsal, bed'.route = bed.route, bed'.qpep = bed.qpep,
         bed'.building = bed.building, bed'.vpn = bed.vpn
  PROVE  Matches(net, route)'
BY DEF Matches, Settling

Silent == {"compose up", "await hosts", "await answer", "start", "await running", "gui route",
           "await vpn", "app", "pkill app"}

\* A silent command changes nothing that traffic meets.
LEMMA SilentMatches ==
  ASSUME BedOK, Command, NEW c, c = this, c.op \in Silent, NEW net, NEW route,
         Matches(net, route)
  PROVE  Matches(Change(c, net), Turned(c, route))'
<1>1. Change(c, net) = net /\ Turned(c, route) = route
  BY DEF Silent, Change, Turned
<1>2. ComposeUp \/ AwaitHosts \/ AwaitAnswer \/ StartSimulation \/ AwaitRunning \/ GuiRoute
      \/ AwaitVpn \/ LaunchApp \/ KillApp
  BY DEF Command, Silent, this, ComposeDown, LoadScenario, StopSimulation, RouteDelete, RouteAdd,
     SetLoss, ConfigureQpep, KillMain, LaunchQpep, LaunchPepsal, LaunchOpenVpn, Executes, At
<1>3. /\ bed'.scenario = bed.scenario /\ bed'.loss = bed.loss /\ bed'.tproxy = bed.tproxy
      /\ bed'.pepsal = bed.pepsal /\ bed'.route = bed.route /\ bed'.qpep = bed.qpep
      /\ bed'.building = bed.building /\ bed'.vpn = bed.vpn
  BY <1>2 DEF BedOK, Beds, ComposeUp, AwaitHosts, AwaitAnswer, StartSimulation, AwaitRunning,
     GuiRoute, AwaitVpn, LaunchApp, KillApp
<1>4. Matches(net, route)'
  BY <1>3, SameMatches
<1> QED
  BY <1>1, <1>4

LEMMA OptionsFit ==
  ASSUME BedOK, NEW c \in Proxied, Settling(c, None)
  PROVE  bed.building[c] = <<>> /\ bed.qpep[c] = None
<1>1. bed.building[c] \in Seq(Programs) /\ None \notin Programs
  BY TestbedAssumption DEF BedOK, Beds
<1>2. CASE bed.building[c] = <<None>>
  <2>1. <<None>>[1] = None /\ 1 \in 1..Len(<<None>>)
    OBVIOUS
  <2>2. bed.building[c][1] \in Programs
    BY <1>1, <1>2, <2>1, ElementOfSeq
  <2> QED
    BY <1>1, <1>2, <2>1, <2>2
<1> QED
  BY <1>2 DEF Settling

\* A command that leaves the programs of QPEP alone.
LEMMA StillMatches ==
  ASSUME NEW net, NEW route, Matches(net, route), NEW n, NEW r,
         n.orbit = (IF bed'.scenario = "delay" THEN "LEO" ELSE "GEO"),
         bed'.loss = n.loss, bed'.tproxy = n.proxied, bed'.pepsal = n.pepsal, bed'.route = r,
         n.qpep = net.qpep, bed'.qpep = bed.qpep, bed'.building = bed.building,
         n.proxied = {} => net.proxied = {},
         bed'.vpn = n.vpn
  PROVE  Matches(n, r)'
BY DEF Matches, Settling

LEMMA StaticMatches ==
  ASSUME BedOK, Command, todo \in Seq(Orders), NEW c, c = this,
         c.op \in {"scenario", "route delete", "route add", "configure qpep", "pepsal"},
         NEW net \in Settings, NEW route \in [Routed -> Ways], Matches(net, route)
  PROVE  Matches(Change(c, net), Turned(c, route))'
<1>0. c \in Orders
  BY CommandTodo, ThisOrder
<1>1. bed \in Beds
  BY DEF BedOK
<1>2. CASE c.op = "scenario"
  <2>1. bed' = [bed EXCEPT !.scenario = c.arg]
    BY <1>2 DEF Command, this, ComposeDown, ComposeUp, AwaitHosts, AwaitAnswer, LoadScenario,
       StartSimulation, StopSimulation, AwaitRunning, RouteDelete, RouteAdd, GuiRoute, SetLoss,
       ConfigureQpep, KillMain, LaunchQpep, LaunchPepsal, LaunchOpenVpn, AwaitVpn, LaunchApp,
       KillApp, Executes, At
  <2>2. /\ Change(c, net) = [net EXCEPT !.orbit = IF c.arg = "delay" THEN "LEO" ELSE "GEO"]
        /\ Turned(c, route) = route
    BY <1>2 DEF Change, Turned
  <2>3. PICK n : n = Change(c, net)
    OBVIOUS
  <2>4. /\ bed'.scenario = c.arg
        /\ bed'.loss = bed.loss
        /\ bed'.tproxy = bed.tproxy
        /\ bed'.pepsal = bed.pepsal
        /\ bed'.route = bed.route
        /\ bed'.qpep = bed.qpep
        /\ bed'.building = bed.building
        /\ bed'.vpn = bed.vpn
    BY <1>1, <2>1 DEF Beds
  <2>5. /\ n.orbit = (IF c.arg = "delay" THEN "LEO" ELSE "GEO")
        /\ n.loss = net.loss
        /\ n.proxied = net.proxied
        /\ n.qpep = net.qpep
        /\ n.pepsal = net.pepsal
        /\ n.vpn = net.vpn
    BY <2>2, <2>3 DEF Settings
  <2>6. n.orbit = (IF bed'.scenario = "delay" THEN "LEO" ELSE "GEO")
    BY <2>4, <2>5
  <2>7. Matches(n, route)'
    <3>1. \A d \in Proxied : Settling(d, n.qpep[d])'
      BY <2>4, <2>5 DEF Matches, Settling
    <3> QED
      BY <2>4, <2>5, <2>6, <3>1 DEF Matches
  <2> QED
    BY <2>2, <2>3, <2>7
<1>3. CASE c.op \in {"route delete", "route add"}
  <2>1. /\ c.op = "route delete" => bed' = [bed EXCEPT !.route[c.at] = "none"]
        /\ c.op = "route add" => bed' = [bed EXCEPT !.route[c.at] = IF @ = "none" THEN "space" ELSE @]
    BY <1>3 DEF Command, this, ComposeDown, ComposeUp, AwaitHosts, AwaitAnswer, LoadScenario,
       StartSimulation, StopSimulation, AwaitRunning, RouteDelete, RouteAdd, GuiRoute, SetLoss,
       ConfigureQpep, KillMain, LaunchQpep, LaunchPepsal, LaunchOpenVpn, AwaitVpn, LaunchApp,
       KillApp, Executes, At
  <2>2. Change(c, net) = net
    BY <1>3 DEF Change
  <2>3. bed'.route = Turned(c, route)
    BY <1>1, <1>3, <2>1 DEF Turned, Matches, Beds
  <2>4. /\ bed'.scenario = bed.scenario /\ bed'.loss = bed.loss /\ bed'.tproxy = bed.tproxy
        /\ bed'.pepsal = bed.pepsal /\ bed'.qpep = bed.qpep
        /\ bed'.building = bed.building /\ bed'.vpn = bed.vpn
    BY <1>1, <1>3, <2>1 DEF Beds
  <2>5. Matches(net, Turned(c, route))'
    BY <2>3, <2>4 DEF Matches, Settling
  <2> QED
    BY <2>2, <2>5
<1>4. CASE c.op = "configure qpep"
  <2>1. bed' = [bed EXCEPT !.tproxy = @ \cup {c.at}]
    BY <1>4 DEF Command, this, ComposeDown, ComposeUp, AwaitHosts, AwaitAnswer, LoadScenario,
       StartSimulation, StopSimulation, AwaitRunning, RouteDelete, RouteAdd, GuiRoute, SetLoss,
       ConfigureQpep, KillMain, LaunchQpep, LaunchPepsal, LaunchOpenVpn, AwaitVpn, LaunchApp,
       KillApp, Executes, At
  <2>2. Change(c, net) = [net EXCEPT !.proxied = @ \cup {c.at}] /\ Turned(c, route) = route
    BY <1>4 DEF Change, Turned
  <2>3. PICK n : n = Change(c, net)
    OBVIOUS
  <2>4. /\ bed'.scenario = bed.scenario
        /\ bed'.loss = bed.loss
        /\ bed'.tproxy = bed.tproxy \cup {c.at}
        /\ bed'.pepsal = bed.pepsal
        /\ bed'.route = bed.route
        /\ bed'.qpep = bed.qpep
        /\ bed'.building = bed.building
        /\ bed'.vpn = bed.vpn
    BY <1>1, <2>1 DEF Beds
  <2>5. /\ n.orbit = net.orbit
        /\ n.loss = net.loss
        /\ n.proxied = net.proxied \cup {c.at}
        /\ n.qpep = net.qpep
        /\ n.pepsal = net.pepsal
        /\ n.vpn = net.vpn
    BY <2>2, <2>3 DEF Settings
  <2>6. Matches(n, route)'
    BY <2>4, <2>5, StillMatches DEF Matches
  <2> QED
    BY <2>2, <2>3, <2>6
<1>5. CASE c.op = "pepsal"
  <2>1. bed' = [bed EXCEPT !.pepsal = @ \cup {c.at}]
    BY <1>5 DEF Command, this, ComposeDown, ComposeUp, AwaitHosts, AwaitAnswer, LoadScenario,
       StartSimulation, StopSimulation, AwaitRunning, RouteDelete, RouteAdd, GuiRoute, SetLoss,
       ConfigureQpep, KillMain, LaunchQpep, LaunchPepsal, LaunchOpenVpn, AwaitVpn, LaunchApp,
       KillApp, Executes, At
  <2>2. Change(c, net) = [net EXCEPT !.pepsal = @ \cup {c.at}] /\ Turned(c, route) = route
    BY <1>5 DEF Change, Turned
  <2>3. PICK n : n = Change(c, net)
    OBVIOUS
  <2>4. /\ bed'.scenario = bed.scenario
        /\ bed'.loss = bed.loss
        /\ bed'.tproxy = bed.tproxy
        /\ bed'.pepsal = bed.pepsal \cup {c.at}
        /\ bed'.route = bed.route
        /\ bed'.qpep = bed.qpep
        /\ bed'.building = bed.building
        /\ bed'.vpn = bed.vpn
    BY <1>1, <2>1 DEF Beds
  <2>5. /\ n.orbit = net.orbit
        /\ n.loss = net.loss
        /\ n.proxied = net.proxied
        /\ n.qpep = net.qpep
        /\ n.pepsal = net.pepsal \cup {c.at}
        /\ n.vpn = net.vpn
    BY <2>2, <2>3 DEF Settings
  <2>6. Matches(n, route)'
    BY <2>4, <2>5, StillMatches DEF Matches
  <2> QED
    BY <2>2, <2>3, <2>6
<1> QED
  BY <1>2, <1>3, <1>4, <1>5

\* OpenVPN is launched.
LEMMA VpnMatches ==
  ASSUME BedOK, Command, todo \in Seq(Orders), NEW c, c = this, c.op = "openvpn",
         NEW net \in Settings, NEW route \in [Routed -> Ways], Matches(net, route)
  PROVE  Matches(Change(c, net), Turned(c, route))'
<1>1. bed \in Beds
  BY DEF BedOK
<1>2. bed' = [bed EXCEPT !.vpn = "launched"]
  BY DEF Command, this, ComposeDown, ComposeUp, AwaitHosts, AwaitAnswer, LoadScenario,
     StartSimulation, StopSimulation, AwaitRunning, RouteDelete, RouteAdd, GuiRoute, SetLoss,
     ConfigureQpep, KillMain, LaunchQpep, LaunchPepsal, LaunchOpenVpn, AwaitVpn, LaunchApp,
     KillApp, Executes, At
<1>3. Change(c, net) = [net EXCEPT !.vpn = "launched"] /\ Turned(c, route) = route
  BY DEF Change, Turned
<1>4. PICK n : n = Change(c, net)
  OBVIOUS
<1>5. /\ bed'.scenario = bed.scenario
      /\ bed'.loss = bed.loss
      /\ bed'.tproxy = bed.tproxy
      /\ bed'.pepsal = bed.pepsal
      /\ bed'.route = bed.route
      /\ bed'.qpep = bed.qpep
      /\ bed'.building = bed.building
      /\ bed'.vpn = "launched"
  BY <1>1, <1>2 DEF Beds
<1>6. /\ n.orbit = net.orbit
      /\ n.loss = net.loss
      /\ n.proxied = net.proxied
      /\ n.qpep = net.qpep
      /\ n.pepsal = net.pepsal
      /\ n.vpn = "launched"
  BY <1>3, <1>4 DEF Settings
<1>7. Matches(n, route)'
  BY <1>5, <1>6, StillMatches DEF Matches
<1> QED
  BY <1>3, <1>4, <1>7

LEMMA AppendNothing ==
  ASSUME NEW S, NEW x \in S
  PROVE  Append(<<>>, x) = <<x>>
<1>1. <<>> \in Seq(S)
  BY EmptySeq
<1>2. <<x>> \in Seq(S)
  OBVIOUS
<1> QED
  BY <1>1, <1>2, AppendIsConcat, ConcatEmptySeq

\* A QPEP launched where none is there is the only one.
LEMMA LaunchMatches ==
  ASSUME BedOK, Command, todo \in Seq(Orders), NEW c, c = this, c.op = "go run",
         NEW net \in Settings, NEW route \in [Routed -> Ways], Matches(net, route),
         net.qpep[c.at] = None, net.proxied # {}
  PROVE  Matches(Change(c, net), Turned(c, route))'
<1>0. c \in Orders
  BY CommandTodo, ThisOrder
<1>1. bed \in Beds /\ c.at \in Proxied /\ c.arg \in Programs
  BY <1>0, OrderCases DEF BedOK
<1>2. bed' = [bed EXCEPT !.building[c.at] = Append(@, c.arg)]
  BY DEF Command, this, ComposeDown, ComposeUp, AwaitHosts, AwaitAnswer, LoadScenario,
     StartSimulation, StopSimulation, AwaitRunning, RouteDelete, RouteAdd, GuiRoute, SetLoss,
     ConfigureQpep, KillMain, LaunchQpep, LaunchPepsal, LaunchOpenVpn, AwaitVpn, LaunchApp,
     KillApp, Executes, At
<1>3. Change(c, net) = [net EXCEPT !.qpep = [@ EXCEPT ![c.at] = c.arg]] /\ Turned(c, route) = route
  BY DEF Change, Turned
<1>4. bed.building[c.at] = <<>> /\ bed.qpep[c.at] = None
  BY <1>1, OptionsFit DEF Matches
<1>5. PICK x \in Programs : x = c.arg
  BY <1>1
<1>6. Append(<<>>, x) = <<x>>
  BY <1>5, AppendNothing
<1>7. /\ bed'.building = [bed.building EXCEPT ![c.at] = <<x>>]
      /\ bed'.scenario = bed.scenario /\ bed'.loss = bed.loss /\ bed'.tproxy = bed.tproxy
      /\ bed'.pepsal = bed.pepsal /\ bed'.route = bed.route /\ bed'.qpep = bed.qpep
      /\ bed'.vpn = bed.vpn
  BY <1>1, <1>2, <1>4, <1>5, <1>6 DEF Beds
<1>8. PICK n : n = Change(c, net)
  OBVIOUS
<1>9. /\ n.qpep = [net.qpep EXCEPT ![c.at] = x]
      /\ n.orbit = net.orbit /\ n.loss = net.loss /\ n.proxied = net.proxied
      /\ n.pepsal = net.pepsal /\ n.vpn = net.vpn
  BY <1>3, <1>5, <1>8 DEF Settings
<1>10. \A d \in Proxied : Settling(d, n.qpep[d])'
  <2> TAKE d \in Proxied
  <2>1. net.qpep \in [Proxied -> Programs \cup {None}] /\ bed.building \in [Proxied -> Seq(Programs)]
    BY <1>1 DEF Beds, Settings
  <2>2. CASE d = c.at
    <3>1. bed'.building[d] = <<x>> /\ bed'.qpep[d] = None /\ n.qpep[d] = x
      BY <1>4, <1>7, <1>9, <2>1, <2>2
    <3> QED
      BY <3>1 DEF Settling
  <2>3. CASE d # c.at
    <3>1. bed'.building[d] = bed.building[d] /\ bed'.qpep[d] = bed.qpep[d]
          /\ n.qpep[d] = net.qpep[d] /\ Settling(d, net.qpep[d])
      BY <1>7, <1>9, <2>1, <2>3 DEF Matches
    <3> QED
      BY <3>1 DEF Settling
  <2> QED
    BY <2>2, <2>3
<1>11. Matches(n, route)'
  BY <1>7, <1>9, <1>10 DEF Matches
<1> QED
  BY <1>3, <1>8, <1>11

\* While the simulation runs there is a tunnel, and tc does not fail.
LEMMA LossMatches ==
  ASSUME BedOK, Command, todo \in Seq(Orders), NEW c, c = this, c.op = "loss",
         NEW net \in Settings, NEW route \in [Routed -> Ways], Matches(net, route),
         bed.running = Hosts
  PROVE  Matches(Change(c, net), Turned(c, route))'
<1>1. bed \in Beds /\ Hosts # {}
  BY DEF BedOK, Hosts
<1>2. bed' = [bed EXCEPT !.loss[c.at] = c.arg]
  BY <1>1 DEF Command, this, ComposeDown, ComposeUp, AwaitHosts, AwaitAnswer, LoadScenario,
     StartSimulation, StopSimulation, AwaitRunning, RouteDelete, RouteAdd, GuiRoute, SetLoss,
     ConfigureQpep, KillMain, LaunchQpep, LaunchPepsal, LaunchOpenVpn, AwaitVpn, LaunchApp,
     KillApp, Executes, At
<1>3. Change(c, net) = [net EXCEPT !.loss = [@ EXCEPT ![c.at] = c.arg]] /\ Turned(c, route) = route
  BY DEF Change, Turned
<1>4. PICK n : n = Change(c, net)
  OBVIOUS
<1>5. /\ bed'.scenario = bed.scenario
      /\ bed'.loss = [bed.loss EXCEPT ![c.at] = c.arg]
      /\ bed'.tproxy = bed.tproxy
      /\ bed'.pepsal = bed.pepsal
      /\ bed'.route = bed.route
      /\ bed'.qpep = bed.qpep
      /\ bed'.building = bed.building
      /\ bed'.vpn = bed.vpn
  BY <1>1, <1>2 DEF Beds
<1>6. /\ n.orbit = net.orbit
      /\ n.loss = [net.loss EXCEPT ![c.at] = c.arg]
      /\ n.proxied = net.proxied
      /\ n.qpep = net.qpep
      /\ n.pepsal = net.pepsal
      /\ n.vpn = net.vpn
  BY <1>3, <1>4 DEF Settings
<1>7. Matches(n, route)'
  BY <1>5, <1>6, StillMatches DEF Matches
<1> QED
  BY <1>3, <1>4, <1>7

\* New containers are as compose made them.
LEMMA BlankFits ==
  ASSUME ComposeDown, NEW met, NEW a, a = Blank(met)
  PROVE  Fits(a)'
<1>1. bed' = Fresh
  BY DEF ComposeDown
<1>2. a.running = FALSE /\ a.net = Untouched /\ a.route = [c \in Routed |-> "docker"]
  BY DEF Blank
<1>3. Untouched = Net("GEO", None, {}, Pair(None, None), {}, "off")
  BY Promises DEF Untouched
<1>4. /\ a.net.orbit = "GEO" /\ a.net.loss = Lost(None) /\ a.net.proxied = {}
      /\ a.net.qpep = Pair(None, None) /\ a.net.pepsal = {} /\ a.net.vpn = "off"
  BY <1>2, <1>3 DEF Net
<1>5. Lost(None) = [c \in Lossy |-> None] /\ \A c \in Proxied : Pair(None, None)[c] = None
  BY DEF Lost, Pair
<1>6. /\ bed'.scenario = "default" /\ bed'.loss = [c \in Lossy |-> None] /\ bed'.tproxy = {}
      /\ bed'.pepsal = {} /\ bed'.route = [c \in Routed |-> "docker"] /\ bed'.vpn = "off"
      /\ \A c \in Proxied : bed'.building[c] = <<>> /\ bed'.qpep[c] = None
  BY <1>1 DEF Fresh
<1>7. Matches(a.net, a.route)'
  BY <1>2, <1>4, <1>5, <1>6 DEF Matches, Settling
<1> QED
  BY <1>2, <1>7 DEF Fits

\* All components go on running, but for a stop.
LEMMA CommandRuns ==
  ASSUME BedOK, Command, todo \in Seq(Orders), OtherWords <= 1,
         NEW c, c = this, c.op # "compose down",
         NEW running, running = (bed.running = Hosts),
         c.op = "await running" \/ (running /\ c.op # "stop")
  PROVE  bed'.running = Hosts
<1>1. bed \in Beds
  BY DEF BedOK
<1>2. CASE c.op = "await running"
  <2>1. bed' = bed /\ Cardinality(bed.running) + OtherWords > 3
    BY <1>2 DEF Command, this, ComposeDown, ComposeUp, AwaitHosts, AwaitAnswer, LoadScenario,
       StartSimulation, StopSimulation, AwaitRunning, RouteDelete, RouteAdd, GuiRoute, SetLoss,
       ConfigureQpep, KillMain, LaunchQpep, LaunchPepsal, LaunchOpenVpn, AwaitVpn, LaunchApp,
       KillApp, Executes, At
  <2> QED
    BY <2>1, AllRun
<1>3. CASE c.op # "await running"
  <2>1. c.op # "stop" /\ bed.running = Hosts
    BY <1>3
  <2>2. ~ ComposeDown /\ ~ StopSimulation
    BY <2>1 DEF ComposeDown, StopSimulation, Executes, At, this
  <2>3. bed'.running = bed.running
    BY <1>1, <2>2 DEF Command, ComposeUp, AwaitHosts, AwaitAnswer, LoadScenario,
       StartSimulation, AwaitRunning, RouteDelete, RouteAdd, GuiRoute, SetLoss,
       ConfigureQpep, KillMain, LaunchQpep, LaunchPepsal, LaunchOpenVpn, AwaitVpn, LaunchApp,
       KillApp, Beds
  <2> QED
    BY <2>1, <2>3
<1> QED
  BY <1>2, <1>3

\* After a command, what is known of the containers is still true.
LEMMA CommandFits ==
  ASSUME BedOK, Command, todo \in Seq(Orders), OtherWords <= 1,
         NEW a \in Known, Fits(a), NEW b, b = Effect(this, a)
  PROVE  Fits(b)'
<1>1. PICK c \in Orders : c = this
  BY CommandTodo, ThisOrder
<1>2. CASE c.op = "compose down"
  <2>1. ComposeDown
    BY <1>1, <1>2 DEF Command, this, ComposeDown, ComposeUp, AwaitHosts, AwaitAnswer, LoadScenario,
       StartSimulation, StopSimulation, AwaitRunning, RouteDelete, RouteAdd, GuiRoute, SetLoss,
       ConfigureQpep, KillMain, LaunchQpep, LaunchPepsal, LaunchOpenVpn, AwaitVpn, LaunchApp,
       KillApp, Executes, At
  <2>2. b = Blank(a.met)
    BY <1>1, <1>2 DEF Effect
  <2> QED
    BY <2>1, <2>2, BlankFits
<1>3. CASE c.op # "compose down"
  <2>1. /\ b.sure = (a.sure /\ ~ Doubtful(c, a))
        /\ b.running = (c.op = "await running" \/ (a.running /\ c.op # "stop"))
        /\ b.net = Change(c, a.net) /\ b.route = Turned(c, a.route)
    BY <1>1, <1>3, EffectParts
  <2>2. ASSUME b.running PROVE bed'.running = Hosts
    <3>1. c.op = "await running" \/ ((bed.running = Hosts) /\ c.op # "stop")
      BY <2>1, <2>2 DEF Fits
    <3> QED
      BY <1>1, <1>3, <3>1, CommandRuns
  <2>3. ASSUME b.sure PROVE Matches(b.net, b.route)'
    <3>1. a.sure /\ ~ Doubtful(c, a) /\ Matches(a.net, a.route)
      BY <2>1, <2>3 DEF Fits
    <3>2. a.net \in Settings /\ a.route \in [Routed -> Ways]
      BY DEF Known
    <3>3. PICK net \in Settings : net = a.net
      BY <3>2
    <3>4. PICK route \in [Routed -> Ways] : route = a.route
      BY <3>2
    <3>5. Matches(net, route)
      BY <3>1, <3>3, <3>4
    <3>6. Matches(Change(c, net), Turned(c, route))'
      <4>1. CASE c.op \in Silent
        BY <1>1, <3>5, <4>1, SilentMatches
      <4>2. CASE c.op \in {"scenario", "route delete", "route add", "configure qpep", "pepsal"}
        BY <1>1, <3>5, <4>2, StaticMatches
      <4>3. CASE c.op = "openvpn"
        BY <1>1, <3>5, <4>3, VpnMatches
      <4>4. CASE c.op = "go run"
        <5>1. net.qpep[c.at] = None /\ net.proxied # {}
          BY <3>1, <3>3, <4>4 DEF Doubtful
        <5> QED
          BY <1>1, <3>5, <4>4, <5>1, LaunchMatches
      <4>5. CASE c.op = "loss"
        <5>1. bed.running = Hosts
          BY <3>1, <4>5 DEF Doubtful, Fits
        <5> QED
          BY <1>1, <3>5, <4>5, <5>1, LossMatches
      <4>6. c.op \notin {"stop", "pkill main"}
        BY <3>1 DEF Doubtful
      <4>7. c.op \in {"compose down", "compose up", "await hosts", "await answer", "scenario",
                      "start", "stop", "await running", "route delete", "route add", "gui route",
                      "loss", "configure qpep", "pkill main", "go run", "pepsal", "openvpn",
                      "await vpn", "app", "pkill app"}
        BY <1>1 DEF Command, this, ComposeDown, ComposeUp, AwaitHosts, AwaitAnswer, LoadScenario,
           StartSimulation, StopSimulation, AwaitRunning, RouteDelete, RouteAdd, GuiRoute, SetLoss,
           ConfigureQpep, KillMain, LaunchQpep, LaunchPepsal, LaunchOpenVpn, AwaitVpn, LaunchApp,
           KillApp, Executes, At
      <4> QED
        BY <1>3, <4>1, <4>2, <4>3, <4>4, <4>5, <4>6, <4>7 DEF Silent
    <3> QED
      BY <2>1, <3>3, <3>4, <3>6
  <2> QED
    BY <2>2, <2>3 DEF Fits
<1> QED
  BY <1>2, <1>3

\* What containers do on their own makes nothing untrue.
LEMMA OutsideFits ==
  ASSUME BedOK, Outside, NEW a \in Known, Fits(a)
  PROVE  Fits(a)'
<1>0. bed \in Beds
  BY DEF BedOK
<1>1. CASE HostRegisters \/ HostRuns
  <2>1. /\ bed'.scenario = bed.scenario /\ bed'.loss = bed.loss /\ bed'.tproxy = bed.tproxy
        /\ bed'.pepsal = bed.pepsal /\ bed'.route = bed.route /\ bed'.qpep = bed.qpep
        /\ bed'.building = bed.building /\ bed'.vpn = bed.vpn
    BY <1>0, <1>1 DEF HostRegisters, HostRuns, Beds
  <2>2. bed.running = Hosts => bed'.running = Hosts
    <3>1. CASE HostRegisters
      BY <1>0, <3>1 DEF HostRegisters, Beds
    <3>2. CASE HostRuns
      <4>1. PICK h \in bed.hosts \ bed.running : bed' = [bed EXCEPT !.running = @ \cup {h}]
        BY <3>2 DEF HostRuns
      <4>2. h \in Hosts
        BY <1>0 DEF Beds
      <4>3. bed'.running = bed.running \cup {h}
        BY <1>0, <4>1 DEF Beds
      <4> QED
        BY <4>2, <4>3
    <3> QED
      BY <1>1, <3>1, <3>2
  <2>3. a.sure => Matches(a.net, a.route)'
    BY <2>1, SameMatches DEF Fits
  <2> QED
    BY <2>2, <2>3 DEF Fits
<1>3. CASE BuildEnds
  <2>1. PICK c \in Proxied : \E i \in DOMAIN bed.building[c] :
          bed' = [bed EXCEPT !.qpep[c] = IF @ = None THEN bed.building[c][i] ELSE @,
                             !.building[c] = SubSeq(@, 1, i - 1) \o SubSeq(@, i + 1, Len(@))]
    BY <1>3 DEF BuildEnds
  <2>2. PICK i \in DOMAIN bed.building[c] :
          bed' = [bed EXCEPT !.qpep[c] = IF @ = None THEN bed.building[c][i] ELSE @,
                             !.building[c] = SubSeq(@, 1, i - 1) \o SubSeq(@, i + 1, Len(@))]
    BY <2>1
  <2> DEFINE rest == SubSeq(bed.building[c], 1, i - 1)
                       \o SubSeq(bed.building[c], i + 1, Len(bed.building[c]))
             built == IF bed.qpep[c] = None THEN bed.building[c][i] ELSE bed.qpep[c]
  <2>3. bed' = [bed EXCEPT !.qpep = [@ EXCEPT ![c] = built], !.building = [@ EXCEPT ![c] = rest]]
    BY <2>2
  <2>4. /\ bed'.scenario = bed.scenario /\ bed'.loss = bed.loss /\ bed'.tproxy = bed.tproxy
        /\ bed'.pepsal = bed.pepsal /\ bed'.route = bed.route /\ bed'.vpn = bed.vpn
        /\ bed'.qpep = [bed.qpep EXCEPT ![c] = built]
        /\ bed'.building = [bed.building EXCEPT ![c] = rest]
        /\ bed'.running = bed.running
    <3> HIDE DEF built, rest
    <3> QED
      BY <1>0, <2>3 DEF Beds
  <2>5. bed.qpep \in [Proxied -> Programs \cup {None}] /\ bed.building \in [Proxied -> Seq(Programs)]
    BY <1>0 DEF Beds
  <2>6. \A x : Settling(c, x) => bed.building[c] = <<x>> /\ built = x /\ rest = <<>>
    <3> TAKE x
    <3>1. HAVE Settling(c, x)
    <3>2. bed.building[c] # <<>>
      BY <2>2
    <3>3. bed.building[c] = <<x>> /\ bed.qpep[c] = None
      BY <3>1, <3>2 DEF Settling
    <3>4. i = 1 /\ <<x>>[1] = x /\ Len(<<x>>) = 1
      BY <2>2, <3>3
    <3>5. built = x
      BY <3>3, <3>4
    <3>6. rest = <<>>
      BY <3>3, <3>4
    <3> QED
      BY <3>3, <3>5, <3>6
  <2> HIDE DEF built, rest
  <2>7. ASSUME a.sure PROVE Matches(a.net, a.route)'
    <3>1. Matches(a.net, a.route)
      BY <2>7 DEF Fits
    <3>2. \A d \in Proxied : Settling(d, a.net.qpep[d])'
      <4> TAKE d \in Proxied
      <4>1. Settling(d, a.net.qpep[d])
        BY <3>1 DEF Matches
      <4>2. CASE d = c
        <5>1. built = a.net.qpep[d] /\ rest = <<>>
          BY <2>6, <4>1, <4>2
        <5>2. bed'.qpep[d] = built /\ bed'.building[d] = rest
          BY <2>4, <2>5, <4>2
        <5> QED
          BY <5>1, <5>2 DEF Settling
      <4>3. CASE d # c
        <5>1. bed'.qpep[d] = bed.qpep[d] /\ bed'.building[d] = bed.building[d]
          BY <2>4, <2>5, <4>3
        <5> QED
          BY <4>1, <5>1 DEF Settling
      <4> QED
        BY <4>2, <4>3
    <3> QED
      BY <2>4, <3>1, <3>2 DEF Matches
  <2> QED
    BY <2>4, <2>7 DEF Fits
<1> QED
  BY <1>1, <1>3 DEF Outside

\* Two networks alike in each part are the same.
LEMMA SettingsEqual ==
  ASSUME NEW x \in Settings, NEW y \in Settings,
         x.orbit = y.orbit, x.loss = y.loss, x.proxied = y.proxied, x.qpep = y.qpep,
         x.pepsal = y.pepsal, x.vpn = y.vpn
  PROVE  x = y
BY DEF Settings

\* A program that is known to be launched runs, if all that traffic meets do.
LEMMA ProgramsRun ==
  ASSUME BedOK, NEW net \in Settings, NEW route, Matches(net, route),
         bed.tproxy # {} => \A c \in Proxied : bed.qpep[c] # None
  PROVE  bed.qpep = net.qpep
<1>1. bed.qpep \in [Proxied -> Programs \cup {None}] /\ net.qpep \in [Proxied -> Programs \cup {None}]
  BY DEF BedOK, Beds, Settings
<1>2. \A c \in Proxied : bed.qpep[c] = net.qpep[c]
  <2> TAKE c \in Proxied
  <2>1. Settling(c, net.qpep[c])
    BY DEF Matches
  <2>2. CASE net.proxied = {}
    <3>1. net.qpep[c] = None
      BY <2>2 DEF Matches
    <3> QED
      BY <2>1, <3>1, OptionsFit
  <2>3. CASE net.proxied # {}
    <3>1. bed.qpep[c] # None
      BY <2>3 DEF Matches
    <3> QED
      BY <2>1, <3>1 DEF Settling
  <2> QED
    BY <2>2, <2>3
<1> QED
  BY <1>1, <1>2

\* What is known is the network itself.
LEMMA SettingKnown ==
  ASSUME BedOK, NEW net \in Settings, NEW route, Matches(net, route),
         bed.tproxy # {} => \A c \in Proxied : bed.qpep[c] # None
  PROVE  Setting = net
<1>1. bed.qpep = net.qpep
  BY ProgramsRun
<1>4. Setting \in Settings
  BY SettingTyped
<1>5. /\ Setting.orbit = net.orbit /\ Setting.loss = net.loss /\ Setting.proxied = net.proxied
      /\ Setting.qpep = net.qpep /\ Setting.pepsal = net.pepsal /\ Setting.vpn = net.vpn
  BY <1>1 DEF Setting, Matches
<1> QED
  BY <1>4, <1>5, SettingsEqual

\* A sample is tagged with a network that the benchmark is known to have met.
LEMMA SampleMet ==
  ASSUME BedOK, NEW a \in Known, Fits(a), Reaches, NEW c, c.op \in {"iperf", "browse"}
  PROVE  Setting \in Met(c, a)
<1>1. CASE a.sure
  <2>1. a.net \in Settings /\ Matches(a.net, a.route)
    BY <1>1 DEF Known, Fits
  <2>2. Setting = a.net
    BY <1>1, <2>1, SettingKnown DEF Reaches
  <2> QED
    BY <1>1, <2>2 DEF Met
<1>2. CASE ~ a.sure
  BY <1>2, SettingTyped DEF Met
<1> QED
  BY <1>1, <1>2

\* Samples are added to those the benchmark has.
LEMMA MetMore ==
  ASSUME bench \in Seq(Samples), NEW met, MetOnly(met), NEW more, met \subseteq more,
         NEW batch \in Seq(Samples), bench' = bench \o batch,
         \A i \in DOMAIN batch : batch[i].ok => batch[i].setting \in more
  PROVE  MetOnly(more)'
<1>1. /\ Len(bench \o batch) = Len(bench) + Len(batch)
      /\ \A i \in 1..Len(bench) + Len(batch) :
           (bench \o batch)[i] = IF i <= Len(bench) THEN bench[i] ELSE batch[i - Len(bench)]
  BY ConcatProperties
<1>2. /\ Len(bench) \in Nat /\ Len(batch) \in Nat /\ bench \o batch \in Seq(Samples)
      /\ DOMAIN bench = 1..Len(bench) /\ DOMAIN batch = 1..Len(batch)
      /\ DOMAIN (bench \o batch) = 1..Len(bench \o batch)
  BY ConcatProperties, LenProperties
<1>3. PICK joined : joined = bench \o batch
  OBVIOUS
<1>4. ASSUME NEW i \in DOMAIN joined, joined[i].ok PROVE joined[i].setting \in more
  <2>1. CASE i <= Len(bench)
    <3>1. i \in DOMAIN bench /\ joined[i] = bench[i]
      BY <1>1, <1>2, <1>3, <1>4, <2>1
    <3> QED
      BY <1>4, <3>1 DEF MetOnly
  <2>2. CASE ~ (i <= Len(bench))
    <3>1. i - Len(bench) \in DOMAIN batch /\ joined[i] = batch[i - Len(bench)]
      BY <1>1, <1>2, <1>3, <1>4, <2>2
    <3> QED
      BY <1>4, <3>1
  <2> QED
    BY <2>1, <2>2
<1> QED
  BY <1>3, <1>4 DEF MetOnly

Calm == {"fresh", "iperf", "browse", "record", "speedtest", "check link"}

\* A command that leaves the containers alone.
LEMMA CalmDescribes ==
  ASSUME NEW a \in Known, Describes(a), NEW c, c.op \in Calm, NEW e, e = Effect(c, a),
         bed' = bed, stopped' = stopped, MetOnly(e.met)'
  PROVE  Describes(e)'
<1>1. /\ e.sure = a.sure /\ e.running = a.running /\ e.loose = a.loose
      /\ e.net = a.net /\ e.route = a.route
  <2>1. /\ e.sure = (a.sure /\ ~ Doubtful(c, a))
        /\ e.running = (c.op = "await running" \/ (a.running /\ c.op # "stop"))
        /\ e.loose = a.loose /\ e.net = Change(c, a.net) /\ e.route = Turned(c, a.route)
    BY EffectParts DEF Calm
  <2>2. ~ Doubtful(c, a) /\ Change(c, a.net) = a.net /\ Turned(c, a.route) = a.route
    BY DEF Calm, Doubtful, Change, Turned
  <2>3. {a.sure, a.running} \subseteq BOOLEAN
    BY DEF Known
  <2>4. e.sure = a.sure
    BY <2>1, <2>2, <2>3
  <2>5. e.running = a.running
    BY <2>1, <2>3 DEF Calm
  <2> QED
    BY <2>1, <2>2, <2>4, <2>5
<1>2. Fits(e)'
  <2>1. e.running => bed'.running = Hosts
    BY <1>1 DEF Describes, Fits
  <2>2. e.sure => Matches(e.net, e.route)'
    <3>1. e.sure => Matches(a.net, a.route)
      BY <1>1 DEF Describes, Fits
    <3>2. Matches(a.net, a.route) => Matches(a.net, a.route)'
      BY DEF Matches, Settling
    <3> QED
      BY <1>1, <3>1, <3>2
  <2> QED
    BY <2>1, <2>2 DEF Fits
<1>3. e.loose => stopped'
  BY <1>1 DEF Describes
<1> QED
  BY <1>2, <1>3 DEF Describes

\* What is known stays true when a command is executed.
LEMMA CommandDescribes ==
  ASSUME Typed, Command, OtherWords <= 1, bench' = bench,
         stopped' = (stopped /\ ~ (At("compose down") /\ todo' # todo)) \/ stopped' = stopped,
         NEW a \in Known, Describes(a), NEW e, e = Effect(this, a)
  PROVE  Describes(e)'
<1>0. BedOK /\ todo \in Seq(Orders)
  BY DEF Typed, BedOK
<1>1. PICK c \in Orders : c = this
  BY <1>0, CommandTodo, ThisOrder
<1>2. Fits(e)'
  BY <1>0, CommandFits DEF Describes
<1>3. c.op \notin {"fresh", "iperf", "browse"}
  BY <1>1 DEF Command, this, ComposeDown, ComposeUp, AwaitHosts, AwaitAnswer, LoadScenario,
     StartSimulation, StopSimulation, AwaitRunning, RouteDelete, RouteAdd, GuiRoute, SetLoss,
     ConfigureQpep, KillMain, LaunchQpep, LaunchPepsal, LaunchOpenVpn, AwaitVpn, LaunchApp,
     KillApp, Executes, At
<1>4. e.met = a.met
  BY <1>1, <1>3 DEF Effect, Blank, Met
<1>5. MetOnly(e.met)'
  BY <1>4 DEF Describes, MetOnly
<1>6. e.loose => stopped'
  <2>1. CASE c.op = "compose down"
    <3>1. e.loose = FALSE
      BY <1>1, <2>1 DEF Effect, Blank
    <3> QED
      BY <3>1
  <2>2. CASE c.op # "compose down"
    <3>1. e.loose = a.loose
      BY <1>1, <2>2, EffectParts
    <3>2. ~ At("compose down")
      BY <1>1, <2>2 DEF At, this
    <3>3. stopped => stopped'
      BY <3>2
    <3> QED
      BY <3>1, <3>3 DEF Describes
  <2> QED
    BY <2>1, <2>2
<1> QED
  BY <1>2, <1>5, <1>6 DEF Describes

\* What is known stays true when containers do something on their own.
LEMMA OutsideDescribes ==
  ASSUME Typed, Outside, bench' = bench, stopped' = stopped, NEW a \in Known, Describes(a)
  PROVE  Describes(a)'
<1>1. Fits(a)'
  BY OutsideFits DEF Typed, BedOK, Describes
<1> QED
  BY <1>1 DEF Describes, MetOnly

\* The containers stay as they are, and the benchmark forgets at most.
LEMMA RestDescribes ==
  ASSUME NEW a \in Known, Describes(a), bed' = bed, bench' = bench \/ bench' = <<>>,
         NEW loose \in BOOLEAN, NEW e, e = [a EXCEPT !.loose = loose], loose => stopped'
  PROVE  Describes(e)'
<1>1. e.sure = a.sure /\ e.running = a.running /\ e.net = a.net /\ e.route = a.route
      /\ e.met = a.met /\ e.loose = loose
  BY DEF Known
<1>2. Fits(e)'
  <2>1. Matches(a.net, a.route) => Matches(a.net, a.route)'
    BY DEF Matches, Settling
  <2> QED
    BY <1>1, <2>1 DEF Describes, Fits
<1>3. MetOnly(e.met)'
  BY <1>1 DEF Describes, MetOnly
<1> QED
  BY <1>1, <1>2, <1>3 DEF Describes

\* A command is executed, and the others follow.
LEMMA Proceeds ==
  ASSUME todo \in Seq(Orders), todo # <<>>, NEW a \in Known, NEW b \in Known,
         Leads(todo, a, b), Goal(b), todo' = Tail(todo), outcome' = outcome, last' = last,
         NEW e, e = Effect(this, a), Describes(e)'
  PROVE  Tracked'
<1>1. this \in Orders
  BY ThisOrder
<1>2. e \in Known
  BY <1>1, EffectTyped
<1>3. Leads(Tail(todo), e, b)
  BY LeadsOn DEF this
<1>4. Goal(b)'
  BY DEF Goal
<1>5. Leads(todo', e, b)
  BY <1>3
<1> QED
  BY <1>2, <1>4, <1>5 DEF Tracked, Leads, Walks, Trace

\* The commands that are left will be executed later.
LEMMA Waits ==
  ASSUME NEW a \in Known, NEW b \in Known, Leads(todo, a, b), Goal(b), todo' = todo,
         outcome' = outcome, last' = last, Describes(a)'
  PROVE  Tracked'
<1>1. Goal(b)'
  BY DEF Goal
<1>2. Leads(todo', a, b)
  OBVIOUS
<1> QED
  BY <1>1, <1>2 DEF Tracked, Leads, Walks, Trace

\* The script has ended.
LEMMA EndsEarly ==
  ASSUME NEW a \in Known, todo' = <<>>, outcome' # "running", Describes(a)'
  PROVE  Tracked'
<1>1. Leads(<<>>, a, a)
  BY LeadsNowhere
<1>2. Goal(a)'
  BY DEF Goal
<1>3. Leads(todo', a, a)
  BY <1>1
<1> QED
  BY <1>2, <1>3 DEF Tracked, Leads, Walks, Trace

\* A script or a call begins.
LEMMA Begins ==
  ASSUME NEW a \in Known, NEW A, a \in A, NEW B, Takes(todo', A, B), Describes(a)',
         \A b \in B : Goal(b)'
  PROVE  Tracked'
<1>1. PICK b \in B : Leads(todo', a, b)
  BY DEF Takes
<1>2. b \in Known
  BY DEF Takes
<1> QED
  BY <1>1, <1>2 DEF Tracked, Leads, Walks, Trace

-----------------------------------------------------------------------------
(* The steps of a script.                                                  *)

\* What is known stays true when something is measured.
LEMMA TransferDescribes ==
  ASSUME Typed, Iperf \/ BrowseSite, NEW a \in Known, Describes(a),
         NEW e, e = Effect(this, a), stopped' = stopped
  PROVE  Describes(e)'
<1>1. BedOK /\ todo \in Seq(Orders) /\ bench \in Seq(Samples)
  BY DEF Typed, BedOK
<1>2. todo # <<>> /\ this.op \in {"iperf", "browse"} /\ bed' = bed
  BY DEF Iperf, BrowseSite, Executes, At, this
<1>3. PICK c \in Orders : c = this
  BY <1>1, <1>2, ThisOrder
<1>4. c.op \in {"iperf", "browse"} /\ c.arg \in STRING /\ e.met = Met(c, a)
  BY <1>2, <1>3, OrderCases, EffectParts
<1>5. a.met \subseteq Met(c, a)
  BY <1>4 DEF Known, Met
<1>6. Reaches => Setting \in Met(c, a)
  BY <1>1, <1>4, SampleMet DEF Describes
<1>7. \A ok \in BOOLEAN : /\ Sample(c.arg, ok) \in Samples
                          /\ (ok => Reaches) =>
                               (Sample(c.arg, ok).ok => Sample(c.arg, ok).setting \in Met(c, a))
  <2> TAKE ok \in BOOLEAN
  <2>1. Sample(c.arg, ok) \in Samples
    BY <1>1, <1>4, SampleTyped
  <2>2. Sample(c.arg, ok).ok = ok /\ (ok => Sample(c.arg, ok).setting = Setting)
    BY DEF Sample
  <2> QED
    BY <1>6, <2>1, <2>2
<1>8. PICK batch \in Seq(Samples) :
        /\ bench' = bench \o batch
        /\ \A i \in DOMAIN batch : batch[i].ok => batch[i].setting \in Met(c, a)
  <2>1. CASE Iperf
    <3>1. PICK ok \in {FALSE} \cup {Reaches /\ "iperf3" \in bed.apps} :
            bench' = Append(bench, Sample(this.arg, ok))
      BY <2>1 DEF Iperf
    <3>2. ok \in BOOLEAN /\ (ok => Reaches)
      BY <3>1
    <3>3. PICK x \in Samples : x = Sample(c.arg, ok) /\ (x.ok => x.setting \in Met(c, a))
      BY <1>7, <3>2
    <3>4. bench' = bench \o <<x>>
      BY <1>1, <1>3, <3>1, <3>3, AppendIsConcat
    <3>5. <<x>> \in Seq(Samples) /\ \A i \in DOMAIN <<x>> : <<x>>[i] = x
      BY <3>3
    <3> QED
      BY <3>3, <3>4, <3>5
  <2>2. CASE BrowseSite
    <3>1. PICK n \in 0..SubIterations :
            (n > 0 => Reaches) /\ bench' = bench \o [i \in 1..n |-> Sample(this.arg, TRUE)]
      BY <2>2 DEF BrowseSite
    <3>2. PICK x \in Samples : x = Sample(c.arg, TRUE) /\ (Reaches => (x.ok => x.setting \in Met(c, a)))
      BY <1>7
    <3>3. n \in Nat
      BY <3>1, ExperimentsAssumption
    <3> DEFINE batch == [i \in 1..n |-> x]
    <3>4. batch \in [1..n -> Samples]
      BY <3>2
    <3>5. batch \in Seq(Samples)
      <4> HIDE DEF batch
      <4> QED
        BY <3>3, <3>4, SeqDef
    <3>6. bench' = bench \o batch
      BY <1>3, <3>1, <3>2
    <3>7. \A i \in DOMAIN batch : batch[i] = x /\ Reaches
      BY <3>1, <3>3
    <3> HIDE DEF batch
    <3> QED
      BY <3>2, <3>5, <3>6, <3>7
  <2> QED
    BY <2>1, <2>2
<1>9. MetOnly(e.met)'
  <2>1. PICK more : more = Met(c, a)
    OBVIOUS
  <2>2. PICK met : met = a.met
    OBVIOUS
  <2>3. MetOnly(more)'
    BY <1>1, <1>5, <1>8, <2>1, <2>2, MetMore DEF Describes
  <2> QED
    BY <1>4, <2>1, <2>3 DEF MetOnly
<1>10. c.op \in Calm /\ e = Effect(c, a)
  BY <1>3, <1>4 DEF Calm
<1> QED
  BY <1>2, <1>9, <1>10, CalmDescribes

\* A command of a script takes what is known to what it leads to.
LEMMA ScriptProceeds ==
  ASSUME Typed, FreshBench \/ Iperf \/ BrowseSite \/ RecordBatch \/ CheckLink
                \/ (Speedtest /\ outcome' = "running"),
         NEW a \in Known, Describes(a), NEW e, e = Effect(this, a), stopped' = stopped
  PROVE  Describes(e)' /\ todo # <<>> /\ todo' = Tail(todo) /\ outcome' = outcome
<1>0. todo \in Seq(Orders)
  BY DEF Typed
<1>1. CASE Iperf \/ BrowseSite
  <2>1. todo # <<>> /\ todo' = Tail(todo) /\ outcome' = outcome
    BY <1>1 DEF Iperf, BrowseSite, Executes, At
  <2> QED
    BY <1>1, <2>1, TransferDescribes
<1>2. CASE FreshBench
  <2>1. /\ todo # <<>> /\ todo' = Tail(todo) /\ outcome' = outcome
        /\ this.op = "fresh" /\ bed' = bed /\ bench' = <<>>
    BY <1>2 DEF FreshBench, Executes, At, this
  <2>2. MetOnly(e.met)'
    BY <2>1 DEF MetOnly
  <2>3. PICK c : c = this
    OBVIOUS
  <2>4. c.op \in Calm /\ e = Effect(c, a)
    BY <2>1, <2>3 DEF Calm
  <2>5. Describes(e)'
    BY <2>1, <2>2, <2>4, CalmDescribes
  <2> QED
    BY <2>1, <2>5
<1>3. CASE RecordBatch \/ CheckLink \/ (Speedtest /\ outcome' = "running")
  <2>1. /\ todo # <<>> /\ this.op \in {"record", "check link", "speedtest"}
        /\ bed' = bed /\ bench' = bench
    BY <1>3 DEF RecordBatch, CheckLink, Speedtest, Executes, At, this, benchVars
  <2>2. Tail(todo) \in Seq(Orders)
    BY <1>0, <2>1, ThisOrder
  <2>3. todo' = Tail(todo) /\ outcome' = outcome
    <3>1. CASE RecordBatch
      BY <3>1 DEF RecordBatch, Executes
    <3>2. CASE CheckLink
      <4>1. todo' = <<>> \o Tail(todo) /\ outcome' = outcome
        BY <3>2 DEF CheckLink, EqualsZero
      <4> QED
        BY <2>2, <4>1, ConcatEmptySeq
    <3>3. CASE Speedtest /\ outcome' = "running"
      BY <3>3 DEF Speedtest, At
    <3> QED
      BY <1>3, <3>1, <3>2, <3>3
  <2>4. e.met = a.met
    BY <2>1, EffectParts DEF Met
  <2>5. MetOnly(e.met)'
    BY <2>1, <2>4 DEF Describes, MetOnly
  <2>6. PICK c : c = this
    OBVIOUS
  <2>7. c.op \in Calm /\ e = Effect(c, a)
    BY <2>1, <2>6 DEF Calm
  <2>8. Describes(e)'
    BY <2>1, <2>5, <2>7, CalmDescribes
  <2> QED
    BY <2>1, <2>3, <2>8
<1> QED
  BY <1>1, <1>2, <1>3

\* Scripts proceed, end, die and start again.
LEMMA ScriptTracked ==
  ASSUME Typed, Tracked, ByScript(Next), OtherWords <= 1
  PROVE  Tracked'
<1>0. PICK a \in Known : \E b \in Known : Describes(a) /\ Leads(todo, a, b) /\ Goal(b)
  BY DEF Tracked
<1>1. PICK b \in Known : Leads(todo, a, b) /\ Goal(b)
  BY <1>0
<1>2. /\ todo \in Seq(Orders) /\ Describes(a)
      /\ Next /\ last' = last /\ stopped' = stopped /\ last = Nothing
  BY <1>0 DEF Typed, ByScript, userVars
<1>3. PICK e : e = Effect(this, a)
  OBVIOUS
<1>4. CASE Deploying
  <2>1. Command /\ bench' = bench
    BY <1>4 DEF Deploying, benchVars
  <2>2. Describes(e)'
    BY <1>2, <1>3, <2>1, CommandDescribes
  <2>3. todo # <<>> /\ todo' = Tail(todo) /\ outcome' = outcome
    BY <2>1, CommandTodo
  <2> QED
    BY <1>1, <1>2, <1>3, <2>2, <2>3, Proceeds
<1>5. CASE FreshBench \/ Iperf \/ BrowseSite \/ RecordBatch \/ CheckLink
           \/ (Speedtest /\ outcome' = "running")
  <2>1. Describes(e)' /\ todo # <<>> /\ todo' = Tail(todo) /\ outcome' = outcome
    BY <1>2, <1>3, <1>5, ScriptProceeds
  <2> QED
    BY <1>1, <1>2, <1>3, <2>1, Proceeds
<1>6. ASSUME NEW x, Describes(a), bed' = bed, bench' = bench \/ bench' = <<>>
      PROVE  Describes(a)'
  <2>1. a.loose \in BOOLEAN /\ a = [a EXCEPT !.loose = a.loose] /\ (a.loose => stopped')
    BY <1>2 DEF Known, Describes
  <2> QED
    BY <1>6, <2>1, RestDescribes
<1>7. CASE Raise \/ Finish \/ Dies \/ Kill \/ (Speedtest /\ outcome' # "running")
  <2>1. todo' = <<>> /\ bed' = bed /\ (bench' = bench \/ bench' = <<>>)
    BY <1>7 DEF Raise, Finish, Dies, Kill, Speedtest, ConnectionLost, Forgotten, benchVars, At
  <2>2. outcome' # "running"
    <3>1. CASE Raise
      <4>1. this \in Orders /\ this.op = "raise" /\ outcome' = this.arg
        BY <1>2, <3>1, ThisOrder DEF Raise, At, this
      <4> QED
        BY <4>1, OrderCases
    <3>2. CASE ~ Raise
      BY <1>7, <3>2 DEF Finish, Dies, Kill, ConnectionLost
    <3> QED
      BY <3>1, <3>2
  <2> QED
    BY <1>2, <1>6, <2>1, <2>2, EndsEarly
<1>8. CASE Happens
  <2>1. Outside /\ bench' = bench
    BY <1>8 DEF Happens, benchVars
  <2>2. Describes(a)'
    BY <1>2, <2>1, OutsideDescribes
  <2>3. todo' = todo /\ outcome' = outcome
    BY <2>1 DEF Outside, HostRegisters, HostRuns, BuildEnds
  <2> QED
    BY <1>1, <1>2, <2>2, <2>3, Waits
<1>9. CASE Restart
  <2>1. PICK s \in Scripts : todo' = Program[s]
    BY <1>9 DEF Restart
  <2>2. bed' = bed /\ bench' = <<>>
    BY <1>9 DEF Restart, Forgotten
  <2>3. Describes(a)'
    BY <1>2, <1>6, <2>2
  <2>4. Takes(Program[s], Known, Known)
    BY Scripted
  <2>5. \A c \in Known : Goal(c)'
    BY <1>2 DEF Goal, Nothing
  <2> QED
    BY <2>1, <2>3, <2>4, <2>5, Begins
<1> QED
  BY <1>2, <1>4, <1>5, <1>7, <1>8, <1>9 DEF Next, Working

-----------------------------------------------------------------------------
(* The steps of a user's program.                                          *)

\* Calls begin, proceed and are cut off.
LEMMA UserTracked ==
  ASSUME Typed, Tracked, ByUser, UserNext, OtherWords <= 1
  PROVE  Tracked'
<1>0. PICK a \in Known : \E b \in Known : Describes(a) /\ Leads(todo, a, b) /\ Goal(b)
  BY DEF Tracked
<1>1. PICK b \in Known : Leads(todo, a, b) /\ Goal(b)
  BY <1>0
<1>2. todo \in Seq(Orders) /\ Describes(a) /\ bench' = bench /\ (a.loose => stopped)
  BY <1>0 DEF Typed, UserNext, scriptVars, benchVars, Describes
<1>3. PICK e : e = Effect(this, a)
  OBVIOUS
<1>4. ASSUME NEW x, bed' = bed, a.loose => stopped' PROVE Describes(a)'
  <2>1. a.loose \in BOOLEAN /\ a = [a EXCEPT !.loose = a.loose]
    BY DEF Known
  <2> QED
    BY <1>2, <1>4, <2>1, RestDescribes
<1>5. CASE CallDeploy
  <2>1. PICK kind \in Chosen, up \in BOOLEAN, orbit \in Orbits, level \in UserLevels :
          /\ todo' = deploy_scenario(kind, up, orbit, level) /\ bed' = bed
          /\ last' = [kind |-> kind, up |-> up, orbit |-> orbit, level |-> level]
          /\ stopped' = stopped
    BY <1>5 DEF CallDeploy, Calls
  <2>2. kind \in Kinds /\ orbit \in Orbital /\ level \in Levels
    BY UserAssumption DEF Orbital
  <2>3. Describes(a)'
    BY <1>2, <1>4, <2>1
  <2>4. CASE up
    <3>1. Takes(deploy_scenario(kind, TRUE, orbit, level), Known, Known)
      BY <2>2, DeploysUp
    <3>2. \A c \in Known : Goal(c)'
      BY <2>1, <2>4 DEF Goal
    <3>3. Takes(todo', Known, Known)
      BY <2>1, <2>4, <3>1
    <3> QED
      BY <2>3, <3>2, <3>3, Begins
  <2>5. CASE ~ up
    <3> DEFINE B == On(Promised(kind, orbit, level, None), Settings)
    <3>1. Takes(deploy_scenario(kind, FALSE, orbit, level), Known, B)
      BY <2>2, Deploys, Everything
    <3>2. Takes(todo', Known, B)
      BY <2>1, <2>5, <3>1
    <3>3. \A c \in B : Goal(c)'
      BY <2>1, <2>2 DEF Goal
    <3> HIDE DEF B
    <3> QED
      BY <2>3, <3>2, <3>3, Begins
  <2> QED
    BY <2>4, <2>5
<1>6. CASE CallOther
  <2>1. bed' = bed /\ stopped' = stopped /\ last' = Nothing
    BY <1>6 DEF CallOther, Calls
  <2>2. \/ todo' \in {stop_testbed, connect_sitespeed_workstation, launch_wireshark}
        \/ \E plr \in UserLosses, st_out, gw_out \in BOOLEAN :
             todo' = set_plr_percentage(plr, st_out, gw_out)
    BY <1>6 DEF CallOther, Calls
  <2>3. Takes(stop_testbed, Known, Known) /\ Takes(connect_sitespeed_workstation, Known, Known)
        /\ Takes(launch_wireshark, Known, Known)
    BY TakesCalls
  <2>4. \A plr \in UserLosses, st_out, gw_out \in BOOLEAN :
          Takes(set_plr_percentage(plr, st_out, gw_out), Known, Known)
    BY TakesSetPlr, UserAssumption
  <2>5. Takes(todo', Known, Known)
    BY <2>2, <2>3, <2>4
  <2>6. Describes(a)'
    BY <1>2, <1>4, <2>1
  <2>7. \A c \in Known : Goal(c)'
    BY <2>1 DEF Goal, Nothing
  <2> QED
    BY <2>5, <2>6, <2>7, Begins
<1>7. CASE CallAttenuation \/ RestartSimulation
  <2>1. /\ bed' = bed /\ stopped' = TRUE /\ last' = Nothing
        /\ todo' \in {run_attenuation_scenario, <<Cmd("stop", "window", ""), Cmd("start", "window", "")>>}
    BY <1>7 DEF CallAttenuation, RestartSimulation, Calls
  <2>2. PICK f : f = [a EXCEPT !.loose = TRUE]
    OBVIOUS
  <2>3. f \in Loosened
    BY <2>2 DEF Loosened, Known
  <2>4. Describes(f)'
    BY <1>2, <2>1, <2>2, RestDescribes
  <2>5. Takes(todo', Loosened, Known)
    BY <2>1, TakesStops
  <2>6. \A c \in Known : Goal(c)'
    BY <2>1 DEF Goal, Nothing
  <2>7. f \in Known
    BY <2>3 DEF Loosened
  <2> QED
    BY <2>3, <2>4, <2>5, <2>6, <2>7, Begins
<1>8. CASE Executing
  <2>1. stopped' = (stopped /\ ~ (At("compose down") /\ todo' # todo)) /\ last' = last
    BY <1>8 DEF Executing
  <2>2. CASE Command
    <3>1. Describes(e)'
      BY <1>2, <1>3, <2>1, <2>2, CommandDescribes
    <3>2. todo # <<>> /\ todo' = Tail(todo) /\ outcome' = outcome
      BY <2>2, CommandTodo
    <3> QED
      BY <1>1, <1>2, <1>3, <2>1, <3>1, <3>2, Proceeds
  <2>3. CASE Outside
    <3>1. todo' = todo /\ outcome' = outcome
      BY <2>3 DEF Outside, HostRegisters, HostRuns, BuildEnds
    <3>2. stopped => stopped'
      BY <2>1, <3>1
    <3>3. Fits(a)'
      BY <1>2, <2>3, OutsideFits DEF Typed, BedOK, Describes
    <3>4. Describes(a)'
      BY <1>2, <3>2, <3>3 DEF Describes, MetOnly
    <3> QED
      BY <1>1, <2>1, <3>1, <3>4, Waits
  <2>4. CASE ConnectionLost
    <3>1. todo' = <<>> /\ outcome' # "running" /\ bed' = bed /\ ~ At("compose down")
      BY <2>4 DEF ConnectionLost, At
    <3>2. stopped => stopped'
      BY <2>1, <3>1
    <3>3. Describes(a)'
      BY <1>2, <1>4, <3>1, <3>2
    <3> QED
      BY <3>1, <3>3, EndsEarly
  <2> QED
    BY <1>8, <2>2, <2>3, <2>4 DEF Executing
<1> QED
  BY <1>5, <1>6, <1>7, <1>8 DEF UserNext

\* Containers that have just been made are untouched.
LEMMA FreshFits ==
  ASSUME bed = Fresh, NEW met, NEW a, a = Blank(met)
  PROVE  Fits(a)
<1>1. a.running = FALSE /\ a.net = Untouched /\ a.route = [c \in Routed |-> "docker"]
  BY DEF Blank
<1>2. Untouched = Net("GEO", None, {}, Pair(None, None), {}, "off")
  BY Promises DEF Untouched
<1>3. /\ a.net.orbit = "GEO" /\ a.net.loss = Lost(None) /\ a.net.proxied = {}
      /\ a.net.qpep = Pair(None, None) /\ a.net.pepsal = {} /\ a.net.vpn = "off"
  BY <1>1, <1>2 DEF Net
<1>4. Lost(None) = [c \in Lossy |-> None] /\ \A c \in Proxied : Pair(None, None)[c] = None
  BY DEF Lost, Pair
<1>5. /\ bed.scenario = "default" /\ bed.loss = [c \in Lossy |-> None] /\ bed.tproxy = {}
      /\ bed.pepsal = {} /\ bed.route = [c \in Routed |-> "docker"] /\ bed.vpn = "off"
      /\ \A c \in Proxied : bed.building[c] = <<>> /\ bed.qpep[c] = None
  BY DEF Fresh
<1>6. Matches(a.net, a.route)
  BY <1>1, <1>3, <1>4, <1>5 DEF Matches, Settling
<1> QED
  BY <1>1, <1>6 DEF Fits

\* At the start nothing is known, and no command is to come.
LEMMA InitTracked == TestbedInit => Tracked
<1> SUFFICES ASSUME TestbedInit PROVE Tracked
  OBVIOUS
<1>1. bed = Fresh /\ bench = <<>> /\ last = Nothing
  BY DEF TestbedInit, ScriptInit, UserInit, Init
<1>2. PICK a : a = Blank({})
  OBVIOUS
<1>3. a \in Known
  BY <1>2, UntouchedTyped DEF Blank, Known, Ways
<1>4. Fits(a)
  BY <1>1, <1>2, FreshFits
<1>5. Describes(a)
  BY <1>1, <1>2, <1>4 DEF Describes, MetOnly, Blank
<1>6. Takes(todo, Known, Known)
  <2>1. CASE ScriptInit
    <3>1. script \in Scripts /\ todo = Program[script]
      BY <2>1 DEF ScriptInit, Init
    <3> QED
      BY <3>1, Scripted
  <2>2. CASE UserInit
    BY <2>2, TakesNothing DEF UserInit
  <2> QED
    BY <2>1, <2>2 DEF TestbedInit
<1>7. \A b \in Known : Goal(b)
  BY <1>1 DEF Goal, Nothing
<1> QED
  BY <1>3, <1>5, <1>6, <1>7 DEF Takes, Tracked

-----------------------------------------------------------------------------
(* What follows from what is known.                                        *)

\* At each command, something is known that is true and that allows it.
LEMMA HeadAllowed ==
  ASSUME Typed, Tracked, todo # <<>>
  PROVE  \E a \in Known : Describes(a) /\ Allowed(this, a)
<1>1. PICK a \in Known : \E b \in Known : Describes(a) /\ Leads(todo, a, b)
  BY DEF Tracked
<1>2. PICK b \in Known : Leads(todo, a, b)
  BY <1>1
<1>3. Allowed(Head(todo), a)
  BY <1>2, LeadsOn DEF Typed
<1> QED
  BY <1>1, <1>3 DEF this

\* A command does not route the terminal over a network that does not run.
LEMMA CommandRouted ==
  ASSUME Typed, Tracked, Command, RoutedUnlessStopped,
         ~ At("compose down") => (stopped => stopped')
  PROVE  RoutedUnlessStopped'
<1>1. bed \in Beds /\ todo \in Seq(Orders) /\ todo # <<>> /\ bed.route \in [Routed -> Ways]
  BY CommandTodo DEF Typed, Beds
<1>2. PICK a \in Known : Describes(a) /\ Allowed(this, a)
  BY <1>1, HeadAllowed
<1>3. (a.running => bed.running = Hosts) /\ (a.loose => stopped)
  BY <1>2 DEF Describes, Fits
<1>4. "terminal" \in Routed
  BY DEF Routed
<1>5. CASE ComposeDown
  <2>1. bed'.route["terminal"] = "docker"
    BY <1>4, <1>5 DEF ComposeDown, Fresh
  <2> QED
    BY <2>1 DEF RoutedUnlessStopped, RoutedWhenRunning
<1>6. CASE StopSimulation
  <2>1. this.op = "stop" /\ ~ At("compose down")
    BY <1>6 DEF StopSimulation, Executes, At, this
  <2> QED
    BY <1>2, <1>3, <2>1 DEF Allowed, RoutedUnlessStopped
<1>7. CASE RouteAdd
  <2>1. /\ this.op = "route add" /\ ~ At("compose down") /\ this \in Orders
        /\ bed' = [bed EXCEPT !.route[this.at] = IF @ = "none" THEN "space" ELSE @]
    BY <1>1, <1>7, ThisOrder DEF RouteAdd, Executes, At, this
  <2>2. PICK c \in Orders : c = this
    BY <2>1
  <2>3. c.at \in Routed
    BY <2>1, <2>2, OrderCases
  <2>4. bed'.running = bed.running
    BY <1>1, <2>1 DEF Beds
  <2>5. CASE c.at = "terminal"
    <3>1. bed.running = Hosts \/ stopped
      BY <1>2, <1>3, <2>1, <2>2, <2>5 DEF Allowed
    <3> QED
      BY <2>1, <2>4, <3>1 DEF RoutedUnlessStopped, RoutedWhenRunning
  <2>6. CASE c.at # "terminal"
    <3>1. bed'.route["terminal"] = bed.route["terminal"]
      BY <1>1, <1>4, <2>1, <2>2, <2>6 DEF Beds
    <3> QED
      BY <2>1, <2>4, <3>1 DEF RoutedUnlessStopped, RoutedWhenRunning
  <2> QED
    BY <2>5, <2>6
<1>8. CASE RouteDelete
  <2>1. ~ At("compose down") /\ bed' = [bed EXCEPT !.route[this.at] = "none"]
    BY <1>8 DEF RouteDelete, Executes, At, this
  <2>2. PICK place : place = this.at
    OBVIOUS
  <2>3. bed'.running = bed.running /\ bed'.route = [bed.route EXCEPT ![place] = "none"]
    BY <1>1, <2>1, <2>2 DEF Beds
  <2>4. bed'.route["terminal"] \in {"none", bed.route["terminal"]}
    BY <1>1, <1>4, <2>3
  <2> QED
    BY <2>1, <2>3, <2>4 DEF RoutedUnlessStopped, RoutedWhenRunning
<1>9. CASE ~ (ComposeDown \/ StopSimulation \/ RouteAdd \/ RouteDelete)
  <2>1. bed'.running = bed.running /\ bed'.route = bed.route
    BY <1>1, <1>9 DEF Command, ComposeUp, AwaitHosts, AwaitAnswer, LoadScenario,
       StartSimulation, AwaitRunning, GuiRoute, SetLoss, ConfigureQpep, KillMain, LaunchQpep,
       LaunchPepsal, LaunchOpenVpn, AwaitVpn, LaunchApp, KillApp, Beds
  <2>2. ~ At("compose down")
    BY <1>9 DEF Command, ComposeDown, ComposeUp, AwaitHosts, AwaitAnswer, LoadScenario,
       StartSimulation, StopSimulation, AwaitRunning, RouteDelete, RouteAdd, GuiRoute, SetLoss,
       ConfigureQpep, KillMain, LaunchQpep, LaunchPepsal, LaunchOpenVpn, AwaitVpn, LaunchApp,
       KillApp, Executes, At
  <2> QED
    BY <2>1, <2>2 DEF RoutedUnlessStopped, RoutedWhenRunning
<1> QED
  BY <1>5, <1>6, <1>7, <1>8, <1>9

\* A component that runs goes on running.
LEMMA OutsideRouted ==
  ASSUME Typed, Outside, RoutedUnlessStopped, stopped => stopped'
  PROVE  RoutedUnlessStopped'
<1>1. bed \in Beds
  BY DEF Typed
<1>2. bed'.route = bed.route
  BY <1>1 DEF Outside, HostRegisters, HostRuns, BuildEnds, Beds
<1>3. bed.running = Hosts => bed'.running = Hosts
  <2>1. CASE HostRuns
    <3>1. PICK h \in bed.hosts \ bed.running : bed' = [bed EXCEPT !.running = @ \cup {h}]
      BY <2>1 DEF HostRuns
    <3>2. h \in Hosts /\ bed'.running = bed.running \cup {h}
      BY <1>1, <3>1 DEF Beds
    <3> QED
      BY <3>2
  <2>2. CASE ~ HostRuns
    BY <1>1, <2>2 DEF Outside, HostRegisters, BuildEnds, Beds
  <2> QED
    BY <2>1, <2>2
<1> QED
  BY <1>2, <1>3 DEF RoutedUnlessStopped, RoutedWhenRunning

\* No step routes the terminal over a network that does not run.
LEMMA NextRouted ==
  ASSUME Typed, Tracked, RoutedUnlessStopped, [TestbedNext]_allVars
  PROVE  RoutedUnlessStopped'
<1>1. CASE ByScript(Next)
  <2>1. stopped' = stopped
    BY <1>1 DEF ByScript, userVars
  <2>2. CASE Deploying
    BY <2>1, <2>2, CommandRouted DEF Deploying
  <2>3. CASE Happens
    BY <2>1, <2>3, OutsideRouted DEF Happens
  <2>4. CASE ~ Deploying /\ ~ Happens
    <3>1. bed' = bed
      BY <1>1, <2>4 DEF ByScript, Next, Working, FreshBench, Iperf, BrowseSite, Speedtest,
         RecordBatch, CheckLink, Raise, Finish, Dies, Kill, Restart, ConnectionLost
    <3> QED
      BY <2>1, <3>1 DEF RoutedUnlessStopped, RoutedWhenRunning
  <2> QED
    BY <2>2, <2>3, <2>4
<1>2. CASE ByUser /\ UserNext
  <2>1. CASE CallDeploy \/ CallOther \/ CallAttenuation \/ RestartSimulation
    <3>1. CASE CallDeploy \/ CallOther
      BY <3>1 DEF CallDeploy, CallOther, Calls, RoutedUnlessStopped, RoutedWhenRunning
    <3>2. CASE CallAttenuation \/ RestartSimulation
      BY <3>2 DEF CallAttenuation, RestartSimulation, RoutedUnlessStopped
    <3> QED
      BY <2>1, <3>1, <3>2
  <2>2. CASE Executing
    <3>1. stopped' = (stopped /\ ~ (At("compose down") /\ todo' # todo))
      BY <2>2 DEF Executing
    <3>2. CASE Command
      BY <3>1, <3>2, CommandRouted
    <3>3. CASE Outside
      <4>1. todo' = todo
        BY <3>3 DEF Outside, HostRegisters, HostRuns, BuildEnds
      <4> QED
        BY <3>1, <3>3, <4>1, OutsideRouted
    <3>4. CASE ConnectionLost
      <4>1. bed' = bed /\ ~ At("compose down")
        BY <3>4 DEF ConnectionLost, At
      <4> QED
        BY <3>1, <4>1 DEF RoutedUnlessStopped, RoutedWhenRunning
    <3> QED
      BY <2>2, <3>2, <3>3, <3>4 DEF Executing
  <2> QED
    BY <1>2, <2>1, <2>2 DEF UserNext
<1>3. CASE UNCHANGED allVars
  BY <1>3 DEF allVars, vars, testbedVars, userVars, RoutedUnlessStopped, RoutedWhenRunning
<1> QED
  BY <1>1, <1>2, <1>3 DEF TestbedNext

\* A batch is filed only where it was measured.
LEMMA NextLabelled ==
  ASSUME Typed, Tracked, Labelled, [TestbedNext]_allVars
  PROVE  Labelled'
<1>1. CASE RecordBatch
  <2>1. /\ todo # <<>> /\ this.op = "record"
        /\ results' = Append(results, [label |-> this.arg, batch |-> bench])
    BY <1>1 DEF RecordBatch, Executes, At, this
  <2>2. PICK a \in Known : Describes(a) /\ Allowed(this, a)
    BY <2>1, HeadAllowed
  <2>3. PICK label : label = this.arg
    OBVIOUS
  <2>4. \A j \in DOMAIN bench : bench[j].ok =>
          bench[j].setting = Promised(label.kind, label.orbit, label.level, label.plr)
    BY <2>1, <2>2, <2>3 DEF Describes, MetOnly, Allowed
  <2>5. PICK entry : entry = [label |-> label, batch |-> bench]
    OBVIOUS
  <2>6. entry.label = label /\ entry.batch = bench
    BY <2>5
  <2>7. this \in Orders /\ bench \in Seq(Samples) /\ results \in Seq(Batches)
    BY <2>1, ThisOrder DEF Typed, Batches
  <2>8. entry \in Batches /\ results' = Append(results, entry)
    BY <2>1, <2>3, <2>5, <2>7, OrderCases DEF Batches
  <2>9. /\ DOMAIN results = 1..Len(results) /\ Len(results) \in Nat
        /\ DOMAIN results' = 1..(Len(results) + 1)
        /\ \A i \in 1..Len(results) : results'[i] = results[i]
        /\ results'[Len(results) + 1] = entry
    BY <2>7, <2>8, AppendProperties, LenProperties
  <2>10. ASSUME NEW i \in DOMAIN results', NEW j \in DOMAIN results'[i].batch,
                results'[i].batch[j].ok
         PROVE  results'[i].batch[j].setting =
                  Promised(results'[i].label.kind, results'[i].label.orbit,
                           results'[i].label.level, results'[i].label.plr)
    <3>1. CASE i = Len(results) + 1
      BY <2>4, <2>6, <2>9, <2>10, <3>1
    <3>2. CASE i # Len(results) + 1
      <4>1. i \in DOMAIN results /\ results'[i] = results[i]
        BY <2>9, <3>2
      <4> QED
        BY <2>10, <4>1 DEF Labelled
    <3> QED
      BY <3>1, <3>2
  <2> QED
    BY <2>10 DEF Labelled
<1>2. CASE ~ RecordBatch
  <2>1. results' = results \/ results' = <<>>
    BY <1>2 DEF TestbedNext, ByScript, UserNext, scriptVars, allVars, vars, testbedVars, Next,
       Working, Deploying, FreshBench, Speedtest, Iperf, BrowseSite, CheckLink,
       Raise, Finish, Happens, Dies, Kill, Restart, Forgotten, benchVars
  <2> QED
    BY <2>1 DEF Labelled
<1> QED
  BY <1>1, <1>2

\* Every step keeps something true known.
LEMMA NextTracked ==
  ASSUME Typed, Tracked, OtherWords <= 1, [TestbedNext]_allVars
  PROVE  Tracked'
<1>1. CASE ByScript(Next)
  BY <1>1, ScriptTracked
<1>2. CASE ByUser /\ UserNext
  BY <1>2, UserTracked
<1>3. CASE UNCHANGED allVars
  BY <1>3 DEF allVars, vars, testbedVars, benchVars, userVars, Tracked, Describes, Fits, Matches,
     Settling, MetOnly, Goal
<1> QED
  BY <1>1, <1>2, <1>3 DEF TestbedNext

LEMMA LeadsToItself ==
  ASSUME NEW a, NEW b, Leads(<<>>, a, b)
  PROVE  a = b
BY StaysThere DEF Leads

\* A scenario with redirected traffic has a QPEP at both ends.
LEMMA PromisedPrograms ==
  ASSUME NEW kind, NEW orbit, NEW level \in Levels, Promised(kind, orbit, level, None).proxied # {}
  PROVE  \A c \in Proxied : Promised(kind, orbit, level, None).qpep[c] \in Programs
<1>1. kind \in {"QPEP", "QPEP Ack", "QPEP Congestion"}
  BY DEF Promised
<1>2. {<<>>, <<"decimation">>, <<"acks", level>>, <<"congestion", level>>} \subseteq Programs
  BY DEF Programs
<1>3. \A client, gateway \in Programs : \A c \in Proxied : Pair(client, gateway)[c] \in Programs
  BY DEF Pair
<1>4. PICK client \in Programs, gateway \in Programs :
        Promised(kind, orbit, level, None) = Net(orbit, None, Proxied, Pair(client, gateway), {}, "off")
  <2>1. CASE kind = "QPEP"
    <3>1. PICK x \in Programs, y \in Programs : x = <<>> /\ y = <<>>
      BY <1>2
    <3>2. Promised(kind, orbit, level, None) = Net(orbit, None, Proxied, Pair(<<>>, <<>>), {}, "off")
      BY <2>1, Promises
    <3> QED
      BY <3>1, <3>2
  <2>2. CASE kind = "QPEP Ack"
    <3>1. PICK x \in Programs, y \in Programs : x = <<"acks", level>> /\ y = <<"decimation">>
      BY <1>2
    <3>2. Promised(kind, orbit, level, None) = Net(orbit, None, Proxied, Pair(<<"acks", level>>, <<"decimation">>), {}, "off")
      BY <2>2, Promises
    <3> QED
      BY <3>1, <3>2
  <2>3. CASE kind = "QPEP Congestion"
    <3>1. PICK x \in Programs, y \in Programs : x = <<"congestion", level>> /\ y = <<"congestion", level>>
      BY <1>2
    <3>2. Promised(kind, orbit, level, None) = Net(orbit, None, Proxied, Pair(<<"congestion", level>>, <<"congestion", level>>), {}, "off")
      BY <2>3, Promises
    <3> QED
      BY <3>1, <3>2
  <2> QED
    BY <1>1, <2>1, <2>2, <2>3
<1>5. Promised(kind, orbit, level, None).qpep = Pair(client, gateway)
  BY <1>4 DEF Net
<1> QED
  BY <1>3, <1>5

\* With no command left, what is known is the goal of the call.
LEMMA TrackedIsClean ==
  ASSUME Typed, Tracked, Deployed, ~ last.up
  PROVE  Reaches /\ Setting = Promised(last.kind, last.orbit, last.level, None)
<1>1. PICK b \in Known : Describes(b) /\ Goal(b)
  <2>1. PICK a \in Known : \E b \in Known : Describes(a) /\ Leads(todo, a, b) /\ Goal(b)
    BY DEF Tracked
  <2>2. PICK b \in Known : Leads(todo, a, b) /\ Goal(b)
    BY <2>1
  <2>3. a = b
    BY <2>2, LeadsToItself DEF Deployed, Free
  <2> QED
    BY <2>1, <2>2, <2>3
<1>2. PICK net : net = Promised(last.kind, last.orbit, last.level, None)
  OBVIOUS
<1>3. /\ b.sure /\ b.running /\ b.net = net /\ b.route["terminal"] = "space"
      /\ b.route["ws-st"] = "space" /\ last.level \in Levels
  BY <1>1, <1>2 DEF Goal, Deployed, Free, On, Stage
<1>4. bed.running = Hosts /\ Matches(net, b.route) /\ net \in Settings /\ BedOK
  BY <1>1, <1>3 DEF Describes, Fits, Known, Typed, BedOK
<1>5. bed.tproxy # {} => \A c \in Proxied : bed.qpep[c] # None
  <2> SUFFICES ASSUME bed.tproxy # {}, NEW c \in Proxied PROVE bed.qpep[c] # None
    OBVIOUS
  <2>1. net.proxied # {}
    BY <1>4 DEF Matches
  <2>2. net.qpep[c] \in Programs
    BY <1>2, <1>3, <2>1, PromisedPrograms
  <2>3. bed.building[c] = <<>> /\ Settling(c, net.qpep[c])
    BY <1>4 DEF Deployed, Matches
  <2>4. bed.qpep[c] = net.qpep[c]
    BY <2>3 DEF Settling
  <2> QED
    BY <2>2, <2>4, TestbedAssumption
<1>7. Setting = net
  BY <1>4, <1>5, SettingKnown
<1>8. Reaches
  BY <1>3, <1>4, <1>5 DEF Reaches, Matches
<1> QED
  BY <1>2, <1>7, <1>8

(* As long as at most one RUNNING in a status is no component's, scripts   *)
(* and users can be followed: at each moment there is something known of   *)
(* the testbed, it is true, and every command to come is allowed on what   *)
(* is known by then.                                                       *)
THEOREM Followed ==
  ASSUME OtherWords <= 1
  PROVE  TestbedSpec => [](Typed /\ Tracked)
<1>1. TestbedInit => Typed /\ Tracked
  BY InitTyped, InitTracked
<1>2. Typed /\ Tracked /\ [TestbedNext]_allVars => (Typed /\ Tracked)'
  BY NextTyped, NextTracked
<1> QED
  BY <1>1, <1>2, PTL DEF TestbedSpec

(* The terminal is routed over the tunnel only while all components run,   *)
(* unless the simulation has been stopped: no interleaving of the script   *)
(* with hosts that come up, no lost connection and no new start of a       *)
(* script on what an earlier one has left takes the route away from under  *)
(* it (testbeds.py:50, 53).                                                *)
THEOREM RoutedOnlyRunning ==
  ASSUME OtherWords <= 1
  PROVE  TestbedSpec => []RoutedUnlessStopped
<1>1. TestbedInit => RoutedUnlessStopped
  BY DEF TestbedInit, ScriptInit, UserInit, Init, Fresh, Routed, RoutedUnlessStopped,
     RoutedWhenRunning
<1>2. Typed /\ Tracked /\ RoutedUnlessStopped /\ [TestbedNext]_allVars => RoutedUnlessStopped'
  BY NextRouted
<1> QED
  BY <1>1, <1>2, Followed, PTL DEF TestbedSpec

(* deploy_scenario without testbed_up leaves exactly the scenario that it  *)
(* names, whatever was called before; OpenVPN has been launched, which is  *)
(* all that the code sees to (scenarios.py:42 to 205).                     *)
THEOREM DeploysCleanly ==
  ASSUME OtherWords <= 1
  PROVE  TestbedSpec => []CleanSlate
<1>1. Typed /\ Tracked => CleanSlate
  BY TrackedIsClean DEF CleanSlate
<1> QED
  BY <1>1, Followed, PTL

(* What a script files under a label was measured on the network of that   *)
(* label, however often scripts are killed and started again on whatever   *)
(* is left (simulation_examples.py); OpenVPN had been launched then.       *)
THEOREM FiledRightly ==
  ASSUME OtherWords <= 1
  PROVE  TestbedSpec => []Labelled
<1>1. TestbedInit => Labelled
  BY DEF TestbedInit, ScriptInit, UserInit, Init, Labelled
<1>2. Typed /\ Tracked /\ Labelled /\ [TestbedNext]_allVars => Labelled'
  BY NextLabelled
<1> QED
  BY <1>1, <1>2, Followed, PTL DEF TestbedSpec

-----------------------------------------------------------------------------
(* Tallies: how many results the benchmark holds and how many batches the  *)
(* script has filed, while it files batches of w results only.             *)

Tallies == Nat \X Nat

Tallied(c, a) ==
  CASE c.op = "fresh" -> <<0, a[2]>>
    [] c.op = "iperf" -> <<a[1] + 1, a[2]>>
    [] c.op = "record" -> <<a[1], a[2] + 1>>
    [] OTHER -> a

Uncounted == {"browse", "speedtest", "raise"}

Counts(w) ==
  {x \in Orders \X Tallies \X Tallies :
     /\ x[1].op \notin Uncounted /\ (x[1].op = "record" => x[2][1] = w)
     /\ x[3] = Tallied(x[1], x[2])}

Tally(w, p, a, b) == Walks(Tallies, Counts(w), p, a, b)

\* Commands that neither measure nor file.
Neutral == {c \in Orders : c.op \notin Uncounted \cup {"fresh", "iperf", "record"}}

\* Commands that add n results, to those there or to none, and file nothing.
Measures(anew, p, n) ==
  /\ p \in Seq(Orders) /\ n \in Nat
  /\ \A w \in Nat, a \in Tallies :
       Tally(w, p, a, <<(IF anew THEN 0 ELSE a[1]) + n, a[2]>>)

\* Commands that file n batches of w results each.
Files(w, p, n) ==
  /\ p \in Seq(Orders) /\ w \in Nat /\ n \in Nat
  /\ \A a \in Tallies : \E k \in Nat : Tally(w, p, a, <<k, a[2] + n>>)

\* A command leaves a tally.
LEMMA TallyTyped ==
  ASSUME NEW c, NEW a \in Tallies
  PROVE  Tallied(c, a) \in Tallies
BY DEF Tallies, Tallied

\* A command that is counted, and files only what is full.
LEMMA TallyByOne ==
  ASSUME NEW w, NEW c \in Orders, c.op \notin Uncounted, NEW a \in Tallies,
         c.op = "record" => a[1] = w
  PROVE  Tally(w, <<c>>, a, Tallied(c, a))
<1>1. PICK e \in Tallies : e = Tallied(c, a)
  BY TallyTyped
<1>2. PICK x : x = <<c, a, e>>
  OBVIOUS
<1>3. x \in Orders \X Tallies \X Tallies /\ x[1] = c /\ x[2] = a /\ x[3] = e
  BY <1>2
<1>4. x \in Counts(w)
  BY <1>1, <1>3 DEF Counts
<1> QED
  BY <1>1, <1>2, <1>4, WalksByOne DEF Tally

\* The first command is counted, and the others go on from there.
LEMMA TallyOn ==
  ASSUME NEW w, NEW p \in Seq(Orders), p # <<>>, NEW a \in Tallies, NEW b, Tally(w, p, a, b)
  PROVE  /\ Head(p).op \notin Uncounted /\ (Head(p).op = "record" => a[1] = w)
         /\ Tally(w, Tail(p), Tallied(Head(p), a), b)
<1>1. PICK e \in Tallies : <<Head(p), a, e>> \in Counts(w) /\ Tally(w, Tail(p), e, b)
  BY WalksOn DEF Tally
<1>2. PICK x : x = <<Head(p), a, e>>
  OBVIOUS
<1>3. x[1] = Head(p) /\ x[2] = a /\ x[3] = e /\ x \in Counts(w)
  BY <1>1, <1>2
<1>4. /\ Head(p).op \notin Uncounted /\ (Head(p).op = "record" => a[1] = w)
      /\ e = Tallied(Head(p), a)
  BY <1>3 DEF Counts
<1> QED
  BY <1>1, <1>4

\* Commands behind one another add up.
LEMMA TallyFurther ==
  ASSUME NEW w, NEW p \in Seq(Orders), NEW q \in Seq(Orders), NEW a, NEW b, NEW c,
         Tally(w, p, a, b), Tally(w, q, b, c)
  PROVE  Tally(w, p \o q, a, c)
BY WalksFurther DEF Tally

-----------------------------------------------------------------------------
(* Measuring and filing, one after another.                                *)

\* What is measured behind one another is added.
LEMMA MeasuresThen ==
  ASSUME NEW anew \in BOOLEAN, NEW p, NEW q, NEW m, NEW n,
         Measures(anew, p, m), Measures(FALSE, q, n)
  PROVE  Measures(anew, p \o q, m + n)
<1>1. /\ p \in Seq(Orders) /\ q \in Seq(Orders) /\ m \in Nat /\ n \in Nat
  BY DEF Measures
<1>2. p \o q \in Seq(Orders)
  BY <1>1, ConcatProperties
<1>3. ASSUME NEW w \in Nat, NEW a \in Tallies
      PROVE  Tally(w, p \o q, a, <<(IF anew THEN 0 ELSE a[1]) + (m + n), a[2]>>)
  <2>1. PICK b : b = <<(IF anew THEN 0 ELSE a[1]) + m, a[2]>>
    OBVIOUS
  <2>2. a[1] \in Nat /\ a[2] \in Nat /\ b \in Tallies /\ b[1] = (IF anew THEN 0 ELSE a[1]) + m /\ b[2] = a[2]
    BY <1>1, <2>1 DEF Tallies
  <2>3. Tally(w, p, a, b)
    BY <2>1 DEF Measures
  <2>4. Tally(w, q, b, <<b[1] + n, b[2]>>)
    BY <2>2 DEF Measures
  <2>5. <<b[1] + n, b[2]>> = <<(IF anew THEN 0 ELSE a[1]) + (m + n), a[2]>>
    BY <1>1, <2>2
  <2> QED
    BY <1>1, <2>3, <2>4, <2>5, TallyFurther
<1> QED
  BY <1>1, <1>2, <1>3 DEF Measures

\* A new benchmark after commands that measure nothing that is kept.
LEMMA MeasuresAnew ==
  ASSUME NEW p, NEW m, Measures(FALSE, p, m), NEW q, NEW n, Measures(TRUE, q, n)
  PROVE  Measures(TRUE, p \o q, n)
<1>1. /\ p \in Seq(Orders) /\ q \in Seq(Orders) /\ m \in Nat /\ n \in Nat
  BY DEF Measures
<1>2. p \o q \in Seq(Orders)
  BY <1>1, ConcatProperties
<1>3. ASSUME NEW w \in Nat, NEW a \in Tallies
      PROVE  Tally(w, p \o q, a, <<0 + n, a[2]>>)
  <2>1. PICK b : b = <<a[1] + m, a[2]>>
    OBVIOUS
  <2>2. b \in Tallies /\ b[2] = a[2]
    BY <1>1, <2>1 DEF Tallies
  <2>3. Tally(w, p, a, b)
    BY <2>1 DEF Measures
  <2>4. Tally(w, q, b, <<0 + n, b[2]>>)
    BY <2>2 DEF Measures
  <2> QED
    BY <1>1, <2>2, <2>3, <2>4, TallyFurther
<1> QED
  BY <1>1, <1>2, <1>3 DEF Measures

\* The two commands that change the results.
LEMMA MeasuresOne ==
  ASSUME NEW c \in Orders, c.op \in {"iperf", "fresh"}
  PROVE  /\ c.op = "iperf" => Measures(FALSE, <<c>>, 1)
         /\ c.op = "fresh" => Measures(TRUE, <<c>>, 0)
<1>1. <<c>> \in Seq(Orders)
  OBVIOUS
<1>2. ASSUME NEW w \in Nat, NEW a \in Tallies
      PROVE  Tally(w, <<c>>, a, Tallied(c, a))
  BY TallyByOne DEF Uncounted
<1>3. CASE c.op = "iperf"
  BY <1>1, <1>2, <1>3 DEF Measures, Tallied
<1>4. CASE c.op = "fresh"
  BY <1>1, <1>2, <1>4 DEF Measures, Tallied
<1> QED
  BY <1>3, <1>4

\* What is neutral leaves the tally where it is.
LEMMA MeasuresNothing ==
  ASSUME NEW p \in Seq(Neutral)
  PROVE  Measures(FALSE, p, 0)
<1>1. PICK n \in Nat : n = Len(p)
  BY LenProperties
<1>2. \A i \in 1..n : p[i] \in Neutral
  BY <1>1, ElementOfSeq
<1>3. ASSUME NEW w \in Nat, NEW a \in Tallies
      PROVE  Tally(w, p, a, <<a[1] + 0, a[2]>>)
  <2> DEFINE t == [i \in 1..(n + 1) |-> a]
  <2>1. t \in Seq(Tallies) /\ Len(t) = n + 1 /\ \A i \in 1..(n + 1) : t[i] = a
    <3>1. t \in [1..(n + 1) -> Tallies]
      OBVIOUS
    <3> HIDE DEF t
    <3>2. t \in Seq(Tallies)
      BY <3>1, SeqDef
    <3>3. Len(t) = n + 1
      BY <3>1, <3>2, LenProperties
    <3> QED
      BY <3>2, <3>3 DEF t
  <2> HIDE DEF t
  <2>2. ASSUME NEW i \in 1..n PROVE <<p[i], t[i], t[i + 1]>> \in Counts(w)
    <3>1. t[i] = a /\ t[i + 1] = a
      BY <2>1
    <3>2. PICK x : x = <<p[i], a, a>>
      OBVIOUS
    <3>3. x \in Orders \X Tallies \X Tallies /\ x[1] = p[i] /\ x[2] = a /\ x[3] = a
      BY <1>2, <3>2 DEF Neutral
    <3>4. x \in Counts(w)
      BY <1>2, <3>3 DEF Counts, Neutral, Tallied
    <3> QED
      BY <3>1, <3>2, <3>4
  <2>3. Trace(Counts(w), p, a, a, t)
    BY <1>1, <2>1, <2>2 DEF Trace
  <2>4. <<a[1] + 0, a[2]>> = a
    BY DEF Tallies
  <2> QED
    BY <2>1, <2>3, <2>4 DEF Tally, Walks
<1>4. p \in Seq(Orders)
  BY <1>1, <1>2, SeqDef DEF Neutral
<1> QED
  BY <1>3, <1>4 DEF Measures

\* A batch of as many results as it should have.
LEMMA FilesOne ==
  ASSUME NEW w, NEW p, Measures(TRUE, p, w), NEW c \in Orders, c.op = "record"
  PROVE  Files(w, p \o <<c>>, 1)
<1>1. p \in Seq(Orders) /\ <<c>> \in Seq(Orders) /\ w \in Nat
  BY DEF Measures
<1>2. p \o <<c>> \in Seq(Orders)
  BY <1>1, ConcatProperties
<1>3. ASSUME NEW a \in Tallies PROVE Tally(w, p \o <<c>>, a, <<w, a[2] + 1>>)
  <2>1. PICK b : b = <<0 + w, a[2]>>
    OBVIOUS
  <2>2. b \in Tallies /\ b[1] = w /\ b[2] = a[2]
    BY <1>1, <2>1 DEF Tallies
  <2>3. Tally(w, p, a, b)
    BY <1>1, <2>1 DEF Measures
  <2>4. Tally(w, <<c>>, b, Tallied(c, b))
    BY <2>2, TallyByOne DEF Uncounted
  <2>5. Tallied(c, b) = <<w, a[2] + 1>>
    BY <2>2 DEF Tallied
  <2> QED
    BY <1>1, <2>3, <2>4, <2>5, TallyFurther
<1> QED
  BY <1>1, <1>2, <1>3 DEF Files

\* What is filed behind one another is added.
LEMMA FilesThen ==
  ASSUME NEW w, NEW p, NEW q, NEW m, NEW n, Files(w, p, m), Files(w, q, n)
  PROVE  Files(w, p \o q, m + n)
<1>1. /\ p \in Seq(Orders) /\ q \in Seq(Orders) /\ w \in Nat /\ m \in Nat /\ n \in Nat
  BY DEF Files
<1>2. p \o q \in Seq(Orders)
  BY <1>1, ConcatProperties
<1>3. ASSUME NEW a \in Tallies PROVE \E k \in Nat : Tally(w, p \o q, a, <<k, a[2] + (m + n)>>)
  <2>1. PICK j \in Nat : Tally(w, p, a, <<j, a[2] + m>>)
    BY DEF Files
  <2>2. PICK b : b = <<j, a[2] + m>>
    OBVIOUS
  <2>3. b \in Tallies /\ b[2] = a[2] + m /\ a[2] \in Nat
    BY <1>1, <2>2 DEF Tallies
  <2>4. PICK k \in Nat : Tally(w, q, b, <<k, b[2] + n>>)
    BY <2>3 DEF Files
  <2>5. <<k, b[2] + n>> = <<k, a[2] + (m + n)>>
    BY <1>1, <2>3
  <2> QED
    BY <1>1, <2>1, <2>2, <2>4, <2>5, TallyFurther
<1> QED
  BY <1>1, <1>2, <1>3 DEF Files

\* Commands that only measure file nothing.
LEMMA FilesNothing ==
  ASSUME NEW anew \in BOOLEAN, NEW p, NEW m, Measures(anew, p, m), NEW w \in Nat
  PROVE  Files(w, p, 0)
<1>1. p \in Seq(Orders) /\ m \in Nat
  BY DEF Measures
<1>2. ASSUME NEW a \in Tallies PROVE \E k \in Nat : Tally(w, p, a, <<k, a[2] + 0>>)
  <2>1. Tally(w, p, a, <<(IF anew THEN 0 ELSE a[1]) + m, a[2]>>)
    BY DEF Measures
  <2>2. a[1] \in Nat /\ a[2] \in Nat
    BY DEF Tallies
  <2>3. (IF anew THEN 0 ELSE a[1]) + m \in Nat /\ a[2] + 0 = a[2]
    BY <1>1, <2>2
  <2> QED
    BY <2>1, <2>3
<1> QED
  BY <1>1, <1>2 DEF Files

-----------------------------------------------------------------------------
(* Loops.                                                                  *)

\* A loop whose rounds all measure as much.
LEMMA MeasuresRounds ==
  ASSUME NEW n \in Nat, NEW k \in Nat, NEW rounds,
         DOMAIN rounds = 1..n, rounds = [i \in 1..n |-> rounds[i]],
         \A i \in 1..n : Measures(FALSE, rounds[i], k)
  PROVE  Measures(FALSE, FlattenSeq(rounds), n * k)
<1> DEFINE G == {x \in Seq(Orders) \X Nat : Measures(FALSE, x[1], x[2])}
<1>1. ASSUME NEW p, NEW m PROVE <<p, m>> \in G <=> Measures(FALSE, p, m)
  BY DEF Measures
<1>2. Measures(FALSE, <<>>, 0)
  BY MeasuresNothing, EmptySeq
<1>3. \A i \in 1..n : rounds[i] \in Seq(Orders)
  BY DEF Measures
<1>4. rounds \in Seq(Seq(Orders)) /\ Len(rounds) = n
  BY <1>3, SeqDef, LenProperties
<1> HIDE DEF G
<1>5. Additive(G)
  BY <1>1, <1>2, MeasuresThen DEF Additive
<1>6. <<FlattenSeq(rounds), n * k>> \in G
  BY <1>1, <1>4, <1>5, FlattenedSum
<1> QED
  BY <1>1, <1>6

\* A loop whose rounds all file as much.
LEMMA FilesRounds ==
  ASSUME NEW w \in Nat, NEW n \in Nat, NEW k \in Nat, NEW rounds,
         DOMAIN rounds = 1..n, rounds = [i \in 1..n |-> rounds[i]],
         \A i \in 1..n : Files(w, rounds[i], k)
  PROVE  Files(w, FlattenSeq(rounds), n * k)
<1> DEFINE G == {x \in Seq(Orders) \X Nat : Files(w, x[1], x[2])}
<1>1. ASSUME NEW p, NEW m PROVE <<p, m>> \in G <=> Files(w, p, m)
  BY DEF Files
<1>2. Files(w, <<>>, 0)
  <2>1. Measures(FALSE, <<>>, 0)
    BY MeasuresNothing, EmptySeq
  <2> QED
    BY <2>1, FilesNothing
<1>3. \A i \in 1..n : rounds[i] \in Seq(Orders)
  BY DEF Files
<1>4. rounds \in Seq(Seq(Orders)) /\ Len(rounds) = n
  BY <1>3, SeqDef, LenProperties
<1> HIDE DEF G
<1>5. Additive(G)
  BY <1>1, <1>2, FilesThen DEF Additive
<1>6. <<FlattenSeq(rounds), n * k>> \in G
  BY <1>1, <1>4, <1>5, FlattenedSum
<1> QED
  BY <1>1, <1>6

\* The same round several times.
LEMMA MeasuresTimes ==
  ASSUME NEW n \in Nat, NEW k, NEW body, Measures(FALSE, body, k)
  PROVE  Measures(FALSE, Times(n, body), n * k)
<1> DEFINE rounds == [i \in 1..n |-> body]
<1>1. DOMAIN rounds = 1..n /\ rounds = [i \in 1..n |-> rounds[i]] /\ \A i \in 1..n : rounds[i] = body
  OBVIOUS
<1>2. Times(n, body) = FlattenSeq(rounds)
  BY DEF Times
<1>3. k \in Nat
  BY DEF Measures
<1> HIDE DEF rounds
<1> QED
  BY <1>1, <1>2, <1>3, MeasuresRounds

\* The same batches several times.
LEMMA FilesTimes ==
  ASSUME NEW w, NEW n \in Nat, NEW k, NEW body, Files(w, body, k)
  PROVE  Files(w, Times(n, body), n * k)
<1> DEFINE rounds == [i \in 1..n |-> body]
<1>1. DOMAIN rounds = 1..n /\ rounds = [i \in 1..n |-> rounds[i]] /\ \A i \in 1..n : rounds[i] = body
  OBVIOUS
<1>2. Times(n, body) = FlattenSeq(rounds)
  BY DEF Times
<1>3. k \in Nat /\ w \in Nat
  BY DEF Files
<1> HIDE DEF rounds
<1> QED
  BY <1>1, <1>2, <1>3, FilesRounds

-----------------------------------------------------------------------------
(* The scripts, counted.                                                   *)

\* Commands of testbeds.py and scenarios.py measure and file nothing.
LEMMA NeutralCommands ==
  /\ \A op \in Plain \ {"fresh", "speedtest"} : Plainly(op) \in Neutral
  /\ Cmd("scenario", "", "delay") \in Neutral
  /\ \A c \in Routed : Cmd("route delete", c, "") \in Neutral /\ Cmd("route add", c, "") \in Neutral
  /\ \A c \in Lossy, plr \in Losses : Cmd("loss", c, plr) \in Neutral
  /\ \A c \in Proxied : Cmd("configure qpep", c, "") \in Neutral
  /\ \A c \in Proxied, x \in Programs : Cmd("go run", c, x) \in Neutral
  /\ \A c \in Lossy : Cmd("pepsal", c, "") \in Neutral
  /\ Cmd("openvpn", "ws-st", "") \in Neutral
  /\ \A x \in Apps : Cmd("app", "ws-gw", x) \in Neutral /\ Cmd("pkill app", "ws-gw", x) \in Neutral
  /\ \A plr \in Losses : Cmd("check link", "", plr) \in Neutral
<1>1. \A op, c, x : Cmd(op, c, x).op = op /\ Plainly(op).op = op
  BY DEF Cmd, Plainly
<1>2. ASSUME NEW op, NEW c, NEW x, Cmd(op, c, x) \in Orders,
             op \notin {"browse", "speedtest", "raise", "fresh", "iperf", "record"}
      PROVE  Cmd(op, c, x) \in Neutral
  BY <1>1, <1>2 DEF Neutral, Uncounted
<1>3. \A op \in Plain \ {"fresh", "speedtest"} : Plainly(op) \in Neutral
  <2>1. \A op \in Plain \ {"fresh", "speedtest"} :
          op \notin {"browse", "speedtest", "raise", "fresh", "iperf", "record"}
    BY DEF Plain
  <2> QED
    BY <1>2, <2>1, Ordered DEF Plainly
<1>4. /\ Cmd("scenario", "", "delay") \in Neutral
      /\ \A c \in Routed : Cmd("route delete", c, "") \in Neutral /\ Cmd("route add", c, "") \in Neutral
  BY <1>2, Ordered
<1>5. /\ \A c \in Lossy, plr \in Losses : Cmd("loss", c, plr) \in Neutral
      /\ \A c \in Proxied : Cmd("configure qpep", c, "") \in Neutral
      /\ \A c \in Proxied, x \in Programs : Cmd("go run", c, x) \in Neutral
  BY <1>2, Ordered
<1>6. /\ \A c \in Lossy : Cmd("pepsal", c, "") \in Neutral
      /\ Cmd("openvpn", "ws-st", "") \in Neutral
  BY <1>2, Ordered
<1>7. /\ \A x \in Apps : Cmd("app", "ws-gw", x) \in Neutral /\ Cmd("pkill app", "ws-gw", x) \in Neutral
      /\ \A plr \in Losses : Cmd("check link", "", plr) \in Neutral
  BY <1>2, Ordered
<1> QED
  BY <1>3, <1>4, <1>5, <1>6, <1>7

\* Short sequences.
LEMMA Listed ==
  ASSUME NEW S
  PROVE  /\ <<>> \in Seq(S) /\ \A c \in S : <<c>> \in Seq(S)
         /\ \A c, d \in S : <<c, d>> \in Seq(S)
         /\ \A c, d, e \in S : <<c, d, e>> \in Seq(S)
BY EmptySeq

\* start_testbed and the workstation's route.
LEMMA NeutralBase ==
  ASSUME NEW orbit
  PROVE  Base(orbit) \in Seq(Neutral)
<1>0. \A op \in {"compose down", "compose up", "await hosts", "start", "await running", "gui route"} :
        Plainly(op) \in Neutral
  <2>1. \A op \in {"compose down", "compose up", "await hosts", "start", "await running", "gui route"} :
          op \in Plain \ {"fresh", "speedtest"}
    BY DEF Plain
  <2> QED
    BY <2>1, NeutralCommands
<1>1. <<Plainly("compose down"), Plainly("compose up"), Plainly("await hosts")>> \in Seq(Neutral)
  BY <1>0, Listed
<1>2. (IF orbit = "LEO" THEN <<Cmd("scenario", "", "delay")>> ELSE <<>>) \in Seq(Neutral)
  BY NeutralCommands, Listed
<1>3. <<Plainly("start"), Plainly("await running")>> \in Seq(Neutral)
  BY <1>0, Listed
<1>4. Default("terminal") \in Seq(Neutral) /\ Default("ws-st") \in Seq(Neutral)
  BY NeutralCommands, Listed DEF Default, Routed
<1>5. <<Plainly("gui route")>> \in Seq(Neutral)
  BY <1>0, Listed
<1>6. start_testbed(orbit) \in Seq(Neutral)
  BY <1>1, <1>2, <1>3, <1>4, ConcatProperties DEF start_testbed
<1>7. connect_terminal_workstation \in Seq(Neutral)
  BY <1>4, <1>5, ConcatProperties DEF connect_terminal_workstation
<1> QED
  BY <1>6, <1>7, ConcatProperties DEF Base

\* deploy_scenario, whatever its kind.
LEMMA NeutralDeploy ==
  ASSUME NEW kind \in Kinds, NEW orbit, NEW level \in Levels
  PROVE  deploy_scenario(kind, FALSE, orbit, level) \in Seq(Neutral)
<1>1. BaseUnless(FALSE, orbit) \in Seq(Neutral)
  BY NeutralBase DEF BaseUnless
<1>2. Configured \in Seq(Neutral)
  BY NeutralCommands, Listed DEF Configured, Both, Proxied
<1>3. \A x, y \in Programs : Launched(x, y) \in Seq(Neutral)
  BY NeutralCommands, Listed DEF Launched, Proxied
<1>4. {<<>>, <<"decimation">>, <<"acks", level>>, <<"congestion", level>>} \subseteq Programs
  BY DEF Programs
<1>5. /\ <<Cmd("pepsal", "terminal", "")>> \in Seq(Neutral)
      /\ <<Cmd("pepsal", "gateway", "")>> \in Seq(Neutral)
      /\ <<Cmd("openvpn", "ws-st", ""), Plainly("await vpn")>> \in Seq(Neutral)
      /\ <<>> \in Seq(Neutral)
  <2>1. "await vpn" \in Plain \ {"fresh", "speedtest"} /\ {"terminal", "gateway"} = Lossy
    BY DEF Lossy, Plain
  <2> QED
    BY <2>1, NeutralCommands, Listed
<1>6. CASE kind = "Plain"
  BY <1>1, <1>6 DEF deploy_scenario, DeployPlain
<1>7. CASE kind = "OpenVPN"
  BY <1>1, <1>5, <1>7, ConcatProperties DEF deploy_scenario, DeployOpenVPN
<1>8. CASE kind \in {"PEPSal", "Distributed PEPsal"}
  BY <1>1, <1>5, <1>8, ConcatProperties DEF deploy_scenario, DeployPEPsal
<1>9. CASE kind = "QPEP"
  <2>1. Launched(<<>>, <<>>) \in Seq(Neutral)
    BY <1>3, <1>4
  <2>2. deploy_scenario(kind, FALSE, orbit, level) =
          ((BaseUnless(FALSE, orbit) \o Configured) \o <<>>) \o Launched(<<>>, <<>>)
    BY <1>9 DEF deploy_scenario, DeployQPEP
  <2>3. (BaseUnless(FALSE, orbit) \o Configured) \o <<>> \in Seq(Neutral)
    BY <1>1, <1>2, <1>5, ConcatProperties
  <2> QED
    BY <2>1, <2>2, <2>3, ConcatProperties
<1>10. CASE kind = "QPEP Ack"
  <2>1. Launched(<<"acks", level>>, <<"decimation">>) \in Seq(Neutral)
    BY <1>3, <1>4
  <2>2. deploy_scenario(kind, FALSE, orbit, level) =
          (BaseUnless(FALSE, orbit) \o Configured) \o Launched(<<"acks", level>>, <<"decimation">>)
    BY <1>10 DEF deploy_scenario, DeployQPEPAck, KilledOrConfigured
  <2> QED
    BY <1>1, <1>2, <2>1, <2>2, ConcatProperties
<1>11. CASE kind = "QPEP Congestion"
  <2>1. Launched(<<"congestion", level>>, <<"congestion", level>>) \in Seq(Neutral)
    BY <1>3, <1>4
  <2>2. deploy_scenario(kind, FALSE, orbit, level) =
          (BaseUnless(FALSE, orbit) \o Configured)
            \o Launched(<<"congestion", level>>, <<"congestion", level>>)
    BY <1>11 DEF deploy_scenario, DeployQPEPCongestion, KilledOrConfigured
  <2> QED
    BY <1>1, <1>2, <2>1, <2>2, ConcatProperties
<1> QED
  BY <1>6, <1>7, <1>8, <1>9, <1>10, <1>11 DEF Kinds

\* deploy_scenario and set_plr_percentage measure nothing.
LEMMA SetsUpOnly ==
  ASSUME NEW s \in Scripts, NEW level \in Levels, NEW plr \in Losses
  PROVE  Measures(FALSE, Deploy(s, level), 0) /\ Measures(FALSE, Loss(plr), 0)
<1>1. s[2] \in Kinds
  BY ThereIsTyped, PlainRates
<1>2. Deploy(s, level) \in Seq(Neutral)
  BY <1>1, NeutralDeploy DEF Deploy
<1>3. Loss(plr) \in Seq(Neutral)
  <2>1. <<Cmd("loss", "gateway", plr)>> \in Seq(Neutral) /\ <<>> \in Seq(Neutral)
    BY NeutralCommands, Listed DEF Lossy
  <2>2. Loss(plr) = <<>> \o <<Cmd("loss", "gateway", plr)>>
    BY DEF Loss, set_plr_percentage
  <2> QED
    BY <2>1, <2>2, ConcatProperties
<1> QED
  BY <1>2, <1>3, MeasuresNothing

\* IperfBenchmark.run yields one result per size and iteration.
LEMMA IperfMeasures ==
  ASSUME NEW n \in Nat
  PROVE  Measures(FALSE, IperfRun(n), Len(Sizes) * n)
<1> DEFINE rounds == [i \in DOMAIN Sizes |-> run_iperf_test(Sizes[i])]
<1>1. PICK k \in Nat : k = Len(Sizes) /\ DOMAIN Sizes = 1..k
  BY ExperimentsAssumption, LenProperties
<1>2. \A i \in 1..k : Sizes[i] \in STRING
  BY <1>1, ExperimentsAssumption, ElementOfSeq
<1>3. \A size \in STRING : Measures(FALSE, run_iperf_test(size), 1)
  <2> TAKE size \in STRING
  <2> DEFINE c == Cmd("pkill app", "ws-gw", "iperf3")
             d == Cmd("app", "ws-gw", "iperf3")
             e == Cmd("iperf", "ws-st", size)
  <2>1. /\ c \in Neutral /\ d \in Neutral /\ e \in Orders /\ e.op = "iperf"
    BY NeutralCommands, Ordered DEF Apps, Cmd
  <2>2. run_iperf_test(size) = <<c, d, e>>
    BY DEF run_iperf_test
  <2> HIDE DEF c, d, e
  <2>3. Measures(FALSE, <<c, d>>, 0)
    BY <2>1, Listed, MeasuresNothing
  <2>4. Measures(FALSE, <<e>>, 1)
    BY <2>1, MeasuresOne
  <2>5. Measures(FALSE, <<c, d>> \o <<e>>, 0 + 1)
    BY <2>3, <2>4, MeasuresThen
  <2>6. <<c, d>> \o <<e>> = <<c, d, e>>
    <3>1. c \in Orders /\ d \in Orders /\ e \in Orders
      BY <2>1 DEF Neutral
    <3> QED
      BY <3>1, Joins
  <2>7. 0 + 1 = 1
    OBVIOUS
  <2> QED
    BY <2>2, <2>5, <2>6, <2>7
<1>4. DOMAIN rounds = 1..k /\ rounds = [i \in 1..k |-> rounds[i]]
  BY <1>1
<1>5. \A i \in 1..k : Measures(FALSE, rounds[i], 1)
  BY <1>1, <1>2, <1>3
<1>6. IperfRun(n) = Times(n, FlattenSeq(rounds))
  BY DEF IperfRun, Each
<1> HIDE DEF rounds
<1>7. Measures(FALSE, FlattenSeq(rounds), k * 1)
  BY <1>4, <1>5, MeasuresRounds
<1>8. Measures(FALSE, IperfRun(n), n * (k * 1))
  BY <1>6, <1>7, MeasuresTimes
<1>9. n * (k * 1) = Len(Sizes) * n
  BY <1>1
<1> QED
  BY <1>8, <1>9

\* A new benchmark, what it measures, and the batch filed.
LEMMA FilesBatch ==
  ASSUME NEW s \in Scripts, NEW level \in Levels, NEW plr \in Rates,
         NEW w, NEW p, Measures(TRUE, p, w)
  PROVE  Files(w, p \o Record(s, level, plr), 1)
<1> DEFINE c == Cmd("record", "", Label(s, level, plr))
<1>1. Label(s, level, plr) \in Labels
  BY ThereIsTyped
<1>2. c \in Orders /\ c.op = "record"
  BY <1>1, Ordered DEF Cmd
<1>3. p \o Record(s, level, plr) = p \o <<c>>
  BY DEF Record
<1> HIDE DEF c
<1> QED
  BY <1>2, <1>3, FilesOne

\* A copy of the benchmarks has no results.
LEMMA FreshMeasures == Measures(TRUE, <<Plainly("fresh")>>, 0)
<1> DEFINE c == Plainly("fresh")
<1>1. c \in Orders /\ c.op = "fresh"
  BY Ordered DEF Plainly, Cmd, Plain
<1> HIDE DEF c
<1>2. Measures(TRUE, <<c>>, 0)
  BY <1>1, MeasuresOne
<1> QED
  BY <1>2 DEF c

\* run_benchmarks on the deployed testbed, and with a deployment of its own.
LEMMA RunMeasures ==
  ASSUME NEW s \in Scripts, NEW deployed \in BOOLEAN, NEW run, NEW n, Measures(FALSE, run, n)
  PROVE  Measures(FALSE, run_benchmarks(s, deployed, run), n)
<1>1. n \in Nat /\ 0 \in Levels /\ 0 + n = n
  BY PlainRates DEF Measures
<1>2. Measures(FALSE, IF deployed THEN <<>> ELSE Deploy(s, 0), 0)
  <2>1. Measures(FALSE, <<>>, 0)
    BY Listed, MeasuresNothing
  <2>2. s[2] \in Kinds
    BY ThereIsTyped, PlainRates
  <2>3. Measures(FALSE, Deploy(s, 0), 0)
    BY <1>1, <2>2, NeutralDeploy, MeasuresNothing DEF Deploy
  <2> QED
    BY <2>1, <2>3
<1>3. Measures(FALSE, (IF deployed THEN <<>> ELSE Deploy(s, 0)) \o run, 0 + n)
  BY <1>2, MeasuresThen
<1> QED
  BY <1>1, <1>3 DEF run_benchmarks

-----------------------------------------------------------------------------
(* What the scripts should file.                                           *)

IperfScripts == {"ack bundling", "iperf", "plr"}

Width(s) == Len(Sizes) * (IF s[1] = "plr" THEN 1 ELSE Iterations)

Due(s) ==
  CASE s[1] = "ack bundling" -> Len(AckLevels) * Len(Plrs)
    [] s[1] = "iperf" -> 1
    [] s[1] = "plr" -> Len(Plrs) * MetaIterations * Iterations

\* iperf_test_scenario files one batch.
LEMMA CountsIperfTest ==
  ASSUME NEW s \in Scripts
  PROVE  Files(Len(Sizes) * Iterations, iperf_test_scenario(s), 1)
<1> DEFINE fresh == <<Plainly("fresh")>>
           run == run_benchmarks(s, FALSE, IperfRun(Iterations))
           w == Len(Sizes) * Iterations
<1>0. Iterations \in Nat /\ 0 \in Levels /\ None \in Rates /\ w \in Nat /\ 0 + w = w
  BY ExperimentsAssumption, LenProperties, PlainRates
<1>1. Measures(TRUE, fresh, 0)
  BY FreshMeasures
<1>2. Measures(FALSE, run, w)
  BY <1>0, IperfMeasures, RunMeasures
<1>3. iperf_test_scenario(s) = (fresh \o run) \o Record(s, 0, None)
  BY DEF iperf_test_scenario
<1> HIDE DEF fresh, run, w
<1>4. Measures(TRUE, fresh \o run, 0 + w)
  BY <1>1, <1>2, MeasuresThen
<1>5. Files(w, (fresh \o run) \o Record(s, 0, None), 1)
  BY <1>0, <1>4, FilesBatch
<1> QED
  BY <1>3, <1>5 DEF w

\* ack_bundling_iperf_scenario files one for each level and loss.
LEMMA CountsAckBundling ==
  ASSUME NEW s \in Scripts
  PROVE  Files(Len(Sizes) * Iterations, ack_bundling_iperf_scenario(s), Len(AckLevels) * Len(Plrs))
<1> DEFINE fresh == <<Plainly("fresh")>>
           run == run_benchmarks(s, TRUE, IperfRun(Iterations))
           w == Len(Sizes) * Iterations
<1>0. Iterations \in Nat /\ w \in Nat /\ 0 + w = w
  BY ExperimentsAssumption, LenProperties
<1>a. \A n \in Nat : 0 + n * 1 = n
  OBVIOUS
<1> DEFINE AtPlr(level, plr) == Loss(plr) \o fresh \o run \o Record(s, level, plr)
           Inner(level) == [i \in DOMAIN Plrs |-> AtPlr(level, Plrs[i])]
           AtLevel(level) == Deploy(s, level) \o FlattenSeq(Inner(level))
           outer == [i \in DOMAIN AckLevels |-> AtLevel(AckLevels[i])]
<1>1. ack_bundling_iperf_scenario(s) = FlattenSeq(outer)
  BY DEF ack_bundling_iperf_scenario, Each
<1>2. PICK k \in Nat : k = Len(Plrs) /\ DOMAIN Plrs = 1..k
  BY ExperimentsAssumption, LenProperties
<1>3. \A i \in 1..k : Plrs[i] \in Losses
  BY <1>2, ExperimentsAssumption, ElementOfSeq
<1>4. PICK m \in Nat : m = Len(AckLevels) /\ DOMAIN AckLevels = 1..m
  BY ExperimentsAssumption, LenProperties
<1>5. \A i \in 1..m : AckLevels[i] \in Levels
  BY <1>4, ExperimentsAssumption, ElementOfSeq
<1>6. Measures(TRUE, fresh, 0)
  BY FreshMeasures
<1>7. Measures(FALSE, run, w)
  BY <1>0, IperfMeasures, RunMeasures
<1> HIDE DEF fresh, run, w
<1>8. ASSUME NEW level \in Levels, NEW plr \in Losses PROVE Files(w, AtPlr(level, plr), 1)
  <2>1. Measures(FALSE, Loss(plr), 0) /\ plr \in Rates
    BY SetsUpOnly, PlainRates
  <2>2. Measures(TRUE, Loss(plr) \o fresh, 0)
    BY <1>6, <2>1, MeasuresAnew
  <2>3. Measures(TRUE, (Loss(plr) \o fresh) \o run, 0 + w)
    BY <1>7, <2>2, MeasuresThen
  <2> QED
    BY <1>0, <2>1, <2>3, FilesBatch
<1>9. ASSUME NEW level \in Levels PROVE Files(w, AtLevel(level), k)
  <2> DEFINE inner == Inner(level)
  <2>1. \A i \in 1..k : inner[i] = AtPlr(level, Plrs[i])
    BY <1>2
  <2>2. DOMAIN inner = 1..k /\ inner = [i \in 1..k |-> inner[i]]
    BY <1>2
  <2> HIDE DEF inner, AtPlr
  <2>3. \A i \in 1..k : Files(w, inner[i], 1)
    BY <1>3, <1>8, <2>1
  <2>7. Files(w, FlattenSeq(inner), k * 1)
    BY <1>0, <1>2, <2>2, <2>3, FilesRounds
  <2>4. Files(w, Deploy(s, level), 0)
    <3>1. s[2] \in Kinds
      BY ThereIsTyped, PlainRates
    <3>2. Measures(FALSE, Deploy(s, level), 0)
      BY <3>1, NeutralDeploy, MeasuresNothing DEF Deploy
    <3> QED
      BY <1>0, <3>2, FilesNothing
  <2>5. Files(w, Deploy(s, level) \o FlattenSeq(inner), 0 + k * 1)
    BY <2>7, <2>4, FilesThen
  <2>6. 0 + k * 1 = k
    BY <1>a, <1>2
  <2> QED
    BY <2>5, <2>6 DEF inner
<1>10. \A i \in 1..m : outer[i] = AtLevel(AckLevels[i])
  BY <1>4
<1>11. DOMAIN outer = 1..m /\ outer = [i \in 1..m |-> outer[i]]
  BY <1>4
<1> HIDE DEF AtLevel, Inner, AtPlr, outer
<1>12. \A i \in 1..m : Files(w, outer[i], k)
  BY <1>5, <1>9, <1>10
<1>13. Files(w, FlattenSeq(outer), m * k)
  BY <1>0, <1>2, <1>4, <1>11, <1>12, FilesRounds
<1> QED
  BY <1>1, <1>2, <1>4, <1>13 DEF w

\* plr_test_scenario files one for each loss, round and iteration.
LEMMA CountsPlrTest ==
  ASSUME NEW s \in Scripts
  PROVE  Files(Len(Sizes), plr_test_scenario(s), Len(Plrs) * MetaIterations * Iterations)
<1> DEFINE fresh == <<Plainly("fresh")>>
           run == run_benchmarks(s, TRUE, IperfRun(1))
           w == Len(Sizes)
           Run(plr) == fresh \o run \o Record(s, 0, plr) \o <<Cmd("check link", "", plr)>>
           Batch(plr) == Deploy(s, 0) \o Loss(plr) \o Times(Iterations, Run(plr))
           outer == [i \in DOMAIN Plrs |-> Times(MetaIterations, Batch(Plrs[i]))]
<1>0. /\ Iterations \in Nat /\ MetaIterations \in Nat /\ w \in Nat /\ w * 1 = w /\ 0 + w = w
      /\ 0 \in Levels
  BY ExperimentsAssumption, LenProperties, PlainRates
<1>1. plr_test_scenario(s) = FlattenSeq(outer)
  BY DEF plr_test_scenario, Each
<1>2. PICK k \in Nat : k = Len(Plrs) /\ DOMAIN Plrs = 1..k
  BY ExperimentsAssumption, LenProperties
<1>3. \A i \in 1..k : Plrs[i] \in Losses
  BY <1>2, ExperimentsAssumption, ElementOfSeq
<1>4. Measures(TRUE, fresh, 0)
  BY FreshMeasures
<1>5. Measures(FALSE, run, w)
  <2>1. Measures(FALSE, IperfRun(1), w)
    BY <1>0, IperfMeasures
  <2> QED
    BY <2>1, RunMeasures
<1> HIDE DEF fresh, run, w
<1>6. ASSUME NEW plr \in Losses PROVE Files(w, Run(plr), 1)
  <2> DEFINE check == <<Cmd("check link", "", plr)>>
  <2>1. plr \in Rates
    BY PlainRates
  <2>2. Files(w, check, 0)
    <3>1. check \in Seq(Neutral)
      BY NeutralCommands, Listed
    <3> QED
      BY <1>0, <3>1, MeasuresNothing, FilesNothing
  <2> HIDE DEF check
  <2>3. Measures(TRUE, fresh \o run, 0 + w)
    BY <1>4, <1>5, MeasuresThen
  <2>4. Files(w, (fresh \o run) \o Record(s, 0, plr), 1)
    BY <1>0, <2>1, <2>3, FilesBatch
  <2>5. Files(w, ((fresh \o run) \o Record(s, 0, plr)) \o check, 1 + 0)
    BY <2>2, <2>4, FilesThen
  <2>6. 1 + 0 = 1
    OBVIOUS
  <2> QED
    BY <2>5, <2>6 DEF check
<1> HIDE DEF Run
<1>7. ASSUME NEW plr \in Losses PROVE Files(w, Batch(plr), Iterations)
  <2>1. Measures(FALSE, Deploy(s, 0), 0) /\ Measures(FALSE, Loss(plr), 0)
    BY <1>0, SetsUpOnly
  <2>2. Files(w, Deploy(s, 0), 0) /\ Files(w, Loss(plr), 0)
    BY <1>0, <2>1, FilesNothing
  <2>3. Files(w, Times(Iterations, Run(plr)), Iterations * 1)
    BY <1>0, <1>6, FilesTimes
  <2>4. Files(w, Deploy(s, 0) \o Loss(plr), 0 + 0)
    BY <2>2, FilesThen
  <2>5. Files(w, (Deploy(s, 0) \o Loss(plr)) \o Times(Iterations, Run(plr)), 0 + 0 + Iterations * 1)
    BY <2>3, <2>4, FilesThen
  <2>6. 0 + 0 + Iterations * 1 = Iterations
    BY <1>0
  <2> QED
    BY <2>5, <2>6
<1>8. \A i \in 1..k : outer[i] = Times(MetaIterations, Batch(Plrs[i]))
  BY <1>2
<1>9. DOMAIN outer = 1..k /\ outer = [i \in 1..k |-> outer[i]]
  BY <1>2
<1> HIDE DEF Batch, outer
<1>10. \A i \in 1..k : Files(w, outer[i], MetaIterations * Iterations)
  BY <1>0, <1>3, <1>7, <1>8, FilesTimes
<1>11. MetaIterations * Iterations \in Nat
  BY <1>0
<1>12. Files(w, FlattenSeq(outer), k * (MetaIterations * Iterations))
  BY <1>0, <1>9, <1>10, <1>11, FilesRounds
<1>13. k * (MetaIterations * Iterations) = Len(Plrs) * MetaIterations * Iterations
  BY <1>0, <1>2
<1> QED
  BY <1>1, <1>12, <1>13 DEF w

\* From its start, an iperf script has just that before it.
LEMMA Counted ==
  ASSUME NEW s \in Scripts, s[1] \in IperfScripts
  PROVE  Files(Width(s), Program[s], Due(s))
<1>1. Program[s] = Commands(s)
  BY DEF Program
<1>2. CASE s[1] = "ack bundling"
  <2>1. Width(s) = Len(Sizes) * Iterations /\ Due(s) = Len(AckLevels) * Len(Plrs)
    BY <1>2 DEF Width, Due
  <2>2. Program[s] = ack_bundling_iperf_scenario(s)
    BY <1>1, <1>2 DEF Commands
  <2> QED
    BY <2>1, <2>2, CountsAckBundling
<1>3. CASE s[1] = "iperf"
  <2>1. Width(s) = Len(Sizes) * Iterations /\ Due(s) = 1
    BY <1>3 DEF Width, Due
  <2> QED
    BY <1>1, <1>3, <2>1, CountsIperfTest DEF Commands
<1>4. CASE s[1] = "plr"
  <2>1. Width(s) = Len(Sizes) /\ Due(s) = Len(Plrs) * MetaIterations * Iterations
    BY <1>4, ExperimentsAssumption, LenProperties DEF Width, Due
  <2> QED
    BY <1>1, <1>4, <2>1, CountsPlrTest DEF Commands
<1> QED
  BY <1>2, <1>3, <1>4 DEF IperfScripts

-----------------------------------------------------------------------------
(* An iperf script has all of its batches behind or before it.             *)

\* From what is there, the commands to come lead to the batches that are due.
OnCourse ==
  \E w \in Nat : \E a, b \in Tallies :
    /\ w = Width(script) /\ a = <<Len(bench), Len(results)>> /\ b[2] = Due(script)
    /\ Tally(w, todo, a, b)

\* Each batch has one result per transfer.
Even == \A i \in DOMAIN results : Len(results[i].batch) = Width(script)

Counting ==
  /\ ByUser => script = <<"none">>
  /\ script[1] \in IperfScripts =>
       /\ Even /\ (outcome = "running" => OnCourse)
       /\ outcome = "finished" => Len(results) = Due(script)

\* Who has all batches behind is complete.
LEMMA CountingIsComplete ==
  ASSUME Counting
  PROVE  Complete
<1> SUFFICES ASSUME outcome = "finished", script[1] \in {"ack bundling", "iperf", "plr"}
             PROVE  /\ Len(results) =
                         CASE script[1] = "ack bundling" -> Len(AckLevels) * Len(Plrs)
                           [] script[1] = "iperf" -> 1
                           [] script[1] = "plr" -> Len(Plrs) * MetaIterations * Iterations
                    /\ \A i \in DOMAIN results :
                         Len(results[i].batch) =
                           Len(Sizes) * (IF script[1] = "plr" THEN 1 ELSE Iterations)
  BY DEF Complete
<1>1. Even /\ Len(results) = Due(script)
  BY DEF Counting, IperfScripts
<1> QED
  BY <1>1 DEF Even, Due, Width

\* Where the commands to come lead, after a step.
LEMMA OnCourseThen ==
  ASSUME NEW w \in Nat, NEW a \in Tallies, NEW b \in Tallies,
         w = Width(script)', b[2] = Due(script)', a = <<Len(bench'), Len(results')>>,
         Tally(w, todo', a, b)
  PROVE  OnCourse'
BY DEF OnCourse, Tally, Walks, Trace

\* Nothing is executed.
LEMMA WaitsOnCourse ==
  ASSUME UNCHANGED <<todo, bench, results, script>>
  PROVE  (Even => Even') /\ (OnCourse => OnCourse')
<1>1. Even => Even'
  BY DEF Even, Width
<1>2. ASSUME OnCourse PROVE OnCourse'
  <2>1. PICK w \in Nat : \E a, b \in Tallies :
          /\ w = Width(script) /\ a = <<Len(bench), Len(results)>> /\ b[2] = Due(script)
          /\ Tally(w, todo, a, b)
    BY <1>2 DEF OnCourse
  <2>2. PICK a \in Tallies, b \in Tallies :
          /\ w = Width(script) /\ a = <<Len(bench), Len(results)>> /\ b[2] = Due(script)
          /\ Tally(w, todo, a, b)
    BY <2>1
  <2>3. Tally(w, todo', a, b) /\ a = <<Len(bench'), Len(results')>>
    BY <2>2
  <2>4. w = Width(script)' /\ b[2] = Due(script)'
    BY <2>2 DEF Width, Due
  <2> QED
    BY <2>3, <2>4, OnCourseThen
<1> QED
  BY <1>1, <1>2

\* A script begins, with nothing measured or filed.
LEMMA BeginsOnCourse ==
  ASSUME NEW s \in Scripts, s[1] \in IperfScripts, script' = s, todo' = Program[s],
         bench' = <<>>, results' = <<>>
  PROVE  Even' /\ OnCourse'
<1>1. PICK a : a = <<0, 0>>
  OBVIOUS
<1>2. a \in Tallies /\ a[1] = 0 /\ a[2] = 0
  BY <1>1 DEF Tallies
<1>3. Files(Width(s), Program[s], Due(s))
  BY Counted
<1>4. PICK w : w = Width(s)
  OBVIOUS
<1>5. PICK d : d = Due(s)
  OBVIOUS
<1>6. w \in Nat /\ d \in Nat
  BY <1>3, <1>4, <1>5 DEF Files
<1>7. PICK k \in Nat : Tally(w, Program[s], a, <<k, a[2] + d>>)
  BY <1>2, <1>3, <1>4, <1>5 DEF Files
<1>8. PICK b : b = <<k, a[2] + d>>
  OBVIOUS
<1>9. b \in Tallies /\ b[2] = d
  BY <1>2, <1>6, <1>8 DEF Tallies
<1>10. Tally(w, todo', a, b)
  BY <1>7, <1>8
<1>11. w = Width(script)' /\ d = Due(script)'
  BY <1>4, <1>5 DEF Width, Due
<1>12. a = <<Len(bench'), Len(results')>>
  BY <1>1, EmptySeq
<1>13. Even'
  BY EmptySeq DEF Even
<1>14. OnCourse'
  BY <1>2, <1>6, <1>9, <1>10, <1>11, <1>12, OnCourseThen
<1> QED
  BY <1>13, <1>14

\* What is executed measures and files as counted.
LEMMA CountsOne ==
  ASSUME Typed, Even, NEW w \in Nat, w = Width(script), NEW a \in Tallies,
         a = <<Len(bench), Len(results)>>, NEW b \in Tallies, Tally(w, todo, a, b),
         Deploying \/ FreshBench \/ Iperf \/ BrowseSite \/ Speedtest \/ RecordBatch
           \/ CheckLink \/ Raise
  PROVE  /\ Even' /\ outcome' = outcome
         /\ Tally(w, todo', <<Len(bench'), Len(results')>>, b)
<1>1. todo # <<>> /\ outcome = "running" /\ script' = script
  BY CommandTodo DEF Deploying, FreshBench, Iperf, BrowseSite, Speedtest, RecordBatch, CheckLink,
     Raise, Executes, At
<1>2. todo \in Seq(Orders) /\ this \in Orders /\ Tail(todo) \in Seq(Orders)
  BY <1>1, ThisOrder DEF Typed
<1>3. /\ this.op \notin Uncounted /\ (this.op = "record" => a[1] = w)
      /\ Tally(w, Tail(todo), Tallied(this, a), b)
  BY <1>1, <1>2, TallyOn DEF this
<1>4. Len(bench) \in Nat /\ Len(results) \in Nat /\ a[1] = Len(bench) /\ a[2] = Len(results)
  BY LenProperties DEF Typed
<1>5. PICK c : c = this
  OBVIOUS
<1>6. CASE Deploying
  <2>1. c.op \notin {"fresh", "iperf", "record"}
    BY <1>5, <1>6 DEF Deploying, Command, ComposeDown, ComposeUp, AwaitHosts, AwaitAnswer, LoadScenario,
       StartSimulation, StopSimulation, AwaitRunning, RouteDelete, RouteAdd, GuiRoute, SetLoss,
       ConfigureQpep, KillMain, LaunchQpep, LaunchPepsal, LaunchOpenVpn, AwaitVpn, LaunchApp,
       KillApp, Executes, At, this
  <2>2. todo' = Tail(todo) /\ outcome' = outcome /\ bench' = bench /\ results' = results
    BY <1>6, CommandTodo DEF Deploying, benchVars
  <2>3. Tallied(c, a) = a
    BY <2>1 DEF Tallied
  <2>4. Even'
    BY <1>1, <2>2 DEF Even, Width
  <2> QED
    BY <1>3, <1>5, <2>2, <2>3, <2>4
<1>7. CASE FreshBench
  <2>1. /\ c.op = "fresh" /\ todo' = Tail(todo) /\ outcome' = outcome
        /\ bench' = <<>> /\ results' = results
    BY <1>5, <1>7 DEF FreshBench, Executes, At, this
  <2>2. Tallied(c, a) = <<Len(bench'), Len(results')>>
    BY <1>4, <2>1, EmptySeq DEF Tallied
  <2>3. Even'
    BY <1>1, <2>1 DEF Even, Width
  <2> QED
    BY <1>3, <1>5, <2>1, <2>2, <2>3
<1>8. CASE Iperf
  <2>1. /\ c.op = "iperf" /\ todo' = Tail(todo) /\ outcome' = outcome /\ results' = results
        /\ \E x : bench' = Append(bench, x)
    BY <1>5, <1>8 DEF Iperf, Executes, At, this
  <2>2. Len(bench') = Len(bench) + 1
    <3>1. PICK x : bench' = Append(bench, x)
      BY <2>1
    <3>2. bench \in Seq(Samples \cup {x}) /\ x \in Samples \cup {x}
      BY ElementOfSeq, SeqDef DEF Typed
    <3> QED
      BY <3>1, <3>2, AppendProperties
  <2>3. Tallied(c, a) = <<Len(bench'), Len(results')>>
    BY <1>4, <2>1, <2>2 DEF Tallied
  <2>4. Even'
    BY <1>1, <2>1 DEF Even, Width
  <2> QED
    BY <1>3, <1>5, <2>1, <2>3, <2>4
<1>9. CASE RecordBatch
  <2>1. /\ c.op = "record" /\ todo' = Tail(todo) /\ outcome' = outcome /\ bench' = bench
        /\ results' = Append(results, [label |-> this.arg, batch |-> bench])
    BY <1>5, <1>9 DEF RecordBatch, Executes, At, this
  <2>2. Len(bench) = w
    BY <1>3, <1>4, <1>5, <2>1
  <2>3. PICK entry : entry = [label |-> this.arg, batch |-> bench]
    OBVIOUS
  <2>4. entry.batch = bench /\ entry.label = c.arg
    BY <1>5, <2>3
  <2>5. c.arg \in Labels
    BY <1>2, <1>5, <2>1, OrderCases
  <2>6. results \in Seq(Batches) /\ entry \in Batches /\ results' = Append(results, entry)
    BY <1>5, <2>1, <2>3, <2>5 DEF Typed, Batches
  <2>7. /\ Len(results') = Len(results) + 1 /\ DOMAIN results' = 1..(Len(results) + 1)
        /\ DOMAIN results = 1..Len(results)
        /\ \A i \in 1..Len(results) : results'[i] = results[i]
        /\ results'[Len(results) + 1] = entry
    BY <2>6, AppendProperties, LenProperties
  <2>8. \A i \in DOMAIN results' : Len(results'[i].batch) = w
    <3> TAKE i \in DOMAIN results'
    <3>1. CASE i = Len(results) + 1
      BY <2>2, <2>4, <2>7, <3>1
    <3>2. CASE i # Len(results) + 1
      <4>1. i \in DOMAIN results /\ results'[i] = results[i]
        BY <1>4, <2>7, <3>2
      <4> QED
        BY <4>1 DEF Even
    <3> QED
      BY <3>1, <3>2
  <2>9. Even'
    BY <1>1, <2>8 DEF Even, Width
  <2>10. Tallied(c, a) = <<Len(bench'), Len(results')>>
    BY <1>4, <2>1, <2>7 DEF Tallied
  <2> QED
    BY <1>3, <1>5, <2>1, <2>9, <2>10
<1>10. CASE CheckLink
  <2>1. /\ c.op = "check link" /\ outcome' = outcome /\ bench' = bench /\ results' = results
        /\ todo' = <<>> \o Tail(todo)
    BY <1>5, <1>10 DEF CheckLink, At, this, benchVars, EqualsZero
  <2>2. todo' = Tail(todo)
    BY <1>2, <2>1, ConcatEmptySeq
  <2>3. Tallied(c, a) = a
    BY <2>1 DEF Tallied
  <2>4. Even'
    BY <1>1, <2>1 DEF Even, Width
  <2> QED
    BY <1>3, <1>5, <2>1, <2>2, <2>3, <2>4
<1>11. CASE BrowseSite \/ Speedtest \/ Raise
  BY <1>3, <1>11 DEF BrowseSite, Speedtest, Raise, Executes, At, this, Uncounted
<1> QED
  BY <1>6, <1>7, <1>8, <1>9, <1>10, <1>11

\* Every step keeps the script on course, or ends it.
LEMMA NextCounting ==
  ASSUME Typed, Counting, [TestbedNext]_allVars
  PROVE  Counting'
<1>1. CASE UNCHANGED allVars
  <2>1. UNCHANGED <<todo, outcome, bench, results, script, starts>>
    BY <1>1 DEF allVars, vars, testbedVars
  <2>2. (Even => Even') /\ (OnCourse => OnCourse')
    BY <2>1, WaitsOnCourse
  <2>3. (ByUser => script = <<"none">>)'
    BY <2>1 DEF Counting, ByUser
  <2>4. Due(script)' = Due(script)
    BY <2>1 DEF Due
  <2> QED
    BY <2>1, <2>2, <2>3, <2>4 DEF Counting
<1>2. CASE ByUser /\ UserNext
  <2>1. script' = script /\ script = <<"none">>
    BY <1>2 DEF UserNext, scriptVars, Counting
  <2>2. script'[1] \notin IperfScripts
    BY <2>1 DEF IperfScripts
  <2> QED
    BY <2>1, <2>2 DEF Counting
<1>3. CASE ByScript(Next)
  <2>1. ~ ByUser'
    <3>1. starts \in Nat /\ starts # 0
      BY <1>3 DEF ByScript, ByUser, Typed
    <3>2. starts' = starts \/ starts' = starts + 1
      BY <1>3 DEF ByScript, Next, Working, Deploying, FreshBench, Iperf, BrowseSite, Speedtest,
         RecordBatch, CheckLink, Raise, Finish, Happens, Dies, Kill, Restart
    <3> QED
      BY <3>1, <3>2 DEF ByUser
  <2>2. SUFFICES ASSUME script'[1] \in IperfScripts
                 PROVE  /\ Even' /\ (outcome' = "running" => OnCourse')
                        /\ outcome' = "finished" => Len(results') = Due(script)'
    BY <2>1 DEF Counting
  <2>3. CASE Restart
    <3>1. script' \in Scripts /\ todo' = Program[script'] /\ outcome' = "running"
          /\ bench' = <<>> /\ results' = <<>>
      BY <2>3 DEF Restart, Forgotten
    <3>2. PICK s \in Scripts : s = script'
      BY <3>1
    <3> QED
      BY <2>2, <3>1, <3>2, BeginsOnCourse
  <2>4. CASE Dies \/ Kill
    <3>1. results' = <<>> /\ outcome' \in {"NetcatError", "killed"}
      BY <2>4 DEF Dies, Kill, ConnectionLost, Forgotten
    <3> QED
      BY <3>1, EmptySeq DEF Even
  <2>5. CASE Happens \/ Working
    <3>1. script' = script
      BY <2>5 DEF Happens, Working, Deploying, FreshBench, Iperf, BrowseSite, Speedtest, RecordBatch,
         CheckLink, Raise, Finish
    <3>2. Even /\ (outcome = "running" => OnCourse) /\ (outcome = "finished" => Len(results) = Due(script))
      BY <2>2, <3>1 DEF Counting
    <3>3. CASE Happens
      <4>1. UNCHANGED <<todo, outcome, bench, results>>
        BY <3>3 DEF Happens, benchVars, Outside, HostRegisters, HostRuns, BuildEnds
      <4> QED
        BY <3>1, <3>2, <4>1, WaitsOnCourse DEF Due
    <3>4. CASE Finish
      <4>1. outcome = "running" /\ todo = <<>> /\ outcome' = "finished" /\ results' = results
        BY <3>4 DEF Finish, benchVars
      <4>2. PICK w \in Nat : \E a, b \in Tallies :
              /\ a = <<Len(bench), Len(results)>> /\ b[2] = Due(script) /\ Tally(w, <<>>, a, b)
        BY <3>2, <4>1 DEF OnCourse
      <4>3. Len(results) = Due(script)
        BY <4>2, StaysThere DEF Tally
      <4> QED
        BY <3>1, <3>2, <4>1, <4>3 DEF Even, Width, Due
    <3>5. CASE Working /\ ~ Finish
      <4>1. Deploying \/ FreshBench \/ Iperf \/ BrowseSite \/ Speedtest \/ RecordBatch
              \/ CheckLink \/ Raise
        BY <3>5 DEF Working
      <4>2. outcome = "running"
        BY <4>1, CommandTodo DEF Deploying, FreshBench, Iperf, BrowseSite, Speedtest, RecordBatch,
           CheckLink, Raise, Executes, At
      <4>3. PICK w \in Nat : \E a, b \in Tallies :
              /\ w = Width(script) /\ a = <<Len(bench), Len(results)>> /\ b[2] = Due(script)
              /\ Tally(w, todo, a, b)
        BY <3>2, <4>2 DEF OnCourse
      <4>4. PICK a \in Tallies, b \in Tallies :
              /\ w = Width(script) /\ a = <<Len(bench), Len(results)>> /\ b[2] = Due(script)
              /\ Tally(w, todo, a, b)
        BY <4>3
      <4>5. /\ Even' /\ outcome' = outcome
            /\ Tally(w, todo', <<Len(bench'), Len(results')>>, b)
        BY <3>2, <4>1, <4>4, CountsOne
      <4>6. PICK e : e = <<Len(bench'), Len(results')>>
        OBVIOUS
      <4>7. e \in Tallies
        <5>1. Typed'
          BY NextTyped
        <5>2. Len(bench') \in Nat /\ Len(results') \in Nat
          BY <5>1, LenProperties DEF Typed
        <5> QED
          BY <4>6, <5>2 DEF Tallies
      <4>8. OnCourse'
        <5>1. w = Width(script)' /\ b[2] = Due(script)'
          BY <3>1, <4>4 DEF Width, Due
        <5> QED
          BY <4>5, <4>6, <4>7, <5>1, OnCourseThen
      <4> QED
        BY <4>2, <4>5, <4>8
    <3> QED
      BY <2>5, <3>3, <3>4, <3>5
  <2> QED
    BY <1>3, <2>3, <2>4, <2>5 DEF ByScript, Next
<1> QED
  BY <1>1, <1>2, <1>3 DEF TestbedNext

\* At the beginning all batches are to come.
LEMMA InitCounting == TestbedInit => Counting
<1>1. CASE ScriptInit
  <2>1. /\ script \in Scripts /\ todo = Program[script] /\ outcome = "running"
        /\ bench = <<>> /\ results = <<>> /\ starts = 1
    BY <1>1 DEF ScriptInit, Init
  <2>2. script[1] \in IperfScripts => Even /\ OnCourse
    <3> SUFFICES ASSUME script[1] \in IperfScripts PROVE Even /\ OnCourse
      OBVIOUS
    <3>1. Files(Width(script), todo, Due(script))
      BY <2>1, Counted
    <3>2. PICK a : a = <<0, 0>>
      OBVIOUS
    <3>3. a \in Tallies /\ a[2] = 0 /\ a = <<Len(bench), Len(results)>>
      BY <2>1, <3>2, EmptySeq DEF Tallies
    <3>4. PICK w \in Nat, d \in Nat : w = Width(script) /\ d = Due(script)
      BY <3>1 DEF Files
    <3>5. PICK k \in Nat : Tally(w, todo, a, <<k, a[2] + d>>)
      BY <3>1, <3>3, <3>4 DEF Files
    <3>6. PICK b : b = <<k, a[2] + d>>
      OBVIOUS
    <3>7. b \in Tallies /\ b[2] = d
      BY <3>3, <3>4, <3>6 DEF Tallies
    <3>8. OnCourse
      BY <3>3, <3>4, <3>5, <3>6, <3>7 DEF OnCourse
    <3> QED
      BY <2>1, <3>8, EmptySeq DEF Even
  <2> QED
    BY <2>1, <2>2 DEF Counting, ByUser
<1>2. CASE UserInit
  <2>1. script = <<"none">>
    BY <1>2 DEF UserInit
  <2>2. script[1] \notin IperfScripts
    BY <2>1 DEF IperfScripts
  <2> QED
    BY <2>1, <2>2 DEF Counting
<1> QED
  BY <1>1, <1>2 DEF TestbedInit

(* An iperf script that finishes has filed one batch per label and round,  *)
(* with one result per transfer and none of another batch, however many    *)
(* sizes, losses, levels and iterations there are and however often the    *)
(* script was killed and started again (simulation_examples.py:15 to 72,   *)
(* 154 to 196).                                                            *)
THEOREM AllFiled == TestbedSpec => []Complete
<1>1. TestbedInit => Typed /\ Counting
  BY InitTyped, InitCounting
<1>2. Typed /\ Counting /\ [TestbedNext]_allVars => (Typed /\ Counting)'
  BY NextTyped, NextCounting
<1>3. Typed /\ Counting => Complete
  BY CountingIsComplete
<1> QED
  BY <1>1, <1>2, <1>3, PTL DEF TestbedSpec
=============================================================================
