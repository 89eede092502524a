------------------------ MODULE SpeedtestSizesProofs ------------------------
(***************************************************************************)
(* Whatever ratio, maxchunkcount and block size: no body is longer than    *)
(* announced and none that was sent more than nine bytes shorter, and the  *)
(* counts of producer and consumer are those of the requests.              *)
(***************************************************************************)
EXTENDS SpeedtestSizes, SequenceTheorems, FiniteSetTheorems, WellFoundedInduction, TLAPS

USE SizesAssumption

-----------------------------------------------------------------------------
(* Rounding to a multiple of 36 moves a number by 18 at most.              *)
LEMMA RoundNear ==
  ASSUME NEW a \in Nat
  PROVE  /\ Round(a, 36) \in Int
         /\ a - 18 <= 36 * Round(a, 36) /\ 36 * Round(a, 36) <= a + 18
<1> DEFINE q == a \div 36
           r == a % 36
<1>1. q \in Int /\ r \in 0 .. 35 /\ a = 36 * q + r
  OBVIOUS
<1> HIDE DEF q, r
<1>2. CASE 2 * r < 36 \/ (2 * r = 36 /\ q % 2 = 0)
  <2>1. Round(a, 36) = q
    BY <1>2 DEF Round, q, r
  <2> QED
    BY <1>1, <1>2, <2>1
<1>3. CASE ~ (2 * r < 36 \/ (2 * r = 36 /\ q % 2 = 0))
  <2>1. Round(a, 36) = q + 1
    BY <1>3 DEF Round, q, r
  <2> QED
    BY <1>1, <1>3, <2>1
<1> QED
  BY <1>2, <1>3

(* A body of any size that has room for "content1=".                       *)
LEMMA BodyNear ==
  ASSUME NEW size \in Nat, size >= 27
  PROVE  Body(size) \in Nat /\ Body(size) <= size /\ size - 9 <= Body(size)
<1>1. /\ 36 * Round(size, 36) \in Int
      /\ size - 18 <= 36 * Round(size, 36)
  BY RoundNear
<1> QED
  BY <1>1 DEF Body

(* Every slice of the seven sizes holds sizes with room for a body.        *)
Sizes == {n \in Nat : n >= 27}

LEMMA SliceOfSizes ==
  ASSUME NEW i \in Int
  PROVE  From(up_sizes, i) \in Seq(Sizes)
<1>1. Len(up_sizes) = 7 /\ \A n \in 1 .. 7 : up_sizes[n] \in Sizes
  BY DEF up_sizes, Sizes
<1>2. PICK k \in 0 .. 7 : From(up_sizes, i) = SubSeq(up_sizes, k + 1, 7)
  <2> DEFINE j == IF i < 0 THEN 7 + i ELSE i
  <2>1. j \in Int
    OBVIOUS
  <2> HIDE DEF j
  <2>2. Clip(j, 0, 7) \in 0 .. 7
    BY <2>1 DEF Clip
  <2>3. From(up_sizes, i) = SubSeq(up_sizes, Clip(j, 0, 7) + 1, 7)
    BY <1>1 DEF From, j
  <2> QED
    BY <2>2, <2>3
<1>3. SubSeq(up_sizes, k + 1, 7) \in Seq(Sizes)
  <2>1. \A j \in k + 1 .. 7 : up_sizes[j] \in Sizes
    BY <1>1
  <2> QED
    BY <2>1, SubSeqProperties
<1> QED
  BY <1>2, <1>3

-----------------------------------------------------------------------------
(* What is read is at most the body, and once it is sent all of it.        *)
SizesInv ==
  /\ ratio \in Int
  /\ sizes \in Seq(Sizes)
  /\ phase = "send" => DOMAIN requests = DOMAIN sizes
  /\ length \in {0} \cup Sizes
  /\ total \in Nat
  /\ length = 0 => total = 0 /\ phase # "sent"
  /\ length # 0 => total <= Body(length)
  /\ phase = "sent" => total = Body(length)

LEMMA InitSizes == Init => SizesInv
BY DEF Init, SizesInv

LEMMA NextSizes ==
  ASSUME SizesInv, [Next]_vars
  PROVE  SizesInv'
<1> USE DEF SizesInv
<1>1. CASE GetConfig
  <2>1. From(up_sizes, ratio - 1) \in Seq(Sizes)
    BY SliceOfSizes
  <2>2. sizes' \in Seq(Sizes) /\ phase' \in {"ZeroDivisionError", "upload"}
    BY <1>1, <2>1 DEF GetConfig
  <2>3. UNCHANGED <<ratio, length, total>>
    BY <1>1 DEF GetConfig
  <2> QED
    BY <2>2, <2>3
<1>2. CASE BuildRequests
  BY <1>2 DEF BuildRequests
<1>3. CASE SendRequest
  <2>1. PICK i \in DOMAIN requests : length' = sizes[i]
    BY <1>3 DEF SendRequest
  <2>2. length' \in Sizes
    BY <1>3, <2>1 DEF SendRequest
  <2>3. total = 0 /\ UNCHANGED <<ratio, phase, sizes, requests, total>> /\ phase = "send"
    BY <1>3 DEF SendRequest
  <2>4. 0 <= Body(length')
    BY <2>2, BodyNear DEF Sizes
  <2> QED
    BY <2>2, <2>3, <2>4 DEF Sizes
<1>4. CASE Read
  <2> DEFINE chunk == Clip(Body(length) - total, 0, Block)
  <2>1. /\ phase = "send" /\ length > 0 /\ total' = total + chunk
        /\ phase' = IF chunk = 0 THEN "sent" ELSE phase
        /\ UNCHANGED <<ratio, sizes, requests, length>>
    BY <1>4 DEF Read
  <2>2. length \in Sizes /\ Body(length) \in Nat
    BY <2>1, BodyNear DEF Sizes
  <2>3. total <= Body(length) /\ total \in Nat
    BY <2>1
  <2>4. chunk \in Nat /\ chunk <= Body(length) - total
    BY <2>2, <2>3 DEF Clip
  <2>5. chunk = 0 => total = Body(length)
    BY <2>2, <2>3 DEF Clip
  <2> HIDE DEF chunk
  <2>6. total' \in Nat /\ total' <= Body(length)
    BY <2>1, <2>2, <2>3, <2>4
  <2>7. phase' = "sent" => total' = Body(length)
    BY <2>1, <2>2, <2>3, <2>5
  <2> QED
    BY <2>1, <2>2, <2>6, <2>7 DEF Sizes
<1>5. CASE ReadTimesOut
  BY <1>5 DEF ReadTimesOut
<1>6. CASE UNCHANGED vars
  BY <1>6 DEF vars
<1> QED
  BY <1>1, <1>2, <1>3, <1>4, <1>5, <1>6 DEF Next

(* For every configuration and block size, what HTTPUploaderData yields is *)
(* never longer than the announced Content-length, and once read to its    *)
(* end at most nine bytes shorter.                                         *)
THEOREM BodyFitsLength == Spec => []NeverMore
<1>1. SizesInv => NeverMore
  <2> SUFFICES ASSUME SizesInv PROVE NeverMore
    OBVIOUS
  <2>1. CASE length = 0
    BY <2>1 DEF SizesInv, NeverMore
  <2>2. CASE length # 0
    <3>1. length \in Nat /\ length >= 27 /\ total \in Nat /\ total <= Body(length)
      BY <2>2 DEF SizesInv, Sizes
    <3>2. Body(length) \in Nat /\ Body(length) <= length /\ length - 9 <= Body(length)
      BY <3>1, BodyNear
    <3>3. total <= length
      BY <3>1, <3>2
    <3> QED
      BY <3>2, <3>3 DEF SizesInv, NeverMore
  <2> QED
    BY <2>1, <2>2
<1>2. SizesInv /\ [Next]_vars => SizesInv'
  BY NextSizes
<1> QED
  BY <1>1, <1>2, InitSizes, PTL DEF Spec

-----------------------------------------------------------------------------
(* A fold over a function whose values are all equal.                      *)

\* A set of numbers that is not empty has a least one.
LEMMA NatLeast ==
  ASSUME NEW T \in SUBSET Nat, T # {}
  PROVE  \E n \in T : \A m \in T : n <= m
<1>1. IsWellFoundedOn(OpToRel(<, Nat), Nat)
  BY NatLessThanWellFounded
<1>2. PICK n \in T : \A m \in T : ~ (<<m, n>> \in OpToRel(<, Nat))
  BY <1>1, WFMin
<1>3. \A m \in T : ~ (m < n)
  BY <1>2 DEF OpToRel
<1> QED
  BY <1>3

\* The element that the fold takes next.
Some(s) == CHOOSE y \in s : TRUE

\* h sums up c over each subset of D.
Iter(D, c, h) == h = [s \in SUBSET D |-> IF s = {} THEN 0
                           ELSE c[Some(s)] + h[s \ {Some(s)}]]

\* FoldFunction is such a function, taken at the whole domain.
LEMMA FoldIs ==
  ASSUME NEW c
  PROVE  FoldFunction(LAMBDA m, n : m + n, 0, c) = (CHOOSE h : Iter(DOMAIN c, c, h))[DOMAIN c]
BY DEF FoldFunction, FoldFunctionOnSet, MapThenFoldSet, Iter, Some

\* One element is taken off.
LEMMA One ==
  ASSUME NEW D, IsFiniteSet(D), NEW s \in SUBSET D, s # {}
  PROVE  /\ Some(s) \in s /\ s \ {Some(s)} \in SUBSET D
        /\ Cardinality(s) \in Nat /\ Cardinality(s \ {Some(s)}) = Cardinality(s) - 1
<1>1. IsFiniteSet(s)
  BY FS_Subset
<1>2. Some(s) \in s
  BY DEF Some
<1> QED
  BY <1>1, <1>2, FS_RemoveElement, FS_CardinalityType

\* If all values are equal, their number times the value is such a function.
LEMMA IterExists ==
  ASSUME NEW D, IsFiniteSet(D), NEW n \in Nat, NEW c, c = [i \in D |-> n]
  PROVE  Iter(D, c, [s \in SUBSET D |-> n * Cardinality(s)])
<1> DEFINE h == [s \in SUBSET D |-> n * Cardinality(s)]
<1>1. ASSUME NEW s \in SUBSET D
      PROVE  h[s] = IF s = {} THEN 0 ELSE c[Some(s)] + h[s \ {Some(s)}]
  <2>1. CASE s = {}
    BY <2>1, FS_EmptySet
  <2>2. CASE s # {}
    <3>1. /\ Some(s) \in s /\ s \ {Some(s)} \in SUBSET D
          /\ Cardinality(s) \in Nat /\ Cardinality(s \ {Some(s)}) = Cardinality(s) - 1
      BY <2>2, One
    <3>2. h[s] = n * Cardinality(s) /\ h[s \ {Some(s)}] = n * (Cardinality(s) - 1) /\ c[Some(s)] = n
      BY <3>1
    <3>3. ASSUME NEW m \in Nat PROVE n * m = n + n * (m - 1)
      OBVIOUS
    <3> QED
      BY <2>2, <3>1, <3>2, <3>3
  <2> QED
    BY <2>1, <2>2
<1> QED
  BY <1>1 DEF Iter

\* It is the only one: there is no smallest set at which another differs.
LEMMA IterUnique ==
  ASSUME NEW D, IsFiniteSet(D), NEW n \in Nat, NEW c, c = [i \in D |-> n], NEW h, Iter(D, c, h)
  PROVE  h[D] = n * Cardinality(D)
<1> DEFINE Wrong == {s \in SUBSET D : h[s] # n * Cardinality(s)}
           T == {Cardinality(s) : s \in Wrong}
<1> SUFFICES ASSUME Wrong # {} PROVE FALSE
  OBVIOUS
<1>1. T \in SUBSET Nat /\ T # {}
  <2>1. ASSUME NEW s \in SUBSET D PROVE Cardinality(s) \in Nat
    BY FS_Subset, FS_CardinalityType
  <2> QED
    BY <2>1
<1>2. PICK least \in T : \A m \in T : least <= m
  <2> HIDE DEF T
  <2> QED
    BY <1>1, NatLeast
<1>3. PICK s \in Wrong : Cardinality(s) = least
  BY <1>2
<1>4. s \in SUBSET D /\ h[s] # n * Cardinality(s)
  BY <1>3
<1>5. h[s] = IF s = {} THEN 0 ELSE c[Some(s)] + h[s \ {Some(s)}]
  BY <1>4 DEF Iter
<1>6. s # {}
  BY <1>4, <1>5, FS_EmptySet
<1>7. /\ Some(s) \in s /\ s \ {Some(s)} \in SUBSET D
      /\ Cardinality(s) \in Nat /\ Cardinality(s \ {Some(s)}) = Cardinality(s) - 1
  BY <1>4, <1>6, One
<1>8. s \ {Some(s)} \notin Wrong
  <2> SUFFICES ASSUME s \ {Some(s)} \in Wrong PROVE FALSE
    OBVIOUS
  <2>1. Cardinality(s \ {Some(s)}) \in T
    OBVIOUS
  <2>2. least <= Cardinality(s) - 1
    BY <1>2, <1>7, <2>1
  <2> QED
    BY <1>3, <1>7, <2>2
<1>9. h[s \ {Some(s)}] = n * (Cardinality(s) - 1)
  BY <1>7, <1>8
<1>10. c[Some(s)] = n
  BY <1>4, <1>7
<1>11. ASSUME NEW m \in Nat PROVE n * m = n + n * (m - 1)
  OBVIOUS
<1> QED
  BY <1>4, <1>5, <1>6, <1>7, <1>9, <1>10, <1>11

\* The sum of equal numbers is a product.
LEMMA SumOfEqual ==
  ASSUME NEW D, IsFiniteSet(D), NEW n \in Nat
  PROVE  FoldFunction(LAMBDA x, y : x + y, 0, [i \in D |-> n]) = n * Cardinality(D)
<1> DEFINE c == [i \in D |-> n]
<1>1. DOMAIN c = D
  OBVIOUS
<1>2. Iter(D, c, CHOOSE h : Iter(D, c, h))
  BY IterExists, Zenon
<1> HIDE DEF c
<1>3. FoldFunction(LAMBDA x, y : x + y, 0, c) = (CHOOSE h : Iter(D, c, h))[D]
  BY <1>1, FoldIs
<1>4. c = [i \in D |-> n]
  BY DEF c
<1>5. (CHOOSE h : Iter(D, c, h))[D] = n * Cardinality(D)
  BY <1>2, <1>4, IterUnique
<1> QED
  BY <1>3, <1>4, <1>5

-----------------------------------------------------------------------------
(* There are as many requests as are counted.                              *)
LEMMA SliceLength ==
  ASSUME NEW i \in Int
  PROVE  Len(From(up_sizes, i)) \in 0 .. 7
<1>1. Len(up_sizes) = 7 /\ up_sizes \in Seq(Sizes)
  BY DEF up_sizes, Sizes
<1>2. PICK k \in 0 .. 7 : From(up_sizes, i) = SubSeq(up_sizes, k + 1, 7)
  <2> DEFINE j == IF i < 0 THEN 7 + i ELSE i
  <2>1. j \in Int
    OBVIOUS
  <2> HIDE DEF j
  <2>2. Clip(j, 0, 7) \in 0 .. 7
    BY <2>1 DEF Clip
  <2>3. From(up_sizes, i) = SubSeq(up_sizes, Clip(j, 0, 7) + 1, 7)
    BY <1>1 DEF From, j
  <2> QED
    BY <2>2, <2>3
<1> QED
  BY <1>1, <1>2

(* No size could do with one request less.                                 *)
LEMMA CeilNear ==
  ASSUME NEW a \in Nat, NEW n \in 1 .. 7
  PROVE  /\ CeilDiv(a, n) \in Nat
         /\ a <= CeilDiv(a, n) * n /\ CeilDiv(a, n) * n - a < n
<1>1. CASE n = 1
  BY <1>1 DEF CeilDiv
<1>2. CASE n = 2
  BY <1>2 DEF CeilDiv
<1>3. CASE n = 3
  BY <1>3 DEF CeilDiv
<1>4. CASE n = 4
  BY <1>4 DEF CeilDiv
<1>5. CASE n = 5
  BY <1>5 DEF CeilDiv
<1>6. CASE n = 6
  BY <1>6 DEF CeilDiv
<1>7. CASE n = 7
  BY <1>7 DEF CeilDiv
<1> QED
  BY <1>1, <1>2, <1>3, <1>4, <1>5, <1>6, <1>7

CountInv ==
  /\ ratio \in Int /\ maxchunk \in Nat
  /\ phase \in {"upload", "send", "sent", "timeout"} =>
       /\ Len(sizes) \in 1 .. 7 /\ DOMAIN sizes = 1 .. Len(sizes)
       /\ count = CeilDiv(maxchunk, Len(sizes)) /\ uploadMax = count * Len(sizes)
  /\ phase \in {"send", "sent", "timeout"} => requests = [i \in DOMAIN sizes |-> count]

LEMMA NextCount ==
  ASSUME CountInv, [Next]_vars
  PROVE  CountInv'
<1>1. CASE GetConfig
  <2> DEFINE chosen == From(up_sizes, ratio - 1)
  <2>1. ratio \in Int /\ maxchunk \in Nat
    BY DEF CountInv
  <2>2. chosen \in Seq(Sizes) /\ Len(chosen) \in 0 .. 7
    BY <2>1, SliceOfSizes, SliceLength
  <2>3. chosen # <<>> => Len(chosen) \in 1 .. 7 /\ DOMAIN chosen = 1 .. Len(chosen)
    BY <2>2
  <2>4. /\ UNCHANGED <<ratio, maxchunk>>
        /\ IF chosen = <<>> THEN phase' = "ZeroDivisionError"
           ELSE /\ phase' = "upload" /\ sizes' = chosen
                /\ count' = CeilDiv(maxchunk, Len(chosen)) /\ uploadMax' = count' * Len(chosen)
    BY <1>1 DEF GetConfig
  <2> HIDE DEF chosen
  <2> QED
    BY <2>1, <2>3, <2>4 DEF CountInv
<1>2. CASE BuildRequests
  BY <1>2 DEF BuildRequests, CountInv
<1>3. CASE SendRequest
  BY <1>3 DEF SendRequest, CountInv
<1>4. CASE Read
  <2>1. /\ phase = "send" /\ phase' \in {"send", "sent"}
        /\ UNCHANGED <<ratio, maxchunk, sizes, count, uploadMax, requests>>
    BY <1>4 DEF Read
  <2> QED
    BY <2>1 DEF CountInv
<1>5. CASE ReadTimesOut
  BY <1>5 DEF ReadTimesOut, CountInv
<1>6. CASE UNCHANGED vars
  BY <1>6 DEF vars, CountInv
<1> QED
  BY <1>1, <1>2, <1>3, <1>4, <1>5, <1>6 DEF Next

(* For every configuration, upload_max, up to which producer and consumer  *)
(* count, is the number of requests built, and exceeds maxchunkcount by    *)
(* less than one request of each size (speedtest.py:1187 to 1196, 1585).   *)
THEOREM AsManyAsCounted == Spec => []CountsAgree
<1>1. Init => CountInv
  BY DEF Init, CountInv
<1>2. CountInv => CountsAgree
  <2> SUFFICES ASSUME CountInv, phase \in {"send", "sent", "timeout"}
               PROVE  /\ uploadMax = FoldFunction(LAMBDA m, n : m + n, 0, requests)
                      /\ maxchunk <= uploadMax /\ uploadMax - maxchunk < Len(sizes)
    BY DEF CountsAgree
  <2>1. /\ maxchunk \in Nat /\ Len(sizes) \in 1 .. 7 /\ DOMAIN sizes = 1 .. Len(sizes)
        /\ count = CeilDiv(maxchunk, Len(sizes)) /\ uploadMax = count * Len(sizes)
        /\ requests = [i \in DOMAIN sizes |-> count]
    BY DEF CountInv
  <2>2. count \in Nat /\ maxchunk <= uploadMax /\ uploadMax - maxchunk < Len(sizes)
    BY <2>1, CeilNear
  <2>3. IsFiniteSet(1 .. Len(sizes)) /\ Cardinality(1 .. Len(sizes)) = Len(sizes)
    BY <2>1, FS_Interval
  <2>4. FoldFunction(LAMBDA m, n : m + n, 0, requests) = count * Len(sizes)
    BY <2>1, <2>2, <2>3, SumOfEqual
  <2> QED
    BY <2>1, <2>2, <2>4
<1> QED
  BY <1>1, <1>2, NextCount, PTL DEF Spec
=============================================================================
