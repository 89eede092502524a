-------------------------- MODULE QpepHeaderProofs --------------------------
(***************************************************************************)
(* Proofs about the header for every address and payload, and every pair   *)
(* of lengths of IP that leaves room for the prefix of a mapped address.   *)
(***************************************************************************)
EXTENDS QpepHeader, SequenceTheorems, TLAPS

-----------------------------------------------------------------------------
(* Two bytes.                                                              *)

(* The quotient of a number of sixteen bits by 256 is a byte, ...          *)
LEMMA Quotient ==
  ASSUME NEW p \in Int, NEW q \in Int, NEW r \in Int,
         p >= 0, p <= 65535, r >= 0, r <= 255, r + 256 * q = p
  PROVE  q >= 0 /\ q <= 255
<1>1. q >= 0
  OBVIOUS
<1>2. q <= 255
  OBVIOUS
<1> QED
  BY <1>1, <1>2

(* ... so the number is its two bytes.                                     *)
LEMMA TwoBytes ==
  ASSUME NEW p \in Int, p >= 0, p <= 65535
  PROVE  \E q, r \in Int :
           /\ r = p % 256 /\ q = p \div 256
           /\ r >= 0 /\ r <= 255 /\ q >= 0 /\ q <= 255
           /\ r + 256 * q = p
<1>1. \E q, r \in Int : /\ r = p % 256 /\ q = p \div 256
                        /\ r >= 0 /\ r <= 255 /\ r + 256 * q = p
  OBVIOUS
<1>2. PICK q \in Int, r \in Int : /\ r = p % 256 /\ q = p \div 256
                                  /\ r >= 0 /\ r <= 255 /\ r + 256 * q = p
  BY <1>1
<1>3. q >= 0 /\ q <= 255
  BY <1>2, Quotient
<1> QED
  BY <1>2, <1>3

(* Two bytes hold a port, low byte first.                                  *)
LEMMA PortBytes ==
  ASSUME NEW p \in Port
  PROVE  /\ portToBytes(p) \in Seq(Byte)
         /\ Len(portToBytes(p)) = 2
         /\ portToBytes(p)[1] + 256 * portToBytes(p)[2] = p
<1>1. p \in Int /\ p >= 0 /\ p <= 65535
  BY DEF Port
<1>2. PICK q \in Int, r \in Int : /\ r = p % 256 /\ q = p \div 256
                                  /\ r >= 0 /\ r <= 255 /\ q >= 0 /\ q <= 255
                                  /\ r + 256 * q = p
  BY <1>1, TwoBytes
<1>3. q % 256 = q
  BY <1>2
<1>4. portToBytes(p) = <<r, q>>
  BY <1>2, <1>3, Zenon DEF portToBytes
<1>5. r \in Byte /\ q \in Byte
  <2>1. \A i \in Int : i >= 0 /\ i <= 255 => i \in Byte
    BY DEF Byte
  <2> QED
    BY <1>2, <2>1, Zenon
<1> QED
  BY <1>2, <1>4, <1>5

(* The grouping of concatenations does not matter.                         *)
LEMMA Regrouped ==
  ASSUME NEW S, NEW s \in Seq(S), NEW t \in Seq(S), NEW u \in Seq(S)
  PROVE  (s \o t) \o u = s \o (t \o u)
OBVIOUS

(* The length of a concatenation.                                          *)
LEMMA ConcatLength ==
  ASSUME NEW S, NEW s \in Seq(S), NEW t \in Seq(S)
  PROVE  /\ s \o t \in Seq(S) /\ Len(s \o t) = Len(s) + Len(t)
         /\ Len(s) \in Nat /\ Len(t) \in Nat
BY ConcatProperties

(* The elements of a concatenation: from the left ...                      *)
LEMMA FromTheLeft ==
  ASSUME NEW S, NEW s \in Seq(S), NEW t \in Seq(S), NEW i \in 1 .. Len(s)
  PROVE  (s \o t)[i] = s[i]
OBVIOUS

(* ... and from the right.                                                 *)
LEMMA FromTheRight ==
  ASSUME NEW S, NEW s \in Seq(S), NEW t \in Seq(S), NEW i \in 1 .. Len(t)
  PROVE  (s \o t)[Len(s) + i] = t[i]
OBVIOUS

-----------------------------------------------------------------------------
USE LengthAssumption, AddressAssumption, PayloadAssumption

-----------------------------------------------------------------------------
(* One address.                                                            *)

(* The type byte is one of two, and IPLength is the length it announces.   *)
LEMMA TypeByte ==
  ASSUME NEW a \in Address
  PROVE  /\ getNetworkTypeFromAddr(a) \in {4, 6}
         /\ IPLength(getNetworkTypeFromAddr(a)) \in Nat \ {0}
         /\ IPLength(getNetworkTypeFromAddr(a)) <= IPv6len
         /\ IPLength(4) = IPv4len /\ IPLength(0) = IPv6len /\ IPLength(6) = IPv6len
BY DEF getNetworkTypeFromAddr, IPLength, Mapping

(* The fields of an address.                                               *)
LEMMA AddressFields ==
  ASSUME NEW a \in Address
  PROVE  /\ a.ip \in Seq(Byte)
         /\ Len(a.ip) \in {IPv4len, IPv6len}
         /\ a.port \in Port
OBVIOUS

(* The prefix of a mapped address is Mapping bytes.                        *)
LEMMA PrefixIsBytes ==
  /\ MappedPrefix \in Seq(Byte)
  /\ Len(MappedPrefix) = Mapping
<1>1. Mapping \in Nat
  BY DEF Mapping
<1>2. \A i \in 1 .. Mapping : (IF i > Mapping - 2 THEN 255 ELSE 0) \in Byte
  BY DEF Byte
<1> QED
  BY <1>1, <1>2 DEF MappedPrefix

(* The bytes written for an IP have the announced length.                  *)
LEMMA IPBytes ==
  ASSUME NEW a \in Address
  PROVE  LET b == ipToBytes(a.ip, getNetworkTypeFromAddr(a)) IN
         /\ b \in Seq(Byte)
         /\ Len(b) = IPLength(getNetworkTypeFromAddr(a))
<1>0. Mapping \in Nat /\ Mapping + IPv4len = IPv6len
  BY DEF Mapping
<1>1. a.ip \in Seq(Byte) /\ Len(a.ip) \in {IPv4len, IPv6len}
  BY AddressFields
<1>2. CASE Len(a.ip) = IPv4len
  BY <1>1, <1>2 DEF ipToBytes, To4, getNetworkTypeFromAddr, HasFourBytes, IPLength
<1>3. CASE Len(a.ip) # IPv4len /\ HasFourBytes(a.ip)
  <2>1. Len(a.ip) = IPv6len
    BY <1>1, <1>3
  <2>2. /\ SubSeq(a.ip, Mapping + 1, IPv6len) \in Seq(Byte)
        /\ Len(SubSeq(a.ip, Mapping + 1, IPv6len)) = IPv4len
    BY <1>0, <1>1, <2>1
  <2> QED
    BY <2>2, <1>3 DEF ipToBytes, To4, getNetworkTypeFromAddr, IPLength
<1>4. CASE ~HasFourBytes(a.ip)
  BY <1>1, <1>4 DEF ipToBytes, To16, getNetworkTypeFromAddr, HasFourBytes, IPLength
<1> QED
  BY <1>2, <1>3, <1>4

(* They are the same IP in sixteen bytes: nothing is lost by writing a     *)
(* mapped address in four.                                                 *)
LEMMA SameIP ==
  ASSUME NEW a \in Address
  PROVE  To16(ipToBytes(a.ip, getNetworkTypeFromAddr(a))) = To16(a.ip)
<1>0. Mapping \in Nat /\ Mapping + IPv4len = IPv6len /\ IPv6len # IPv4len
  BY DEF Mapping
<1>1. a.ip \in Seq(Byte) /\ Len(a.ip) \in {IPv4len, IPv6len}
  BY AddressFields
<1>2. CASE Len(a.ip) = IPv4len
  BY <1>1, <1>2 DEF ipToBytes, To4, getNetworkTypeFromAddr, HasFourBytes
<1>3. CASE Len(a.ip) # IPv4len /\ HasFourBytes(a.ip)
  <2> DEFINE last == SubSeq(a.ip, Mapping + 1, IPv6len)
  <2>1. Len(a.ip) = IPv6len /\ SubSeq(a.ip, 1, Mapping) = MappedPrefix
    BY <1>1, <1>3 DEF HasFourBytes
  <2>2. ipToBytes(a.ip, getNetworkTypeFromAddr(a)) = last
    BY <1>3 DEF ipToBytes, To4, getNetworkTypeFromAddr
  <2>3. Len(last) = IPv4len
    BY <1>0, <1>1, <2>1
  <2>4. SubSeq(a.ip, 1, Mapping) \o last = SubSeq(a.ip, 1, IPv6len)
    BY <1>0, <1>1, <2>1, ConcatAdjacentSubSeq
  <2>5. SubSeq(a.ip, 1, IPv6len) = a.ip
    BY <1>1, <2>1, SubSeqFull
  <2>6. To16(last) = a.ip
    BY <2>1, <2>3, <2>4, <2>5 DEF To16
  <2>7. To16(a.ip) = a.ip
    BY <1>3 DEF To16
  <2> QED
    BY <2>2, <2>6, <2>7
<1>4. CASE ~HasFourBytes(a.ip)
  <2>1. Len(a.ip) # IPv4len
    BY <1>4 DEF HasFourBytes
  <2>2. ipToBytes(a.ip, getNetworkTypeFromAddr(a)) = a.ip
    BY <1>4, <2>1 DEF ipToBytes, To16, getNetworkTypeFromAddr
  <2> QED
    BY <2>2
<1> QED
  BY <1>2, <1>3, <1>4

(* An address is its IP's bytes and two more.                              *)
LEMMA AddrBytes ==
  ASSUME NEW a \in Address
  PROVE  /\ addrToBytes(a) \in Seq(Byte)
         /\ Len(addrToBytes(a)) = IPLength(getNetworkTypeFromAddr(a)) + 2
<1> DEFINE b == ipToBytes(a.ip, getNetworkTypeFromAddr(a))
           q == portToBytes(a.port)
<1>1. b \in Seq(Byte) /\ Len(b) = IPLength(getNetworkTypeFromAddr(a))
  BY IPBytes
<1>2. q \in Seq(Byte) /\ Len(q) = 2
  BY AddressFields, PortBytes
<1>3. addrToBytes(a) = b \o q
  BY DEF addrToBytes
<1> HIDE DEF b, q
<1>4. b \o q \in Seq(Byte) /\ Len(b \o q) = Len(b) + Len(q)
  BY <1>1, <1>2, ConcatProperties
<1> QED
  BY <1>1, <1>2, <1>3, <1>4

(* Wherever the bytes of an address lie, AddrAfter reads that address.     *)
LEMMA ParsedWhereWritten ==
  ASSUME NEW a \in Address, NEW bytes \in Seq(Byte), NEW k \in Nat,
         k + Len(addrToBytes(a)) <= Len(bytes),
         \A i \in 1 .. Len(addrToBytes(a)) : bytes[k + i] = addrToBytes(a)[i]
  PROVE  SameAddr(AddrAfter(bytes, k, IPLength(getNetworkTypeFromAddr(a))), a)
<1> DEFINE n == IPLength(getNetworkTypeFromAddr(a))
           b == ipToBytes(a.ip, getNetworkTypeFromAddr(a))
           q == portToBytes(a.port)
<1>1. b \in Seq(Byte) /\ Len(b) = n /\ n \in Nat \ {0}
  BY IPBytes, TypeByte
<1>2. q \in Seq(Byte) /\ Len(q) = 2 /\ q[1] + 256 * q[2] = a.port
  BY AddressFields, PortBytes
<1>3. addrToBytes(a) = b \o q
  BY DEF addrToBytes
<1>4. Len(addrToBytes(a)) = n + 2
  BY AddrBytes
<1>5. \A i \in 1 .. n + 2 : bytes[k + i] = (b \o q)[i]
  BY <1>3, <1>4
<1>6. To16(b) = To16(a.ip)
  BY SameIP
<1> HIDE DEF n, b, q
<1>7. k + n + 2 <= Len(bytes)
  BY <1>1, <1>4
<1>8. \A i \in 1 .. n : (b \o q)[i] = b[i]
  BY <1>1, <1>2, FromTheLeft
<1>9. (b \o q)[n + 1] = q[1] /\ (b \o q)[n + 2] = q[2]
  <2>1. 1 \in 1 .. Len(q) /\ 2 \in 1 .. Len(q)
    BY <1>2
  <2>2. b \in Seq(Byte) /\ q \in Seq(Byte)
    BY <1>1, <1>2
  <2>3. \A i \in 1 .. Len(q) : (b \o q)[Len(b) + i] = q[i]
    <3> SUFFICES ASSUME NEW i \in 1 .. Len(q)
                 PROVE  (b \o q)[Len(b) + i] = q[i]
      OBVIOUS
    <3> QED
      BY <2>2, FromTheRight
  <2>4. (b \o q)[Len(b) + 1] = q[1]
    BY <2>1, <2>3, Zenon
  <2>5. (b \o q)[Len(b) + 2] = q[2]
    BY <2>1, <2>3, Zenon
  <2> QED
    BY <1>1, <2>4, <2>5, Zenon
<1>10. SubSeq(bytes, k + 1, k + n) = b
  <2>1. /\ SubSeq(bytes, k + 1, k + n) \in Seq(Byte)
        /\ Len(SubSeq(bytes, k + 1, k + n)) = n
        /\ \A i \in 1 .. n : SubSeq(bytes, k + 1, k + n)[i] = bytes[k + i]
    BY <1>1, <1>7
  <2>2. \A i \in 1 .. n : bytes[k + i] = b[i]
    BY <1>1, <1>5, <1>8
  <2> QED
    BY <1>1, <2>1, <2>2, SeqEqual
<1>11. bytes[k + n + 1] = q[1] /\ bytes[k + n + 2] = q[2]
  <2>1. n + 1 \in 1 .. n + 2 /\ n + 2 \in 1 .. n + 2
    BY <1>1
  <2>2. bytes[k + (n + 1)] = q[1] /\ bytes[k + (n + 2)] = q[2]
    BY <2>1, <1>5, <1>9
  <2>3. k + (n + 1) = k + n + 1 /\ k + (n + 2) = k + n + 2
    BY <1>1
  <2> QED
    BY <2>2, <2>3
<1>12. SameAddr(AddrAfter(bytes, k, n), a)
  BY <1>2, <1>6, <1>10, <1>11 DEF SameAddr, AddrAfter
<1> QED
  BY <1>12 DEF n

-----------------------------------------------------------------------------
(* The whole header.                                                       *)

(* The preamble announces the length of the addresses behind it.           *)
LEMMA HeaderBytes ==
  ASSUME NEW h \in Header
  PROVE  /\ Preamble(h)[1] \in {4, 6} /\ Preamble(h)[2] \in {4, 6}
         /\ Preamble(h) \in Seq(Byte) /\ Len(Preamble(h)) = 2
         /\ Addresses(h) \in Seq(Byte)
         /\ Len(Addresses(h)) = AddressesLength(Preamble(h))
         /\ AddressesLength(Preamble(h)) \in Nat \ {0}
<1> DEFINE s == getNetworkTypeFromAddr(h.source)
           d == getNetworkTypeFromAddr(h.dest)
<1>1. h.source \in Address /\ h.dest \in Address
  BY DEF Header
<1>2. s \in {4, 6} /\ d \in {4, 6}
  BY <1>1, TypeByte
<1>3. IPLength(s) \in Nat \ {0} /\ IPLength(d) \in Nat \ {0}
  BY <1>1, TypeByte
<1>4. /\ addrToBytes(h.source) \in Seq(Byte)
      /\ Len(addrToBytes(h.source)) = IPLength(s) + 2
      /\ addrToBytes(h.dest) \in Seq(Byte)
      /\ Len(addrToBytes(h.dest)) = IPLength(d) + 2
  BY <1>1, AddrBytes
<1>5. Preamble(h) = <<s, d>>
  BY DEF Preamble
<1> HIDE DEF s, d
<1>6. /\ Preamble(h)[1] = s /\ Preamble(h)[2] = d
      /\ Preamble(h) \in Seq(Byte) /\ Len(Preamble(h)) = 2
  BY <1>2, <1>5 DEF Byte
<1>7. /\ Addresses(h) \in Seq(Byte)
      /\ Len(Addresses(h)) = Len(addrToBytes(h.source)) + Len(addrToBytes(h.dest))
  BY <1>4, ConcatLength, Zenon DEF Addresses
<1>8. AddressesLength(Preamble(h)) = IPLength(s) + 2 + IPLength(d) + 2
  BY <1>6 DEF AddressesLength
<1>9. /\ Len(addrToBytes(h.source)) = IPLength(s) + 2
      /\ Len(addrToBytes(h.dest)) = IPLength(d) + 2
  BY <1>4
<1>10. IPLength(s) + 2 + (IPLength(d) + 2) = IPLength(s) + 2 + IPLength(d) + 2
  BY <1>3
<1>11. Len(Addresses(h)) = AddressesLength(Preamble(h))
  BY <1>7, <1>8, <1>9, <1>10, Zenon
<1>12. AddressesLength(Preamble(h)) \in Nat \ {0}
  BY <1>3, <1>8
<1> QED
  BY <1>2, <1>6, <1>7, <1>11, <1>12, Zenon

(* ToBytes is the preamble and the addresses.                              *)
LEMMA ToBytesLength ==
  ASSUME NEW h \in Header
  PROVE  /\ ToBytes(h) \in Seq(Byte)
         /\ Len(ToBytes(h)) = 2 + Len(Addresses(h))
         /\ Len(Addresses(h)) \in Nat
<1>1. /\ Preamble(h) \in Seq(Byte) /\ Len(Preamble(h)) = 2
      /\ Addresses(h) \in Seq(Byte)
  BY HeaderBytes
<1> QED
  BY <1>1, ConcatLength, Zenon DEF ToBytes

(* From the preamble and the addresses as written, GetQpepHeader builds    *)
(* the header.                                                             *)
LEMMA RoundTrip ==
  ASSUME NEW h \in Header
  PROVE  LET parsed == Parsed(Preamble(h), Addresses(h)) IN
         /\ SameAddr(parsed.source, h.source)
         /\ SameAddr(parsed.dest, h.dest)
<1> DEFINE s == getNetworkTypeFromAddr(h.source)
           d == getNetworkTypeFromAddr(h.dest)
           b == addrToBytes(h.source)
           c == addrToBytes(h.dest)
<1>1. h.source \in Address /\ h.dest \in Address
  BY DEF Header
<1>2. /\ b \in Seq(Byte) /\ Len(b) = IPLength(s) + 2
      /\ c \in Seq(Byte) /\ IPLength(s) \in Nat
  BY <1>1, AddrBytes, TypeByte
<1>3. Addresses(h) = b \o c
  BY DEF Addresses
<1>4. /\ b \o c \in Seq(Byte) /\ Len(b \o c) = Len(b) + Len(c)
      /\ Len(b) \in Nat /\ Len(c) \in Nat
  BY <1>2, ConcatLength, Zenon
<1>5. SameAddr(AddrAfter(b \o c, 0, IPLength(s)), h.source)
  <2>1. \A i \in 1 .. Len(b) : (b \o c)[0 + i] = b[i]
    <3> SUFFICES ASSUME NEW i \in 1 .. Len(b)
                 PROVE  (b \o c)[0 + i] = b[i]
      OBVIOUS
    <3>1. (b \o c)[i] = b[i]
      BY <1>2, FromTheLeft
    <3>2. 0 + i = i
      BY <1>4
    <3> QED
      BY <3>1, <3>2
  <2>2. 0 \in Nat /\ 0 + Len(b) <= Len(b \o c)
    BY <1>4
  <2> QED
    BY <1>1, <1>4, <2>1, <2>2, ParsedWhereWritten
<1>6. SameAddr(AddrAfter(b \o c, Len(b), IPLength(d)), h.dest)
  <2>1. \A i \in 1 .. Len(c) : (b \o c)[Len(b) + i] = c[i]
    <3> SUFFICES ASSUME NEW i \in 1 .. Len(c)
                 PROVE  (b \o c)[Len(b) + i] = c[i]
      OBVIOUS
    <3> QED
      BY <1>2, FromTheRight
  <2>2. Len(b) + Len(c) <= Len(b \o c)
    BY <1>4
  <2> QED
    BY <1>1, <1>4, <2>1, <2>2, ParsedWhereWritten
<1>7. Preamble(h)[1] = s /\ Preamble(h)[2] = d
  BY DEF Preamble
<1>8. Parsed(Preamble(h), b \o c) =
        [source |-> AddrAfter(b \o c, 0, IPLength(s)),
         dest   |-> AddrAfter(b \o c, Len(b), IPLength(d))]
  BY <1>2, <1>7 DEF Parsed
<1> HIDE DEF b, c, s, d
<1> QED
  BY <1>3, <1>5, <1>6, <1>8

-----------------------------------------------------------------------------
(* The two Reads.                                                          *)

(* A filled buffer is size bytes.                                          *)
LEMMA FilledIsBytes ==
  ASSUME wire \in Seq(Byte), NEW size \in Nat, NEW n \in 0 .. Len(wire)
  PROVE  Filled(size, n) \in Seq(Byte) /\ Len(Filled(size, n)) = size
<1>1. \A i \in 1 .. size : (IF i <= n THEN wire[i] ELSE 0) \in Byte
  <2> SUFFICES ASSUME NEW i \in 1 .. size
               PROVE  (IF i <= n THEN wire[i] ELSE 0) \in Byte
    OBVIOUS
  <2>1. 0 \in Byte
    BY DEF Byte
  <2>2. i <= n => i \in 1 .. Len(wire)
    OBVIOUS
  <2> QED
    BY <2>1, <2>2
<1> QED
  BY <1>1 DEF Filled

(* A Read that takes all of s out of s \o t has s in its buffer and leaves *)
(* t in the stream.                                                        *)
LEMMA FilledWhole ==
  ASSUME NEW s \in Seq(Byte), NEW t \in Seq(Byte), wire = s \o t
  PROVE  /\ Filled(Len(s), Len(s)) = s
         /\ SubSeq(wire, Len(s) + 1, Len(wire)) = t
<1>1. /\ s \o t \in Seq(Byte) /\ Len(s \o t) = Len(s) + Len(t)
      /\ Len(s) \in Nat /\ Len(t) \in Nat
  BY ConcatLength
<1>2. Filled(Len(s), Len(s)) = s
  <2>1. Filled(Len(s), Len(s)) \in Seq(Byte) /\ Len(Filled(Len(s), Len(s))) = Len(s)
    BY <1>1, FilledIsBytes
  <2>2. \A i \in 1 .. Len(s) : Filled(Len(s), Len(s))[i] = s[i]
    <3> SUFFICES ASSUME NEW i \in 1 .. Len(s)
                 PROVE  Filled(Len(s), Len(s))[i] = s[i]
      OBVIOUS
    <3>1. (s \o t)[i] = s[i]
      BY FromTheLeft
    <3>2. i <= Len(s)
      BY <1>1
    <3> QED
      BY <3>1, <3>2 DEF Filled
  <2> QED
    BY <2>1, <2>2, SeqEqual
<1>3. SubSeq(wire, Len(s) + 1, Len(wire)) = t
  <2> DEFINE u == SubSeq(s \o t, Len(s) + 1, Len(s) + Len(t))
  <2>1. /\ u \in Seq(Byte) /\ Len(u) = Len(t)
        /\ \A i \in 1 .. Len(t) : u[i] = (s \o t)[Len(s) + i]
    BY <1>1
  <2>2. \A i \in 1 .. Len(t) : (s \o t)[Len(s) + i] = t[i]
    <3> SUFFICES ASSUME NEW i \in 1 .. Len(t)
                 PROVE  (s \o t)[Len(s) + i] = t[i]
      OBVIOUS
    <3> QED
      BY FromTheRight
  <2> HIDE DEF u
  <2>3. u = t
    BY <2>1, <2>2, SeqEqual
  <2> QED
    BY <1>1, <2>3 DEF u
<1> QED
  BY <1>2, <1>3

(* What a Read leaves is bytes, n fewer.                                   *)
LEMMA Remainder ==
  ASSUME wire \in Seq(Byte), NEW n \in 0 .. Len(wire)
  PROVE  /\ SubSeq(wire, n + 1, Len(wire)) \in Seq(Byte)
         /\ Len(SubSeq(wire, n + 1, Len(wire))) = Len(wire) - n
OBVIOUS

-----------------------------------------------------------------------------
(* The inductive invariant: LossBounded counts what ReadInv forgets after  *)
(* a short Read.                                                           *)
IInv == TypeOK /\ ReadInv /\ LossBounded

(* The initial states satisfy it.                                          *)
LEMMA InitIInv == Init => IInv
<1> SUFFICES ASSUME Init PROVE IInv
  OBVIOUS
<1> USE DEF Init
<1>1. /\ ToBytes(header) \in Seq(Byte) /\ Len(ToBytes(header)) \in Nat
      /\ payload \in Seq(Byte) /\ Len(payload) \in Nat
  BY ToBytesLength
<1>2. wire \in Seq(Byte) /\ Len(wire) = Len(ToBytes(header)) + Len(payload)
  BY <1>1, ConcatLength
<1>3. preamble \in [1 .. 2 -> Byte] /\ byteInput \in Seq(Byte)
  BY DEF Byte
<1>4. TypeOK
  BY <1>1, <1>2, <1>3 DEF TypeOK
<1>5. ReadInv
  BY DEF ReadInv
<1>6. LossBounded
  BY <1>1, <1>2 DEF LossBounded
<1> QED
  BY <1>4, <1>5, <1>6 DEF IInv

(* What Reads does, in numbers.                                            *)
LEMMA ReadsSome ==
  ASSUME wire \in Seq(Byte), NEW size \in Nat, NEW n \in Nat, Reads(size, n)
  PROVE  /\ n \in 0 .. Len(wire) /\ 1 <= n /\ n <= size
         /\ wire' = SubSeq(wire, n + 1, Len(wire))
         /\ wire' \in Seq(Byte) /\ Len(wire') = Len(wire) - n
         /\ whole' = (whole /\ n = size)
<1>1. Len(wire) \in Nat
  OBVIOUS
<1>2. n \in 0 .. Len(wire) /\ 1 <= n /\ n <= size
  BY <1>1 DEF Reads, Lesser
<1>3. wire' = SubSeq(wire, n + 1, Len(wire)) /\ whole' = (whole /\ n = size)
  BY DEF Reads
<1>4. wire' \in Seq(Byte) /\ Len(wire') = Len(wire) - n
  BY <1>2, <1>3, Remainder
<1> QED
  BY <1>2, <1>3, <1>4

(* The first Read preserves it.                                            *)
LEMMA PreambleIInv ==
  ASSUME IInv, ReadPreamble
  PROVE  IInv'
<1> DEFINE P == Preamble(header)
           A == Addresses(header)
<1>1. /\ header \in Header /\ payload \in Seq(Byte) /\ Len(payload) \in Nat
      /\ wire \in Seq(Byte) /\ byteInput \in Seq(Byte)
      /\ payload \in Payload
  BY DEF IInv, TypeOK
<1>2. wire = ToBytes(header) \o payload /\ whole
  BY DEF IInv, ReadInv, ReadPreamble
<1>3. /\ P \in Seq(Byte) /\ Len(P) = 2 /\ P[1] \in {4, 6} /\ P[2] \in {4, 6}
      /\ A \in Seq(Byte)
  BY <1>1, HeaderBytes
<1>4. Len(A) \in Nat /\ Len(ToBytes(header)) = 2 + Len(A) /\ ToBytes(header) \in Seq(Byte)
  BY <1>1, ToBytesLength
<1>5. PICK n \in 1 .. 2 : Reads(2, n) /\ preamble' = Filled(2, n)
  BY DEF ReadPreamble, QPEP_PREAMBLE_LENGTH
<1>6. /\ n \in 0 .. Len(wire) /\ n \in Nat
      /\ wire' = SubSeq(wire, n + 1, Len(wire))
      /\ wire' \in Seq(Byte) /\ Len(wire') = Len(wire) - n
      /\ whole' = (n = 2)
  BY <1>1, <1>2, <1>5, ReadsSome
<1>7. wire = (P \o A) \o payload
  BY <1>2 DEF ToBytes
<1> HIDE DEF P, A
<1>8. wire = P \o (A \o payload) /\ A \o payload \in Seq(Byte)
  <2>1. (P \o A) \o payload = P \o (A \o payload)
    <3>1. P \in Seq(Byte) /\ A \in Seq(Byte) /\ payload \in Seq(Byte)
      BY <1>1, <1>3
    <3> QED
      BY <3>1
  <2>2. A \o payload \in Seq(Byte)
    BY <1>1, <1>3, ConcatLength, Zenon
  <2> QED
    BY <1>7, <2>1, <2>2
<1>9. Len(wire) = 2 + Len(A) + Len(payload)
  <2>1. Len(wire) = Len(ToBytes(header)) + Len(payload)
    BY <1>1, <1>2, <1>4, ConcatLength, Zenon
  <2> QED
    BY <2>1, <1>1, <1>4
<1>10. stage' = "addresses" /\ UNCHANGED <<header, payload, byteInput>>
  BY DEF ReadPreamble
<1>11. preamble' \in [1 .. 2 -> Byte]
  <2>1. Filled(2, n) \in Seq(Byte) /\ Len(Filled(2, n)) = 2
    BY <1>1, <1>6, FilledIsBytes
  <2>2. Filled(2, n) \in [1 .. 2 -> Byte]
    BY <2>1, LenProperties
  <2> QED
    BY <1>5, <2>2
<1>12. n = 1 => preamble' = <<P[1], 0>>
  <2>1. 1 \in 1 .. Len(P)
    BY <1>3
  <2>2. wire[1] = P[1]
    BY <1>3, <1>8, <2>1, FromTheLeft
  <2> QED
    BY <2>2, <1>5 DEF Filled
<1>13. TypeOK'
  BY <1>1, <1>4, <1>6, <1>9, <1>10, <1>11 DEF TypeOK
<1>14. ReadInv'
  <2>1. CASE n = 2
    <3>1. /\ Filled(Len(P), Len(P)) = P
          /\ SubSeq(wire, Len(P) + 1, Len(wire)) = A \o payload
      <4> DEFINE t == A \o payload
      <4>1. wire = P \o t /\ t \in Seq(Byte)
        BY <1>8
      <4> HIDE DEF t
      <4>2. /\ Filled(Len(P), Len(P)) = P
            /\ SubSeq(wire, Len(P) + 1, Len(wire)) = t
        BY <1>3, <4>1, FilledWhole
      <4> QED
        BY <4>2 DEF t
    <3>2. preamble' = P /\ wire' = A \o payload
      BY <1>3, <1>5, <1>6, <2>1, <3>1
    <3>3. whole'
      BY <1>6, <2>1
    <3> QED
      BY <3>2, <3>3, <1>10 DEF ReadInv, P, A
  <2>2. CASE n = 1
    <3>1. ~whole' /\ preamble' = <<P[1], 0>>
      <4>1. preamble' = <<P[1], 0>>
        BY <1>12, <2>2
      <4>2. n # 2
        BY <2>2
      <4> QED
        BY <1>6, <4>1, <4>2, Zenon
    <3>2. Len(wire') = 1 + Len(A) + Len(payload)
      BY <1>1, <1>4, <1>6, <1>9, <2>2
    <3> QED
      BY <3>1, <3>2, <1>10 DEF ReadInv, P, A
  <2> QED
    BY <2>1, <2>2
<1>15. LossBounded'
  BY <1>1, <1>4, <1>6, <1>9, <1>10 DEF LossBounded
<1> QED
  BY <1>13, <1>14, <1>15 DEF IInv

(* A misread preamble asks for the longer of the destination's lengths.    *)
LEMMA MisreadLength ==
  ASSUME NEW h \in Header
  PROVE  LET wanted == AddressesLength(<<Preamble(h)[1], 0>>) IN
         /\ wanted \in Nat \ {0}
         /\ wanted >= Len(Addresses(h))
         /\ wanted <= Len(Addresses(h)) + Mapping
         /\ wanted > Len(Addresses(h)) => getNetworkTypeFromAddr(h.dest) = 4
<1> DEFINE s == IPLength(getNetworkTypeFromAddr(h.source))
           d == IPLength(getNetworkTypeFromAddr(h.dest))
<1>1. h.source \in Address /\ h.dest \in Address
  BY DEF Header
<1>2. s \in Nat \ {0} /\ IPLength(0) = IPv6len
  BY <1>1, TypeByte
<1>3. /\ d = IPv4len \/ d = IPv6len
      /\ d = IPv4len => getNetworkTypeFromAddr(h.dest) = 4
  <2>1. IPv4len # IPv6len
    BY DEF Mapping
  <2> QED
    BY <1>1, <2>1, TypeByte
<1>4. Len(Addresses(h)) = s + 2 + d + 2
  <2>1. Len(Addresses(h)) = AddressesLength(Preamble(h))
    BY HeaderBytes
  <2> QED
    BY <2>1 DEF AddressesLength, Preamble
<1>5. AddressesLength(<<Preamble(h)[1], 0>>) = s + 2 + IPv6len + 2
  BY <1>2 DEF AddressesLength, Preamble
<1> HIDE DEF s, d
<1> QED
  BY <1>2, <1>3, <1>4, <1>5 DEF Mapping

(* The second Read preserves it.                                           *)
LEMMA AddressesIInv ==
  ASSUME IInv, ReadAddresses
  PROVE  IInv'
<1> DEFINE size == AddressesLength(preamble)
           P == Preamble(header)
           A == Addresses(header)
<1>1. /\ header \in Header /\ payload \in Seq(Byte) /\ Len(payload) \in Nat
      /\ wire \in Seq(Byte) /\ preamble \in [1 .. 2 -> Byte]
      /\ payload \in Payload /\ whole \in BOOLEAN
      /\ Len(wire) <= Len(ToBytes(header)) + Len(payload)
  BY DEF IInv, TypeOK
<1>2. IF whole THEN preamble = P /\ wire = A \o payload
               ELSE preamble = <<P[1], 0>> /\ Len(wire) = 1 + Len(A) + Len(payload)
  BY DEF IInv, ReadInv, ReadAddresses
<1>3. /\ A \in Seq(Byte) /\ Len(A) = AddressesLength(P) /\ P[2] \in {4, 6}
      /\ Len(A) \in Nat /\ Len(ToBytes(header)) \in Nat
  BY <1>1, HeaderBytes, ToBytesLength
<1>4. /\ size \in Nat
      /\ whole => size = Len(A)
      /\ ~whole => size <= Len(A) + Mapping
  BY <1>1, <1>2, <1>3, MisreadLength
<1>5. PICK n \in 1 .. size : Reads(size, n) /\ byteInput' = Filled(size, n)
  BY DEF ReadAddresses
<1>6. /\ stage' = "parsed"
      /\ UNCHANGED <<header, payload, preamble>>
  BY DEF ReadAddresses
<1>7. P' = P /\ A' = A /\ size' = size
  BY <1>6
<1> HIDE DEF size, P, A
<1>8. /\ n \in 0 .. Len(wire) /\ n \in Nat /\ n <= size
      /\ wire' = SubSeq(wire, n + 1, Len(wire))
      /\ wire' \in Seq(Byte) /\ Len(wire') = Len(wire) - n
      /\ whole' = (whole /\ n = size)
  BY <1>1, <1>4, <1>5, ReadsSome
<1>9. byteInput' \in Seq(Byte) /\ Len(byteInput') = size
  BY <1>1, <1>4, <1>5, <1>8, FilledIsBytes
<1>10. Len(wire) \in Nat
  BY <1>1
<1>11. TypeOK'
  <2>1. Len(wire') <= Len(ToBytes(header)) + Len(payload)
    BY <1>1, <1>3, <1>8, <1>10
  <2> QED
    BY <1>1, <1>6, <1>7, <1>8, <1>9, <2>1 DEF TypeOK, size
<1>12. whole' => preamble' = P /\ byteInput' = A /\ wire' = payload
  <2> SUFFICES ASSUME whole'
               PROVE  preamble' = P /\ byteInput' = A /\ wire' = payload
    OBVIOUS
  <2>1. whole /\ n = size
    BY <1>8
  <2>2. n = Len(A) /\ size = Len(A) /\ preamble = P /\ wire = A \o payload
    BY <1>2, <1>4, <2>1
  <2>3. /\ Filled(Len(A), Len(A)) = A
        /\ SubSeq(wire, Len(A) + 1, Len(wire)) = payload
    BY <1>1, <1>3, <2>2, FilledWhole
  <2> QED
    BY <1>5, <1>6, <1>8, <2>2, <2>3
<1>13. ReadInv'
  BY <1>6, <1>7, <1>12 DEF ReadInv, P, A
<1>14. LossBounded'
  <2>1. CASE whole
    <3>1. Len(wire) = Len(A) + Len(payload)
      BY <1>1, <1>2, <1>3, <2>1, ConcatLength
    <3>2. Len(wire') >= Len(payload)
      BY <1>1, <1>3, <1>4, <1>8, <2>1, <3>1
    <3> QED
      BY <1>6, <3>2 DEF LossBounded
  <2>2. CASE ~whole
    <3>1. preamble = <<P[1], 0>> /\ Len(wire) = 1 + Len(A) + Len(payload)
      BY <1>2, <2>2
    <3>2. preamble # P
      BY <1>3, <3>1
    <3>3. Len(wire') >= Len(payload) - (Mapping - 1)
      <4>1. /\ Mapping \in Int /\ Len(A) \in Int /\ Len(payload) \in Int
            /\ n \in Int /\ n <= Len(A) + Mapping
        BY <1>1, <1>3, <1>4, <1>8, <2>2 DEF Mapping
      <4>2. Len(wire') = 1 + Len(A) + Len(payload) - n
        BY <1>8, <3>1
      <4> QED
        BY <4>1, <4>2
    <3> QED
      BY <1>6, <3>2, <3>3 DEF LossBounded, P
  <2> QED
    BY <2>1, <2>2
<1> QED
  BY <1>11, <1>13, <1>14 DEF IInv

(* Every step preserves it.                                                *)
LEMMA NextIInv == IInv /\ [Next]_vars => IInv'
<1> SUFFICES ASSUME IInv, [Next]_vars PROVE IInv'
  OBVIOUS
<1>1. CASE ReadPreamble
  BY <1>1, PreambleIInv
<1>2. CASE ReadAddresses
  BY <1>2, AddressesIInv
<1>3. CASE ReadFails
  BY <1>3 DEF ReadFails, IInv, TypeOK, ReadInv, LossBounded
<1>4. CASE UNCHANGED vars
  BY <1>4 DEF vars, IInv, TypeOK, ReadInv, LossBounded
<1> QED
  BY <1>1, <1>2, <1>3, <1>4 DEF Next

(* IInv is inductive.                                                      *)
THEOREM HeaderInvariant == Spec => []IInv
BY InitIInv, NextIInv, PTL DEF Spec

(* The stream and the two buffers hold bytes, and what was parsed came out *)
(* of a buffer of the length the preamble asked for.                       *)
THEOREM HeaderTypeCorrect == Spec => []TypeOK
<1>1. IInv => TypeOK
  BY DEF IInv
<1> QED
  BY <1>1, HeaderInvariant, PTL

(* At each stage the stream holds what is left of the header and then the  *)
(* payload, and the buffers what was in front of it, as long as the Reads  *)
(* were whole; a short first Read leaves one byte of the preamble behind.  *)
THEOREM ReadsLeaveTheRest == Spec => []ReadInv
<1>1. IInv => ReadInv
  BY DEF IInv
<1> QED
  BY <1>1, HeaderInvariant, PTL

-----------------------------------------------------------------------------
(* A header that both Reads take in whole reaches the dialer as the client *)
(* wrote it, and the stream is left at the first byte of the payload.      *)
THEOREM HeaderReachesServer == Spec => []HeaderDelivered
<1>1. IInv => HeaderDelivered
  <2> SUFFICES ASSUME IInv, stage = "parsed", whole
               PROVE  LET parsed == Parsed(preamble, byteInput) IN
                      /\ SameAddr(parsed.source, header.source)
                      /\ SameAddr(parsed.dest, header.dest)
                      /\ wire = payload
    BY DEF HeaderDelivered
  <2>1. /\ preamble = Preamble(header) /\ byteInput = Addresses(header)
        /\ wire = payload
    BY DEF IInv, ReadInv
  <2>2. header \in Header
    BY DEF IInv, TypeOK
  <2> QED
    BY <2>1, <2>2, RoundTrip
<1> QED
  BY <1>1, HeaderInvariant, PTL

(* Whatever the Reads return, GetQpepHeader never asks for less than the   *)
(* addresses, and for more only after a preamble read short in front of an *)
(* IPv4 destination.                                                       *)
THEOREM AsksForEnough == Spec => []NeverAsksForLess
<1>1. IInv => NeverAsksForLess
  <2> SUFFICES ASSUME IInv, stage = "addresses"
               PROVE  /\ AddressesLength(preamble) >= Len(Addresses(header))
                      /\ AddressesLength(preamble) > Len(Addresses(header)) =>
                           ~whole /\ getNetworkTypeFromAddr(header.dest) = 4
    BY DEF NeverAsksForLess
  <2>1. header \in Header
    BY DEF IInv, TypeOK
  <2>2. CASE whole
    <3>1. preamble = Preamble(header)
      BY <2>2 DEF IInv, ReadInv
    <3>2. /\ Len(Addresses(header)) = AddressesLength(preamble)
          /\ AddressesLength(preamble) \in Nat
      BY <2>1, <3>1, HeaderBytes
    <3> QED
      BY <3>2
  <2>3. CASE ~whole
    <3>1. preamble = <<Preamble(header)[1], 0>>
      BY <2>3 DEF IInv, ReadInv
    <3> QED
      BY <2>1, <2>3, <3>1, MisreadLength
  <2> QED
    BY <2>2, <2>3
<1> QED
  BY <1>1, HeaderInvariant, PTL

(* The two Reads take payload for header only after a preamble read short, *)
(* and never more than Mapping - 1 bytes of it.                            *)
THEOREM PayloadLossBounded == Spec => []LossBounded
<1>1. IInv => LossBounded
  BY DEF IInv
<1> QED
  BY <1>1, HeaderInvariant, PTL

-----------------------------------------------------------------------------
(* A slice has the length it is asked for and the bytes behind the first k. *)
LEMMA Slice ==
  ASSUME NEW s \in Seq(Byte), NEW k \in Nat, NEW n \in Nat, k + n <= Len(s)
  PROVE  /\ SubSeq(s, k + 1, k + n) \in Seq(Byte)
         /\ Len(SubSeq(s, k + 1, k + n)) = n
         /\ \A i \in 1 .. n : SubSeq(s, k + 1, k + n)[i] = s[k + i]
<1>1. SubSeq(s, k + 1, k + n) \in Seq(Byte)
  OBVIOUS
<1>2. Len(SubSeq(s, k + 1, k + n)) = n
  OBVIOUS
<1>3. ASSUME NEW i \in 1 .. n PROVE SubSeq(s, k + 1, k + n)[i] = s[k + i]
  OBVIOUS
<1> QED
  BY <1>1, <1>2, <1>3

(* Behind the preamble, QpepHeaderFromBytes finds the address that         *)
(* GetQpepHeader finds in its second buffer.                               *)
LEMMA AddrBehindPreamble ==
  ASSUME NEW p \in Seq(Byte), NEW s \in Seq(Byte),
         NEW k \in Nat, NEW n \in Nat, k + n + 2 <= Len(s)
  PROVE  AddrAfter(p \o s, Len(p) + k, n) = AddrAfter(s, k, n)
<1> DEFINE b == p \o s
<1>1. b \in Seq(Byte) /\ Len(b) = Len(p) + Len(s) /\ Len(s) \in Nat /\ Len(p) \in Nat
  BY ConcatLength
<1>2. \A i \in 1 .. Len(s) : b[Len(p) + i] = s[i]
  BY FromTheRight
<1> HIDE DEF b
<1>3. SubSeq(b, (Len(p) + k) + 1, (Len(p) + k) + n) = SubSeq(s, k + 1, k + n)
  <2> DEFINE front == SubSeq(b, (Len(p) + k) + 1, (Len(p) + k) + n)
             behind == SubSeq(s, k + 1, k + n)
  <2>1. /\ front \in Seq(Byte) /\ Len(front) = n
        /\ \A i \in 1 .. n : front[i] = b[(Len(p) + k) + i]
    <3> DEFINE m == Len(p) + k
    <3> HIDE DEF front, behind
    <3>1. m \in Nat /\ m + n <= Len(b)
      BY <1>1
    <3>2. front = SubSeq(b, m + 1, m + n)
      BY DEF front
    <3> HIDE DEF m
    <3>3. /\ SubSeq(b, m + 1, m + n) \in Seq(Byte) /\ Len(SubSeq(b, m + 1, m + n)) = n
          /\ \A i \in 1 .. n : SubSeq(b, m + 1, m + n)[i] = b[m + i]
      BY <1>1, <3>1, Slice
    <3> QED
      BY <3>2, <3>3 DEF m
  <2>2. /\ behind \in Seq(Byte) /\ Len(behind) = n
        /\ \A i \in 1 .. n : behind[i] = s[k + i]
    <3>1. k + n <= Len(s)
      BY <1>1
    <3> QED
      BY <3>1, Slice
  <2>3. \A i \in 1 .. n : b[(Len(p) + k) + i] = s[k + i]
    <3> SUFFICES ASSUME NEW i \in 1 .. n PROVE b[(Len(p) + k) + i] = s[k + i]
      OBVIOUS
    <3>1. k + i \in 1 .. Len(s) /\ (Len(p) + k) + i = Len(p) + (k + i)
      BY <1>1
    <3> QED
      BY <1>2, <3>1
  <2> HIDE DEF front, behind
  <2>4. \A i \in 1 .. n : front[i] = behind[i]
    BY <2>1, <2>2, <2>3
  <2>5. front = behind
    BY <2>1, <2>2, <2>4, SeqEqual
  <2> QED
    BY <2>5 DEF front, behind
<1>4. /\ b[(Len(p) + k) + n + 1] = s[k + n + 1]
      /\ b[(Len(p) + k) + n + 2] = s[k + n + 2]
  <2>1. k + n + 1 \in 1 .. Len(s) /\ k + n + 2 \in 1 .. Len(s)
    BY <1>1
  <2>2. b[Len(p) + (k + n + 1)] = s[k + n + 1] /\ b[Len(p) + (k + n + 2)] = s[k + n + 2]
    BY <1>2, <2>1
  <2> QED
    BY <2>2
<1> QED
  BY <1>3, <1>4 DEF AddrAfter, b

(* With IP addresses of more than two bytes, as they are, GetHeaderLength  *)
(* counts what ToBytes writes and QpepHeaderFromBytes reads what           *)
(* GetQpepHeader reads, unless its last slice lies beyond the header,      *)
(* which it does for every IPv4 source and for no other.                   *)
THEOREM ReadersMostlyAgree == IPv4len > 2 => (Spec => []ReadersAgree)
<1>1. ASSUME IPv4len > 2, IInv PROVE ReadersAgree
  <2> SUFFICES ASSUME stage = "parsed", whole
               PROVE  LET bytes == ToBytes(header) IN
                      /\ GetHeaderLength(preamble) = Len(bytes)
                      /\ FromBytesFits(bytes) <=> preamble[1] # 4
                      /\ FromBytesFits(bytes) =>
                           QpepHeaderFromBytes(bytes) = Parsed(preamble, byteInput)
    BY DEF ReadersAgree
  <2> DEFINE P == Preamble(header)
             A == Addresses(header)
             bytes == ToBytes(header)
  <2>1. preamble = P /\ byteInput = A
    BY <1>1 DEF IInv, ReadInv
  <2>2. header \in Header
    BY <1>1 DEF IInv, TypeOK
  <2>3. /\ P[1] \in {4, 6} /\ P[2] \in {4, 6} /\ P \in Seq(Byte) /\ Len(P) = 2
        /\ A \in Seq(Byte) /\ Len(A) = AddressesLength(P)
    BY <2>2, HeaderBytes
  <2>4. bytes = P \o A /\ Len(bytes) = 2 + Len(A) /\ Len(A) \in Nat
    BY <2>2, ToBytesLength DEF ToBytes
  <2>5. bytes[1] = P[1] /\ bytes[2] = P[2]
    BY <2>3, <2>4, FromTheLeft
  <2>6. /\ IPLength(P[1]) \in Nat /\ IPLength(P[2]) \in Nat
        /\ P[1] = 4 => IPLength(P[1]) = IPv4len
        /\ P[1] # 4 => IPLength(P[1]) = IPv6len
    BY <2>3 DEF IPLength
  <2> HIDE DEF P, A, bytes
  <2>7. Len(A) = IPLength(P[1]) + 2 + IPLength(P[2]) + 2
    BY <2>3 DEF AddressesLength
  <2>8. GetHeaderLength(preamble) = Len(bytes)
    BY <2>1, <2>4, <2>6, <2>7 DEF GetHeaderLength, QPEP_PREAMBLE_LENGTH
  <2>9. FromBytesFits(bytes) <=> preamble[1] # 4
    <3>1. CASE P[1] = 4
      <4>1. FromBytesSourceEnd(bytes) = 2 * IPv4len
        BY <2>5, <3>1 DEF FromBytesSourceEnd, QPEP_PREAMBLE_LENGTH
      <4> QED
        BY <1>1, <2>1, <2>4, <2>5, <2>6, <2>7, <3>1, <4>1 DEF FromBytesFits
    <3>2. CASE P[1] # 4
      <4>1. FromBytesSourceEnd(bytes) = 2 + IPv6len
        BY <2>5, <3>2 DEF FromBytesSourceEnd, QPEP_PREAMBLE_LENGTH
      <4> QED
        BY <2>1, <2>4, <2>5, <2>6, <2>7, <3>2, <4>1 DEF FromBytesFits
    <3> QED
      BY <3>1, <3>2
  <2>10. ASSUME P[1] # 4 PROVE QpepHeaderFromBytes(bytes) = Parsed(P, A)
    <3> DEFINE n == IPLength(P[1])
               k == IPLength(P[2])
    <3>1. n \in Nat /\ k \in Nat /\ n = IPv6len /\ Len(A) = n + 2 + k + 2
      BY <2>6, <2>7, <2>10
    <3>2. QpepHeaderFromBytes(bytes) =
            [source |-> AddrAfter(bytes, 2, (2 + n) - 2),
             dest   |-> AddrAfter(bytes, (2 + n) + 2, k)]
      BY <2>5, <2>10, <3>1
         DEF QpepHeaderFromBytes, FromBytesSourceEnd, QPEP_PREAMBLE_LENGTH
    <3>3. Parsed(P, A) = [source |-> AddrAfter(A, 0, n), dest |-> AddrAfter(A, n + 2, k)]
      BY DEF Parsed
    <3> HIDE DEF n, k
    <3>4. ASSUME NEW l \in Nat, NEW j \in Nat, j + l + 2 <= Len(A)
          PROVE  AddrAfter(P \o A, Len(P) + j, l) = AddrAfter(A, j, l)
      <4>1. P \in Seq(Byte) /\ A \in Seq(Byte)
        BY <2>3
      <4> QED
        BY <3>4, <4>1, AddrBehindPreamble
    <3>5. /\ AddrAfter(P \o A, Len(P) + 0, n) = AddrAfter(A, 0, n)
          /\ AddrAfter(P \o A, Len(P) + (n + 2), k) = AddrAfter(A, n + 2, k)
      <4>1. /\ 0 \in Nat /\ 0 + n + 2 <= Len(A)
            /\ n + 2 \in Nat /\ (n + 2) + k + 2 <= Len(A)
        BY <3>1
      <4> QED
        BY <3>1, <3>4, <4>1, Zenon
    <3>6. /\ Len(P) + 0 = 2 /\ (2 + n) - 2 = n
          /\ Len(P) + (n + 2) = (2 + n) + 2
      BY <2>3, <3>1
    <3> QED
      BY <2>4, <3>2, <3>3, <3>5, <3>6
  <2> QED
    BY <2>1, <2>8, <2>9, <2>10 DEF bytes
<1>2. ASSUME IPv4len > 2 PROVE Spec => []ReadersAgree
  <2>1. IInv => ReadersAgree
    BY <1>1, <1>2
  <2> QED
    BY <2>1, HeaderInvariant, PTL
<1> QED
  BY <1>2
=============================================================================
