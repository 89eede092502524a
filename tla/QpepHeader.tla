----------------------------- MODULE QpepHeader -----------------------------
(***************************************************************************)
(* The header in front of every stream, byte by byte: what the client      *)
(* writes (ToBytes), and what the server's two Reads make of it            *)
(* (GetQpepHeader) when a Read may return before its buffer is full.       *)
(* Relay counts the header's units; here they have values.                 *)
(*                                                                         *)
(* An address has no zone: the header has no place for one.                *)
(***************************************************************************)
EXTENDS Integers, Sequences

CONSTANTS
  IPv4len, IPv6len, \* of package net, in bytes
  Address,          \* the TCPAddr values connections have
  Payload           \* what the client may have written behind the header

Byte == 0 .. 255
Port == 0 .. 65535
Mapping == IPv6len - IPv4len  \* length of the prefix ::ffff: of a mapped IPv4

ASSUME LengthAssumption ==
  /\ IPv4len \in Nat \ {0}
  /\ IPv6len \in Nat
  /\ Mapping >= 2

ASSUME AddressAssumption ==
  /\ Address \subseteq [ip : Seq(Byte), port : Port]
  /\ \A a \in Address : Len(a.ip) \in {IPv4len, IPv6len}

ASSUME PayloadAssumption == Payload \subseteq Seq(Byte)

QPEP_PREAMBLE_LENGTH == 2

-----------------------------------------------------------------------------
(* Package net.                                                            *)

MappedPrefix == [i \in 1 .. Mapping |-> IF i > Mapping - 2 THEN 255 ELSE 0]

HasFourBytes(ip) ==
  \/ Len(ip) = IPv4len
  \/ Len(ip) = IPv6len /\ SubSeq(ip, 1, Mapping) = MappedPrefix

To4(ip) == IF Len(ip) = IPv4len THEN ip ELSE SubSeq(ip, Mapping + 1, IPv6len)
To16(ip) == IF Len(ip) = IPv4len THEN MappedPrefix \o ip ELSE ip

\* IP.Equal and equal ports: the two dial the same destination.
SameAddr(a, b) == To16(a.ip) = To16(b.ip) /\ a.port = b.port

-----------------------------------------------------------------------------
(* Writing.                                                                *)

\* An address has an IP of one of the two lengths: type 0 does not occur.
getNetworkTypeFromAddr(addr) == IF HasFourBytes(addr.ip) THEN 4 ELSE 6

ipToBytes(ip, type) == IF type = 4 THEN To4(ip) ELSE To16(ip)

\* Mutant: no truncation to a byte.
portToBytesWide(port) == <<port, port \div 256>>

\* Mutant: network byte order on one side only.
portToBytesBigEndian(port) == <<(port \div 256) % 256, port % 256>>

portToBytes(port) == <<port % 256, (port \div 256) % 256>>

addrToBytes(addr) ==
  ipToBytes(addr.ip, getNetworkTypeFromAddr(addr)) \o portToBytes(addr.port)

Preamble(h) ==
  <<getNetworkTypeFromAddr(h.source), getNetworkTypeFromAddr(h.dest)>>

Addresses(h) == addrToBytes(h.source) \o addrToBytes(h.dest)

ToBytes(h) == Preamble(h) \o Addresses(h)

-----------------------------------------------------------------------------
(* Reading.                                                                *)

\* Mutant: an unknown type means the short address, not the long one.
IPLengthUnless6(type) == IF type = 6 THEN IPv6len ELSE IPv4len

IPLength(type) == IF type = 4 THEN IPv4len ELSE IPv6len

\* Mutant: one buffer for the longest header there is.
AddressesLengthLongest(p) == 2 * (IPv6len + 2)

\* destPortEnd: the size of the second Read's buffer.
AddressesLength(p) == IPLength(p[1]) + 2 + IPLength(p[2]) + 2

\* Mutant: the preamble is not counted.
GetHeaderLengthNoPreamble(p) == IPLength(p[1]) + IPLength(p[2]) + 4

GetHeaderLength(p) ==
  QPEP_PREAMBLE_LENGTH + IPLength(p[1]) + IPLength(p[2]) + 4

\* The address of length n behind the first k bytes.
AddrAfter(bytes, k, n) ==
  [ip   |-> SubSeq(bytes, k + 1, k + n),
   port |-> bytes[k + n + 1] + 256 * bytes[k + n + 2]]

Parsed(p, bytes) ==
  LET sourceIpEnd == IPLength(p[1]) IN
  [source |-> AddrAfter(bytes, 0, sourceIpEnd),
   dest   |-> AddrAfter(bytes, sourceIpEnd + 2, IPLength(p[2]))]

\* QpepHeaderFromBytes, which nothing calls: the end of the source's IP, which
\* is a product for IPv4 and a sum for IPv6, ...
FromBytesSourceEnd(bytes) ==
  IF bytes[1] = 4 THEN QPEP_PREAMBLE_LENGTH * IPv4len
                  ELSE QPEP_PREAMBLE_LENGTH + IPv6len

\* ... whether the last slice ends within the bytes, ...
FromBytesFits(bytes) ==
  FromBytesSourceEnd(bytes) + 2 + IPLength(bytes[2]) + 2 <= Len(bytes)

\* ... and the header it returns.
QpepHeaderFromBytes(bytes) ==
  LET sourceIpEnd == FromBytesSourceEnd(bytes) IN
  [source |-> AddrAfter(bytes, QPEP_PREAMBLE_LENGTH, sourceIpEnd - QPEP_PREAMBLE_LENGTH),
   dest   |-> AddrAfter(bytes, sourceIpEnd + 2, IPLength(bytes[2]))]

-----------------------------------------------------------------------------
VARIABLES
  header,    \* what the client has put into the stream
  payload,   \* ... and what it has written behind it
  wire,      \* the bytes of the stream the server has not read
  stage,     \* where GetQpepHeader is
  preamble,  \* its first buffer
  byteInput, \* its second buffer
  whole      \* both Reads so far have filled their buffers

vars == <<header, payload, wire, stage, preamble, byteInput, whole>>

Header == [source : Address, dest : Address]

Init ==
  /\ header \in Header
  /\ payload \in Payload
  /\ wire = ToBytes(header) \o payload
  /\ stage = "preamble"
  /\ preamble = <<0, 0>>
  /\ byteInput = <<>>
  /\ whole = TRUE

Lesser(a, b) == IF a < b THEN a ELSE b

\* A made buffer of size bytes after Read has put n of the stream's into it.
Filled(size, n) == [i \in 1 .. size |-> IF i <= n THEN wire[i] ELSE 0]

\* Read returns some of what has arrived; n is not looked at.
Reads(size, n) ==
  /\ n \in 1 .. Lesser(size, Len(wire))
  /\ wire' = SubSeq(wire, n + 1, Len(wire))
  /\ whole' = (whole /\ n = size)

ReadPreamble ==
  /\ stage = "preamble"
  /\ \E n \in 1 .. QPEP_PREAMBLE_LENGTH :
       /\ Reads(QPEP_PREAMBLE_LENGTH, n)
       /\ preamble' = Filled(QPEP_PREAMBLE_LENGTH, n)
  /\ stage' = "addresses"
  /\ UNCHANGED <<header, payload, byteInput>>

ReadAddresses ==
  LET size == AddressesLength(preamble) IN
  /\ stage = "addresses"
  /\ \E n \in 1 .. size :
       /\ Reads(size, n)
       /\ byteInput' = Filled(size, n)
  /\ stage' = "parsed"
  /\ UNCHANGED <<header, payload, preamble>>

\* Either Read errs: no header.
ReadFails ==
  /\ stage \in {"preamble", "addresses"}
  /\ stage' = "failed"
  /\ UNCHANGED <<header, payload, wire, preamble, byteInput, whole>>

Next == ReadPreamble \/ ReadAddresses \/ ReadFails

Spec == Init /\ [][Next]_vars

-----------------------------------------------------------------------------
(* Properties.                                                             *)

\* What is left in the stream at each stage, and what the buffers hold.
ReadInv ==
  /\ stage = "preamble" => whole /\ wire = ToBytes(header) \o payload
  /\ stage = "addresses" =>
       IF whole
       THEN preamble = Preamble(header) /\ wire = Addresses(header) \o payload
       ELSE /\ preamble = <<Preamble(header)[1], 0>>
            /\ Len(wire) = 1 + Len(Addresses(header)) + Len(payload)
  /\ stage = "parsed" /\ whole =>
       /\ preamble = Preamble(header)
       /\ byteInput = Addresses(header)
       /\ wire = payload

\* Types: what GetQpepHeader holds between its Reads are buffers of bytes of
\* the sizes it has made, and no Read returns more than was written.
TypeOK ==
  /\ header \in Header
  /\ payload \in Payload
  /\ wire \in Seq(Byte) /\ Len(wire) <= Len(ToBytes(header)) + Len(payload)
  /\ stage \in {"preamble", "addresses", "parsed", "failed"}
  /\ preamble \in [1 .. 2 -> Byte]
  /\ byteInput \in Seq(Byte)
  /\ stage = "parsed" => Len(byteInput) = AddressesLength(preamble)
  /\ whole \in BOOLEAN

\* If both Reads fill their buffers, GetQpepHeader returns the addresses that
\* ToBytes was given, whether IPv4, IPv4 mapped into IPv6 or IPv6, and leaves
\* exactly the payload in the stream for io.Copy to relay.
HeaderDelivered ==
  stage = "parsed" /\ whole =>
    LET parsed == Parsed(preamble, byteInput) IN
    /\ SameAddr(parsed.source, header.source)
    /\ SameAddr(parsed.dest, header.dest)
    /\ wire = payload

\* A preamble read short makes the second Read ask for more than the addresses,
\* never for less, and for more only if the destination is IPv4 (Relay assumes
\* this of LongAddressLen).
NeverAsksForLess ==
  stage = "addresses" =>
    /\ AddressesLength(preamble) >= Len(Addresses(header))
    /\ AddressesLength(preamble) > Len(Addresses(header)) =>
         ~whole /\ getNetworkTypeFromAddr(header.dest) = 4

\* Short Reads of GetQpepHeader swallow payload only after a preamble read short,
\* and then at most the difference of the two lengths of IP, less the type byte
\* that was left over.
LossBounded ==
  \/ Len(wire) >= Len(payload)
  \/ /\ preamble # Preamble(header)
     /\ Len(wire) >= Len(payload) - (Mapping - 1)

\* GetHeaderLength gives the length of what ToBytes writes, and
\* QpepHeaderFromBytes parses it like GetQpepHeader, except that for an IPv4
\* source its last slice lies beyond the header.
ReadersAgree ==
  stage = "parsed" /\ whole =>
    LET bytes == ToBytes(header) IN
    /\ GetHeaderLength(preamble) = Len(bytes)
    /\ FromBytesFits(bytes) <=> preamble[1] # 4
    /\ FromBytesFits(bytes) =>
         QpepHeaderFromBytes(bytes) = Parsed(preamble, byteInput)
=============================================================================
