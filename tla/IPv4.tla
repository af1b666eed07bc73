-------------------------------- MODULE IPv4 --------------------------------
(* InternetChecksum (src/util/checksum.hh), IPv4Header (ipv4_header.cc) and *)
(* IPv4Datagram (ipv4_datagram.hh).  Addresses are pairs of 16-bit words.   *)
EXTENDS Parser

LENGTH == 20
DEFAULT_TTL == 128
PROTO_TCP == 6

-----------------------------------------------------------------------------
(* The checksum.                                                            *)

\* Every other octet counts as the upper half of a word, across buffers.
ChecksumAdd(sum, data) ==
  LET Weight(i) == IF i % 2 = 1 THEN 256 ELSE 1
  IN  FoldLeft(LAMBDA s, i : s + data[i] * Weight(i), sum, [i \in DOMAIN data |-> i])

\* The carries of a sum of 32 bits are folded in after two turns of the loop.
ChecksumValue(sum) ==
  LET Folded(s) == (s \div 2^16) + (s % 2^16)
  IN  2^16 - 1 - Folded(Folded(sum))

-----------------------------------------------------------------------------
(* The header.                                                              *)

IPv4Widths == << 1, 1, 2, 2, 2, 1, 1, 2, 2, 2, 2, 2 >>

\* A header of datagrams that this program makes.
NewIPv4Header(src, dst) ==
  [ver |-> 4, hlen |-> LENGTH \div 4, tos |-> 0, len |-> 0, id |-> 0,
   df |-> TRUE, mf |-> FALSE, offset |-> 0, ttl |-> DEFAULT_TTL, proto |-> PROTO_TCP,
   cksum |-> 0, src |-> src, dst |-> dst]

SerializeHeader(h) ==
  LET fo_val == (IF h.df THEN 2^14 ELSE 0) + (IF h.mf THEN 2^13 ELSE 0) + h.offset
  IN  PutIntegers(<< h.ver * 16 + h.hlen, h.tos, h.len, h.id, fo_val, h.ttl, h.proto,
                     h.cksum, h.src[1], h.src[2], h.dst[1], h.dst[2] >>, IPv4Widths)

ComputeHeaderChecksum(h) ==
  [h EXCEPT !.cksum =
     ChecksumValue(ChecksumAdd(0, SerializeHeader([h EXCEPT !.cksum = 0])))]

PayloadLength(h) == (h.len - 4 * h.hlen) % 2^16

PseudoChecksum(h) ==
  h.src[1] + h.src[2] + h.dst[1] + h.dst[2] + h.proto + PayloadLength(h)

\* The checksum is taken over the fields that were kept: the reserved bit of
\* the third one is not.
HeaderOf(v) ==
  [ver |-> v[1] \div 16, hlen |-> v[1] % 16, tos |-> v[2], len |-> v[3], id |-> v[4],
   df |-> (v[5] \div 2^14) % 2 = 1, mf |-> (v[5] \div 2^13) % 2 = 1, offset |-> v[5] % 2^13,
   ttl |-> v[6], proto |-> v[7], cksum |-> v[8],
   src |-> << v[9], v[10] >>, dst |-> << v[11], v[12] >>]

\* Mutant of SameChecksum: the checksum is not verified.
ChecksumIgnored(given, computed) == TRUE

SameChecksum(given, computed) == given.cksum = computed.cksum

VerifyHeader(given, computed, p) ==
  [header |-> computed,
   parser |-> IF SameChecksum(given, computed) THEN p ELSE SetError(p)]

HeaderRead(header, p) ==
  IF p.error \/ header.ver # 4 \/ header.hlen < 5
    THEN [header |-> header, parser |-> SetError(p)]
    ELSE VerifyHeader(header, ComputeHeaderChecksum(header),
                      RemovePrefix(p, header.hlen * 4 - LENGTH))

ParseFields(read) == HeaderRead(HeaderOf(read.values), read.parser)

ParseHeader(p) == ParseFields(Integers(p, IPv4Widths))

-----------------------------------------------------------------------------
(* The datagram.                                                            *)

DatagramOf(header, p) == [header |-> header, payload |-> Remaining(p), valid |-> ~p.error]

ParsePayload(read) ==
  DatagramOf(read.header, Truncate(read.parser, PayloadLength(read.header)))

ParseDatagram(buffers) == ParsePayload(ParseHeader(NewParser(buffers)))

SerializeDatagram(dgram) == Finish(SerializeHeader(dgram.header), dgram.payload)
=============================================================================
