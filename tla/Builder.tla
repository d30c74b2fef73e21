------------------------------- MODULE Builder -------------------------------
(***************************************************************************)
(* Numbers as the bytes the program sends (PacketBuilder.cc, htonl, htons)  *)
(* and back (ntohl, ntohs).                                                *)
(***************************************************************************)
EXTENDS Naturals, Sequences

Byte == 0 .. 255

\* A number in network order, in two and in four bytes.
Bytes2(x) == << (x \div 256) % 256, x % 256 >>
Bytes4(x) == << (x \div 16777216) % 256, (x \div 65536) % 256, (x \div 256) % 256, x % 256 >>

Value2(bs) == 256 * bs[1] + bs[2]
Value4(bs) == 16777216 * bs[1] + 65536 * bs[2] + 256 * bs[3] + bs[4]
=============================================================================
