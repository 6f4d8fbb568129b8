----------------------------- MODULE ByteStream -----------------------------
(***************************************************************************)
(* The big-endian readers of ByteStream (utils/byte_stream.hpp, which is  *)
(* not part of the sources) over a byte sequence d, at the 0-based offset *)
(* p of the C++ pointer arithmetic: d[p + 1] is the byte *p.               *)
(***************************************************************************)
EXTENDS Naturals, Sequences

Read2Bytes(d, p) == d[p + 1] * 256 + d[p + 2]

Read4Bytes(d, p) == Read2Bytes(d, p) * 65536 + Read2Bytes(d, p + 2)

(* TLC's integers are 32-bit: the high word is scaled in two steps and   *)
(* must be 0 for the value to be representable.                          *)
Read8Bytes(d, p) == Read4Bytes(d, p) * 65536 * 65536 + Read4Bytes(d, p + 4)
=============================================================================
