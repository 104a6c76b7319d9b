-------------------------------- MODULE Base64 --------------------------------
(***************************************************************************)
(* The base64 crate (0.13, STANDARD alphabet) that auth.rs and the base64  *)
(* preprocessor call. The crate is not part of this repository: encode is  *)
(* RFC 4648 with '=' padding; decode accepts padded or unpadded text and   *)
(* rejects a symbol outside the alphabet, padding before the end, a        *)
(* length of 1 mod 4, and non-zero unused bits in the last symbol.         *)
(*                                                                         *)
(* A byte is 0..255; a base64 text is a sequence of alphabet indices       *)
(* 0..63, with Pad for '=' and Bad for any byte outside the alphabet.      *)
(***************************************************************************)
EXTENDS Integers, Sequences, SequencesExt

Pad == 64
Bad == 65
Colon == 58   \* ':'

\* The i-th 6-bit group, counting from the right, of n.
Sym(n, i) == (n \div 2^(6 * i)) % 64

(* base64::encode: each 3-byte group becomes 4 symbols; a final group of   *)
(* 1 or 2 bytes is zero-filled and padded with '=' to 4 symbols.           *)
RECURSIVE Encode(_)
Encode(b) ==
    CASE Len(b) = 0 -> <<>>
      [] Len(b) = 1 -> LET n == b[1] * 2^16
                       IN <<Sym(n, 3), Sym(n, 2), Pad, Pad>>
      [] Len(b) = 2 -> LET n == b[1] * 2^16 + b[2] * 2^8
                       IN <<Sym(n, 3), Sym(n, 2), Sym(n, 1), Pad>>
      [] OTHER -> LET n == b[1] * 2^16 + b[2] * 2^8 + b[3]
                  IN <<Sym(n, 3), Sym(n, 2), Sym(n, 1), Sym(n, 0)>>
                       \o Encode(SubSeq(b, 4, Len(b)))

\* The text without its trailing '=' (at most two).
StripPad(s) ==
    IF Len(s) >= 2 /\ s[Len(s)] = Pad /\ s[Len(s) - 1] = Pad THEN SubSeq(s, 1, Len(s) - 2)
    ELSE IF Len(s) >= 1 /\ s[Len(s)] = Pad THEN SubSeq(s, 1, Len(s) - 1)
    ELSE s

\* Bytes of a group of 2..4 symbols: 1, 2 or 3 bytes.
GroupBytes(g) ==
    LET n == FoldLeft(LAMBDA acc, x : acc * 64 + x, 0, g) * 2^(6 * (4 - Len(g)))
    IN [i \in 1..(Len(g) - 1) |-> (n \div 2^(8 * (3 - i))) % 256]

\* The unused low bits of the last symbol of a short final group are zero.
CleanTail(g) ==
    CASE Len(g) = 2 -> g[2] % 16 = 0
      [] Len(g) = 3 -> g[3] % 4 = 0
      [] OTHER -> TRUE

RECURSIVE DecodeBody(_)
DecodeBody(s) ==
    IF Len(s) <= 4 THEN GroupBytes(s)
    ELSE GroupBytes(SubSeq(s, 1, 4)) \o DecodeBody(SubSeq(s, 5, Len(s)))

\* Whether base64::decode accepts the text s.
Decodable(s) ==
    LET body == StripPad(s)
        tail == SubSeq(body, 4 * ((Len(body) - 1) \div 4) + 1, Len(body))
    IN /\ \A i \in DOMAIN body : body[i] \in 0..63
       /\ Len(body) % 4 # 1
       /\ body # s => Len(s) % 4 = 0
       /\ body # <<>> => CleanTail(tail)

(* base64::decode: Ok(bytes) or Err.                                       *)
Decode(s) ==
    IF Decodable(s)
    THEN [ok |-> TRUE, v |-> IF StripPad(s) = <<>> THEN <<>> ELSE DecodeBody(StripPad(s))]
    ELSE [ok |-> FALSE, v |-> <<>>]

-----------------------------------------------------------------------------
(* Reference definition of the encoding, bit by bit: the bytes' bits,      *)
(* most significant first, zero-filled to a multiple of 6, read 6 at a     *)
(* time, then '=' up to a multiple of 4 symbols.                           *)
Bits(x, w) == [i \in 1..w |-> (x \div 2^(w - i)) % 2]
BitsOf(b) == FlattenSeq([i \in DOMAIN b |-> Bits(b[i], 8)])
EncodeRef(b) ==
    LET bits == BitsOf(b)
        nsym == (Len(bits) + 5) \div 6
        filled == bits \o [i \in 1..(6 * nsym - Len(bits)) |-> 0]
        syms == [j \in 1..nsym |->
                    FoldLeft(LAMBDA acc, x : 2 * acc + x, 0, SubSeq(filled, 6 * j - 5, 6 * j))]
    IN syms \o [i \in 1..((4 - (nsym % 4)) % 4) |-> Pad]

\* Byte strings of length at most 3 over bytes that set every bit position.
SampleBytes == {0, 1, 63, 64, 128, 170, 255}
SampleStrings == UNION {[1..n -> SampleBytes] : n \in 0..3}

\* The recursive encoder agrees with the bit-level reference, and decoding
\* inverts it.
ASSUME \A b \in SampleStrings : Encode(b) = EncodeRef(b)
ASSUME \A b \in SampleStrings : Decode(Encode(b)) = [ok |-> TRUE, v |-> b]

=============================================================================
