-------------------------- MODULE Base64Preprocessor --------------------------
(***************************************************************************)
(* The base64 preprocessor (src/src/preprocessor/base64.rs): process turns *)
(* one chunk of base64 text into one chunk of raw bytes, or fails.         *)
(***************************************************************************)
EXTENDS Base64

CONSTANT Texts   \* the chunks the preprocessor may receive

VARIABLES data, out
vars == <<data, out>>

Pending == [st |-> "pending"]
Err == [st |-> "err"]
Ok(chunks) == [st |-> "ok", v |-> chunks]

\* A decode failure turned into no output instead of an error.
ProcessDropErr(d) == IF Decode(d).ok THEN Ok(<<Decode(d).v>>) ELSE Ok(<<>>)
\* The input passed through undecoded.
ProcessRaw(d) == Ok(<<d>>)

(* Base64::process: Ok(vec![base64::decode(data)?]).                       *)
Process(d) == IF Decode(d).ok THEN Ok(<<Decode(d).v>>) ELSE Err

Init == data \in Texts /\ out = Pending

\* The preprocessor chain hands the chunk to process.
Preprocess == out = Pending /\ out' = Process(data) /\ UNCHANGED data

Next == Preprocess
Spec == Init /\ [][Next]_vars

-----------------------------------------------------------------------------
\* A result is pending, an error, or exactly one chunk of bytes.
TypeOK ==
    \/ out \in {Pending, Err}
    \/ out \in [st : {"ok"}, v : Seq(Seq(0..255))] /\ Len(out.v) = 1

\* The text with '=' added up to a multiple of 4 symbols.
Padded(s) == StripPad(s) \o [i \in 1..((4 - (Len(StripPad(s)) % 4)) % 4) |-> Pad]

(* Whatever process accepts is the encoding of the bytes it returns: the   *)
(* chunk re-encodes to the input text, up to omitted padding. Anything     *)
(* that is not such an encoding is an error, never a chunk.                *)
DecodeExact ==
    out.st = "ok" => Encode(out.v[1]) = Padded(data)
====
