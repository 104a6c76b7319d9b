------------------------- MODULE MCBase64Preprocessor -------------------------
EXTENDS Base64Preprocessor

\* Texts of up to 4 symbols over: 'A' (0), 'Q' (16, unused bits set in a
\* 2-symbol tail), 'E' (4, unused bits set in a 3-symbol tail), '/' (63),
\* '=' and a byte outside the alphabet.
MCTexts == UNION {[1..n -> {0, 16, 4, 63, Pad, Bad}] : n \in 0..4}
====
