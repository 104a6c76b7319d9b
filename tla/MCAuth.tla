-------------------------------- MODULE MCAuth --------------------------------
EXTENDS Auth

\* "", "a", "ab", "abc" (0, 1, 2 and 3 bytes: every padding case) and
\* ":\xff" (a colon inside a field, and a byte with every bit set).
MCStrings == {<<>>, <<97>>, <<97, 98>>, <<97, 98, 99>>, <<58, 255>>}
MCGcpTokens == {<<103>>}
====
