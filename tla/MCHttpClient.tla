---------------------------- MODULE MCHttpClient ----------------------------
(* Model-checking instance of HttpClient: three events as model values.    *)
EXTENDS HttpClient

CONSTANTS e1, e2, e3, e4, e5

MCEvents == {e1, e2, e3}
MCEvents2 == {e1, e2}
\* Five events: enough dispatches to take the cursor past its wrap.
MCEvents5 == {e1, e2, e3, e4, e5}

(* usize is 64 bits; TLC's integers stop at 2^31 - 1. No run dispatches   *)
(* enough events for the cursor to come near either.                       *)
MCIdxWrap == 2^16

(* A stand-in for 2^64 with the same residue modulo a pool of 3 clients    *)
(* (2^64 = 1 mod 3, and 4 = 1 mod 3): the cursor wraps at the same point   *)
(* of the rotation as usize addition does in a release build.              *)
MCIdxWrapMod3 == 4
=============================================================================
