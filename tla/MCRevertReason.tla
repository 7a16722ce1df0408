--------------------------- MODULE MCRevertReason ---------------------------
(* Alphabets for RevertReason: ASCII only, ASCII with a two-byte character *)
(* (like e-acute), ASCII with a three-byte character (like the CJK         *)
(* characters of the test in executed.rs).                                 *)
EXTENDS RevertReason

CONSTANTS a, b, e2, zh

AsciiWidth == (a :> 1) @@ (b :> 1)
TwoByteWidth == (a :> 1) @@ (e2 :> 2)
ThreeByteWidth == (a :> 1) @@ (zh :> 3)
=============================================================================
