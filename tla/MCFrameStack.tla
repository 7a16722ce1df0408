---------------------------- MODULE MCFrameStack ----------------------------
(* FrameStack instantiated for TLC: an externally owned root, one         *)
(* contract, the cross-space contract, two addresses CREATE may deploy   *)
(* to; one storage slot; one log datum.                                   *)
EXTENDS FrameStack

CONSTANTS r, c, x, n1, n2, k, d

MCAddr == {r, c, x, n1, n2}
MCInitStorage == [a \in MCAddr |-> [key \in {k} |-> 0]]
MCInitBalance == (r :> 1) @@ [a \in MCAddr \ {r} |-> 0]
=============================================================================
