----------------------------- MODULE MCRunLoop -----------------------------
(* Instances of RunLoop for TLC: one range step over the thread's loop.     *)
EXTENDS RunLoop

MCRanges == {{0}}
=============================================================================
