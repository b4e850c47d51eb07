----------------------------- MODULE MCExcFrame -----------------------------
(* The instance of ExcFrame for TLC.                                        *)
EXTENDS ExcFrame

MCFpdscrs == {-7}
=============================================================================
