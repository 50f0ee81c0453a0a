----------------------------- MODULE MCFrontEnds -----------------------------
(* Model-checking instances of FrontEnds.                                    *)
EXTENDS FrontEnds
CONSTANTS p, q
Spellings == {Id(p), Hex(p), Prefix({p, q})}
=============================================================================
