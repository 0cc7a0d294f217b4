---------------------------- MODULE MCChangesets ----------------------------
(* Two changesets that share a file, one of them behind an approval.       *)
EXTENDS Changesets, TLC

CONSTANTS big, small, f, g, r, applyPatch, paramsBig, other, a1, k1, k2

MCFilesOf == big :> <<f, g>> @@ small :> <<g>>
MCActionOf == big :> paramsBig @@ small :> paramsBig
MCRunOf == paramsBig :> r @@ other :> r
MCToolOf == paramsBig :> applyPatch @@ other :> applyPatch

MCSymmetry == Permutations(Caller)
=============================================================================
