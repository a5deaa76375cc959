------------------------------ MODULE MCLakeSink ------------------------------
(* Two interchangeable callers, two episodes of one partition that share a *)
(* blob, and outcomes.                                                     *)
EXTENDS LakeSink, TLC

MCPartOf == <<1, 1, 2>>
MCBlobOf == <<1, 1, 0>>
CallerSymmetry == Permutations(Callers)
=============================================================================
