--------------------------- MODULE MCHostnameSet ---------------------------
(* Instances of HostnameSet for TLC: one name is typed in mixed case, and  *)
(* the requests are interchangeable.                                       *)
EXTENDS HostnameSet, TLC

CONSTANTS Mixed, Plain, Other

MCNames == {Mixed, Plain, Other}
MCLower == [n \in MCNames \cup {AltName} |-> IF n = Mixed THEN Plain ELSE n]
RequestSymmetry == Permutations(Requests)
=============================================================================
