-------------------------- MODULE MCNetworkQueries --------------------------
(* An instance of NetworkQueries for TLC: three access points of one network, *)
(* two of them with the same BSSID.                                           *)
EXTENDS NetworkQueries, TLC

CONSTANTS a1, a2, a3
Symmetry == Permutations(Profiles)

ApRecord(b, q) == [ssid |-> "net", secured |-> TRUE, bssid |-> b, strength |-> q]
MCInfo == [a \in {a1, a2, a3} |-> IF a = a1 THEN ApRecord("b1", 1)
                                  ELSE IF a = a2 THEN ApRecord("b1", 2)
                                  ELSE ApRecord("b2", 1)]
=============================================================================
