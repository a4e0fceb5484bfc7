----------------------------- MODULE MCWifiScan -----------------------------
(* Instances of WifiScan for TLC; one tick is about seven seconds. *)
EXTENDS WifiScan, TLC

RequestSymmetry == Permutations(Requests)
=============================================================================
