------------------------ MODULE MCNetworkTransaction ------------------------
(* Instances of NetworkTransaction for TLC. In TxnTimeout and TxnCrash one    *)
(* tick is five seconds.                                                      *)
EXTENDS NetworkTransaction
=============================================================================
