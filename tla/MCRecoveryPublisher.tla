------------------------ MODULE MCRecoveryPublisher ------------------------
(* An instance of RecoveryPublisher for TLC: two addresses, and a process id *)
(* more than the script needs.                                              *)
EXTENDS RecoveryPublisherProofs
=============================================================================
