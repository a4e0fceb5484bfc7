--------------------------- MODULE MCServiceCalls ---------------------------
(* An instance of ServiceCalls for TLC: one tick is five seconds. The daemon's  *)
(* limit is below the client's, and lines have every length from the lower one  *)
(* to one beyond the higher. Calls share the daemon and the unit's job, which   *)
(* others change too.                                                           *)
EXTENDS ServiceCalls

MCSizes == MaxRequestBytes..(ClientMaxBytes + 1)
=============================================================================
