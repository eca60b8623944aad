-------------------------- MODULE MCReadinessCache --------------------------
(* Two requests suffice for an older evaluation to overwrite a newer one.  A  *)
(* TTL of two probe timeouts stands for the code's four: the properties speak *)
(* of TTL and ProbeTimeout, and two are enough for a hit after a slow miss.   *)
EXTENDS ReadinessCache

=============================================================================
