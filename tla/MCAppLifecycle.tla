--------------------------- MODULE MCAppLifecycle ---------------------------
(* Three requests: one may be in a query, one may be running and one may      *)
(* still connect while the process stops.                                     *)
EXTENDS AppLifecycle
=============================================================================
