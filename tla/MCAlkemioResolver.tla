------------------------- MODULE MCAlkemioResolver -------------------------
(* Three attempts against a deadline of seven back-off units: the back-offs   *)
(* (1 and 2 units) can end before, at and after the deadline.                 *)
EXTENDS AlkemioResolver

\* Callers without a deadline, with a nearer and with a later one.
AnyCaller == {None, 2, 9}

=============================================================================
