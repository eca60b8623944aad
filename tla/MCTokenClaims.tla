--------------------------- MODULE MCTokenClaims ---------------------------
(* Two token exchanges and one webhook for the same two identities: enough  *)
(* for every stamp to race a read and a patch.                              *)
EXTENDS TokenClaims, TLC

AllWirings == Transports

\* What internal/app wires: no refresh resolver, so NewTokenHookHandler falls
\* back on the stub, and no emitter.
AppWiring == {[kratos |-> "stub", alkemio |-> "stub", emitter |-> "none"]}

\* Nothing but StampMatrixID's own guard reads the Matrix id, and no property does:
\* states that differ in it only are checked once.
Observed == <<[i \in Identities |-> metadata[i].actor], mapped, wiring, hook, post>>

Symmetry == Permutations(Identities) \cup Permutations(Hooks)

=============================================================================
