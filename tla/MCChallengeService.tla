------------------------- MODULE MCChallengeService -------------------------
(* A small instance of ChallengeService for TLC. *)
EXTENDS ChallengeRefinement, TLC

\* With the alkemio scope, and trusted or not; and neither.
SomeClients == {c \in [alkemio : BOOLEAN, trusted : BOOLEAN] : c.trusted => c.alkemio}

\* Handlers are interchangeable, and so are identities when none is incomplete:
\* no definition tells two of them apart.
Symmetry == Permutations(Handlers) \cup Permutations(Identities)

\* A goroutine that has answered with an error is as good as idle: no action and
\* no property of the run depends on the error.
Observed ==
    <<hydra, upstream, audited,
      [h \in Handlers |-> IF InFlight(h) \/ req[h].reply = "redirect" THEN req[h] ELSE Idle]>>
=============================================================================
