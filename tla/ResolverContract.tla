-------------------------- MODULE ResolverContract --------------------------
(***************************************************************************)
(* What the callers of an Alkemio resolver count on (internal/alkemio,     *)
(* Resolver): the consent flow and the post-login webhook turn its result  *)
(* into a claim, into "this user has no actor" or into "try again".        *)
(*                                                                         *)
(* Sources are consulted one after the other.  A conclusive word ends the  *)
(* resolution with exactly its meaning; without one the resolution may be  *)
(* given up, and is then a failure - never a missing mapping.              *)
(***************************************************************************)

CONSTANT None

VARIABLES
    word,     \* what the last consulted source said
    result    \* what Resolve returned

Conclusive == {"row", "mapping", "absent"}
Words      == Conclusive \cup {"trouble", None}
Results    == {"mapping", "not_found", "failed", None}

Meaning(w) == IF w = "absent" THEN "not_found" ELSE "mapping"

CInit == word = None /\ result = None

Hear(w) ==
    /\ result = None
    /\ word' = w
    /\ IF w \in Conclusive
       THEN result' = Meaning(w)
       ELSE result' \in {None, "failed"}

GiveUp ==
    /\ result = None
    /\ result' = "failed"
    /\ UNCHANGED word

CNext == GiveUp \/ \E w \in Words \ {None} : Hear(w)

CSpec == CInit /\ [][CNext]_<<word, result>>

=============================================================================
