----------------------------- MODULE GrantClaims -----------------------------
(***************************************************************************)
(* The orchestrator of ChallengeService over the identities of             *)
(* IdentityProfile: who is refused for a missing trait, and what is in the *)
(* tokens of a grant.                                                      *)
(***************************************************************************)
EXTENDS ChallengeService, IdentityProfile

\* The identities are those of Kratos, and incomplete is who lacks a trait.
ASSUME ProfileAssumption ==
    /\ Identities \subseteq KratosIdentity
    /\ Incomplete = {i \in Identities : MissingTraits(i) # {}}

\* The actor claim of a token.
ActorTold(actor) == IF actor = None THEN Omitted ELSE "actor"

\* For what a grant says of the actor in its ID and in its access token: whether
\* the tokens agree for every profile its user may have when they are built.
AlikeForAll ==
    [id \in {"actor", Omitted} |-> [access \in {"actor", Omitted} |->
        \A i \in Complete : Alike(BuildIDTokenClaims(i, id), BuildAccessTokenClaims(i, access))]]

\* A client that reads both tokens of a user is told one thing, whatever the
\* profile of the user (two hand-written builders of service.go over two
\* hand-written maps of model.go, and the actor resolved in between).
TokensAgree ==
    \A f \in Flows : consent[f] # None =>
        AlikeForAll[ActorTold(consent[f].idActor)][ActorTold(consent[f].accessActor)]

\* What an optional claim is read from never decides whether a user gets in: who
\* is refused for a missing trait would be refused with plain names, and without
\* verified addresses, accepted terms and a matrix id (buildIdentityProfile; "zero
\* authentication failures caused by token claim additions",
\* specs/002-token-claims/spec.md).
ClaimsNeverBlockLogin ==
    [][\A h \in Handlers :
          req[h].pc = "fetch" /\ req'[h].pc = "done" /\ req'[h].reply = "missing_traits" =>
              MissingTraits(WithoutOptional(req[h].identity)) # {}]_vars
=============================================================================
