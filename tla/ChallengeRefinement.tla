------------------------ MODULE ChallengeRefinement ------------------------
(* ChallengeService implements AuthorizationFlow. *)
EXTENDS ChallengeService

\* A requested logout does not change what was issued until it is followed.
AbstractPhase ==
    [f \in Flows |-> IF stage[f] = "logout" THEN "issued" ELSE stage[f]]

AbstractUser ==
    [f \in Flows |-> IF login[f] = None THEN None ELSE login[f].subject]

\* An actor stands for its identity in the abstract grant; both tokens of a
\* grant must name the same one.
ActorOwner(a) == IF a = None THEN None ELSE a[2]

AbstractGranted ==
    [f \in Flows |->
        IF consent[f] = None
        THEN None
        ELSE [identity |-> consent[f].identity,
              actorOf  |-> IF consent[f].idActor = consent[f].accessActor
                           THEN ActorOwner(consent[f].accessActor)
                           ELSE "tokens disagree"]]

\* A grant is never mistaken for none.
ASSUME AbstractGrantAssumption ==
    None \notin [identity : Identities, actorOf : Identities \cup {None}]

Authorization == INSTANCE AuthorizationFlow
                 WITH phase <- AbstractPhase, user <- AbstractUser,
                      granted <- AbstractGranted, known <- mapped

\* Under interleaved, repeated, failing and half-done requests a flow still goes
\* through exactly the steps of AuthorizationFlow: in particular it is granted
\* once, for the user it authenticated, and later acceptances change neither that
\* user nor the actor.  How recent the profile claims are is not part of a grant
\* here (ClaimsAreFetchedForConsent is about those).
ImplementsAuthorizationFlow == Authorization!ASpec
=============================================================================
