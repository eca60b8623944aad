------------------------- MODULE AuthorizationFlow -------------------------
(***************************************************************************)
(* What the challenge orchestrator promises about an authorization, with   *)
(* no request, call, failure or retry in sight: a user is authenticated,   *)
(* consent is granted once, for that user and with the user's actor id     *)
(* where the alkemio scope asks for it, and then tokens are issued.        *)
(* A grant here is whom it is for and their actor, without the rest of the *)
(* profile.                                                                *)
(* ChallengeService implements it (ChallengeRefinement).                   *)
(***************************************************************************)
CONSTANTS Flows, Identities, None

VARIABLES
    phase,     \* how far each flow has come
    user,      \* who each flow authenticated
    granted,   \* what each flow was granted
    known      \* identities that have an Alkemio actor

avars == <<phase, user, granted, known>>

Phases == {"new", "login", "consent", "issued", "ended"}

AInit ==
    /\ phase = [f \in Flows |-> "new"]
    /\ user = [f \in Flows |-> None]
    /\ granted = [f \in Flows |-> None]
    /\ known = {}

Begin(f) ==
    /\ phase[f] = "new"
    /\ phase' = [phase EXCEPT ![f] = "login"]
    /\ UNCHANGED <<user, granted, known>>

\* Until the browser moves on, the user may still authenticate as someone else.
Authenticate(f, i) ==
    /\ phase[f] = "login"
    /\ user' = [user EXCEPT ![f] = i]
    /\ UNCHANGED <<phase, granted, known>>

OpenConsent(f) ==
    /\ phase[f] = "login"
    /\ user[f] # None
    /\ phase' = [phase EXCEPT ![f] = "consent"]
    /\ UNCHANGED <<user, granted, known>>

\* The one grant of a flow; alkemio says whether it covers the alkemio scope.
GrantOnce(f, alkemio) ==
    /\ phase[f] = "consent"
    /\ granted[f] = None
    /\ alkemio => user[f] \in known
    /\ granted' = [granted EXCEPT ![f] = [identity |-> user[f],
                                          actorOf |-> IF alkemio THEN user[f] ELSE None]]
    /\ UNCHANGED <<phase, user, known>>

Issue(f) ==
    /\ phase[f] = "consent"
    /\ granted[f] # None
    /\ phase' = [phase EXCEPT ![f] = "issued"]
    /\ UNCHANGED <<user, granted, known>>

End(f) ==
    /\ phase[f] = "issued"
    /\ phase' = [phase EXCEPT ![f] = "ended"]
    /\ UNCHANGED <<user, granted, known>>

Register(i) ==
    /\ known' = known \cup {i}
    /\ UNCHANGED <<phase, user, granted>>

ANext ==
    \/ \E f \in Flows :
          \/ Begin(f) \/ OpenConsent(f) \/ Issue(f) \/ End(f)
          \/ \E i \in Identities : Authenticate(f, i)
          \/ \E alkemio \in BOOLEAN : GrantOnce(f, alkemio)
    \/ \E i \in Identities : Register(i)

ASpec == AInit /\ [][ANext]_avars
=============================================================================
