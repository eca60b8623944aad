---------------------- MODULE ChallengeRefinementProofs ----------------------
(***************************************************************************)
(* ChallengeService implements AuthorizationFlow, for every number of      *)
(* flows, handlers and identities.                                         *)
(*                                                                         *)
(* The mapping is not one of states alone: that an acceptance of a consent *)
(* is a grant the first time, and nothing at all every further time, holds *)
(* because of IInv, by which Hydra can only ever be sent GrantFor(f, v),   *)
(* of which the abstract grant sees all but the version v of the profile.  *)
(***************************************************************************)
EXTENDS ChallengeServiceProofs

abstractVars == <<AbstractPhase, AbstractUser, AbstractGranted, mapped>>

-----------------------------------------------------------------------------
(* What the mapping makes of a state *)

\* The abstract grant of a flow, if it has one.
AbstractGrantFor(f) ==
    [identity |-> login[f].subject,
     actorOf  |-> IF flow[f].alkemio THEN login[f].subject ELSE None]

\* The actor of an identity stands for it.
LEMMA OwnerOfActor == \A i \in Identities : ActorOwner(Actor(i)) = i
  <1> SUFFICES ASSUME NEW i \in Identities PROVE ActorOwner(Actor(i)) = i
    OBVIOUS
  <1>1. Actor(i) # None
    BY NoneAssumption DEF Actors
  <1>2. QED
    BY <1>1 DEF ActorOwner, Actor

\* Both tokens of a grant name one actor, so it is mapped to what the flow's
\* parameters and login say.
LEMMA MappedGrant ==
    ASSUME IInv, NEW f \in Flows
    PROVE  AbstractGranted[f] = IF consent[f] = None THEN None ELSE AbstractGrantFor(f)
  <1>1. CASE consent[f] = None
    BY <1>1 DEF AbstractGranted
  <1>2. CASE consent[f] # None
    <2>1. consent[f] = GrantFor(f, consent[f].profile) /\ login[f].subject \in Identities
      BY <1>2 DEF IInv, FlowOK
    <2>2. ActorOwner(consent[f].accessActor) = IF flow[f].alkemio THEN login[f].subject ELSE None
      BY <2>1, OwnerOfActor DEF GrantFor, ActorOwner
    <2>3. consent[f].idActor = consent[f].accessActor /\ consent[f].identity = login[f].subject
      BY <2>1 DEF GrantFor
    <2>4. QED
      BY <1>2, <2>2, <2>3 DEF AbstractGranted, AbstractGrantFor
  <1>3. QED
    BY <1>1, <1>2

\* The mapping keeps apart what a flow has and has not.
LEMMA MappedNone ==
    ASSUME IInv, NEW f \in Flows
    PROVE  /\ AbstractUser[f] = None <=> login[f] = None
           /\ AbstractGranted[f] = None <=> consent[f] = None
  <1>1. login[f] # None => login[f].subject \in Identities /\ login[f].subject # None
    BY ChallengeAssumption DEF IInv, FlowOK
  <1>2. consent[f] # None => AbstractGrantFor(f) # None
    BY <1>1, AbstractGrantAssumption DEF IInv, FlowOK, AbstractGrantFor
  <1>3. QED
    BY <1>1, <1>2, MappedGrant DEF AbstractUser

-----------------------------------------------------------------------------
(* Steps *)

\* A step that leaves stages, logins, grants and mappings alone is a stutter.
LEMMA Stutter ==
    UNCHANGED <<stage, login, consent, mapped>> => UNCHANGED abstractVars
  BY DEF abstractVars, AbstractPhase, AbstractUser, AbstractGranted

\* An accepted login authenticates its user, the first time and every other.
LEMMA AcceptLoginAuthenticates ==
    ASSUME IInv, NEW h \in Handlers, AcceptLogin(h)
    PROVE  \E f \in Flows, i \in Identities : Authorization!Authenticate(f, i)
  <1>1. PICK f \in Flows, i \in Identities :
            req[h].flow = f /\ req[h].identity = i /\ stage[f] = "login"
    BY RecordTyping DEF AcceptLogin, At, RequestOK
  <1>2. PICK context : login' = [login EXCEPT ![f] = [subject |-> i, context |-> context]]
    BY <1>1 DEF AcceptLogin
  <1>3. login'[f] # None /\ login'[f].subject = i
    <2>1. IInv'
      BY AcceptLoginStep
    <2>2. login'[f] = [subject |-> i, context |-> context]
      BY <1>2 DEF IInv, TypeOK
    <2>3. [subject |-> i, context |-> context] \in LoginAcceptance
      <3>1. LoginContext(f, i) = i
        BY <1>1, ChallengeAssumption DEF LoginContext, EnsureLoginContextIdentity
      <3>2. login'[f] = [subject |-> i, context |-> i]
        BY <1>1, <3>1 DEF AcceptLogin, IInv, TypeOK
      <3>3. QED
        BY <2>2, <3>2 DEF LoginAcceptance, Subjects
    <2>4. QED
      BY <2>2, <2>3, NoneAssumption
  <1>4. AbstractUser' = [AbstractUser EXCEPT ![f] = i]
    <2>1. \A g \in Flows : g # f => login'[g] = login[g]
      BY <1>2 DEF IInv, TypeOK
    <2>2. QED
      BY <1>3, <2>1 DEF AbstractUser
  <1>5. AbstractPhase[f] = "login"
    BY <1>1 DEF AbstractPhase
  <1>6. UNCHANGED <<AbstractPhase, AbstractGranted, mapped>>
    BY DEF AcceptLogin, AbstractPhase, AbstractGranted, upstream
  <1>7. QED
    BY <1>4, <1>5, <1>6 DEF Authorization!Authenticate

\* An accepted consent is the grant of its flow, or repeats it.
LEMMA AcceptConsentGrantsOnce ==
    ASSUME IInv, IInv', NEW h \in Handlers, AcceptConsent(h)
    PROVE  \/ \E f \in Flows, alkemio \in BOOLEAN : Authorization!GrantOnce(f, alkemio)
           \/ UNCHANGED abstractVars
  <1>1. PICK f \in Flows :
            /\ req[h].flow = f /\ stage[f] = "consent"
            /\ consent' = [consent EXCEPT ![f] = GrantOf(h)]
            /\ UNCHANGED <<stage, flow, login, upstream>>
    BY RecordTyping DEF AcceptConsent, At, RequestOK
  <1>2. UNCHANGED <<AbstractPhase, AbstractUser, mapped>>
    BY <1>1 DEF AbstractPhase, AbstractUser, upstream
  <1>3. consent'[f] # None
    <2>2. consent'[f] = GrantOf(h)
      BY <1>1 DEF IInv, TypeOK
    <2>3. GrantOf(h) \in Grant
      <3>1. flow[f] \in FlowParameters /\ req[h].flow = f /\ req[h] \in Request
        BY <1>1, RecordTyping DEF IInv, TypeOK, AcceptConsent
      <3>2. req[h].identity \in Identities
        BY <1>1, ConsentIdentity, RecordTyping
        DEF AcceptConsent, At, RequestOK, ConsentRequestOK, ConsentOpen
      <3>3. QED
        BY <3>1, <3>2 DEF GrantOf, Grant, FlowParameters, Request
    <2>4. QED
      BY <2>2, <2>3, NoneAssumption
  <1>4. \A g \in Flows : g # f => AbstractGranted'[g] = AbstractGranted[g]
    BY <1>1 DEF IInv, TypeOK, AbstractGranted
  <1>5. AbstractGranted'[f] = AbstractGrantFor(f)
    <2>1. /\ consent'[f] = GrantFor(f, consent'[f].profile)
          /\ login[f].subject \in Identities
      <3>1. FlowOK(f)'
        BY DEF IInv
      <3>2. QED
        BY <1>1, <1>3, <3>1 DEF FlowOK, GrantFor
    <2>2. ActorOwner(consent'[f].accessActor)
              = IF flow[f].alkemio THEN login[f].subject ELSE None
      BY <2>1, OwnerOfActor DEF GrantFor, ActorOwner
    <2>3. consent'[f].idActor = consent'[f].accessActor /\ consent'[f].identity = login[f].subject
      BY <2>1 DEF GrantFor
    <2>4. QED
      BY <1>3, <2>2, <2>3 DEF AbstractGranted, AbstractGrantFor
  <1>6. CASE consent[f] # None
    <2>1. AbstractGranted[f] = AbstractGrantFor(f)
      BY <1>6, MappedGrant
    <2>2. AbstractGranted' = AbstractGranted
      <3>1. \A g \in Flows : AbstractGranted'[g] = AbstractGranted[g]
        BY <1>4, <1>5, <2>1
      <3>2. /\ AbstractGranted = [g \in Flows |-> AbstractGranted[g]]
            /\ AbstractGranted' = [g \in Flows |-> AbstractGranted'[g]]
        BY DEF AbstractGranted
      <3>3. QED
        BY <3>1, <3>2, Zenon
    <2>3. QED
      BY <1>2, <2>2 DEF abstractVars
  <1>7. CASE consent[f] = None
    <2>1. AbstractPhase[f] = "consent" /\ AbstractGranted[f] = None
      BY <1>1, <1>7 DEF AbstractPhase, AbstractGranted
    <2>2. login[f] # None /\ AbstractUser[f] = login[f].subject
      BY <1>1 DEF IInv, FlowOK, ConsentOpen, AbstractUser
    <2>3. flow[f].alkemio \in BOOLEAN /\ (flow[f].alkemio => login[f].subject \in mapped)
      BY <1>1, <1>3 DEF IInv, TypeOK, FlowParameters, FlowOK, upstream
    <2>4. AbstractGranted' = [AbstractGranted EXCEPT ![f] = AbstractGrantFor(f)]
      BY <1>4, <1>5 DEF AbstractGranted
    <2>5. Authorization!GrantOnce(f, flow[f].alkemio)
      BY <1>2, <2>1, <2>2, <2>3, <2>4 DEF Authorization!GrantOnce, AbstractGrantFor
    <2>6. QED
      BY <2>3, <2>5
  <1>8. QED
    BY <1>6, <1>7

\* Hydra's steps: a redirect that is followed, a flow that begins or ends.
LEMMA HydraStepMaps ==
    ASSUME IInv, NEW f \in Flows, HydraStep(f)
    PROVE  [Authorization!ANext]_abstractVars
  <1>1. stage \in [Flows -> Stages]
    BY DEF IInv, TypeOK
  <1>2. AbstractPhase \in [Flows -> Authorization!Phases]
    BY <1>1 DEF AbstractPhase, Authorization!Phases, Stages
  <1>3. UNCHANGED <<AbstractUser, AbstractGranted, mapped>>
    BY DEF HydraStep, BeginAuthorization, FollowLogin, FollowConsent, RequestLogout,
           FollowLogout, AbstractUser, AbstractGranted, upstream
  <1>4. CASE BeginAuthorization(f)
    <2>1. AbstractPhase[f] = "new" /\ AbstractPhase' = [AbstractPhase EXCEPT ![f] = "login"]
      BY <1>1, <1>4 DEF BeginAuthorization, AbstractPhase
    <2>2. Authorization!Begin(f)
      BY <1>3, <2>1 DEF Authorization!Begin
    <2>3. QED
      BY <2>2 DEF Authorization!ANext
  <1>5. CASE FollowLogin(f)
    <2>1. AbstractPhase[f] = "login" /\ AbstractPhase' = [AbstractPhase EXCEPT ![f] = "consent"]
      BY <1>1, <1>5 DEF FollowLogin, AbstractPhase
    <2>2. AbstractUser[f] # None
      BY <1>5, MappedNone DEF FollowLogin
    <2>3. Authorization!OpenConsent(f)
      BY <1>3, <2>1, <2>2 DEF Authorization!OpenConsent
    <2>4. QED
      BY <2>3 DEF Authorization!ANext
  <1>6. CASE FollowConsent(f)
    <2>1. AbstractPhase[f] = "consent" /\ AbstractPhase' = [AbstractPhase EXCEPT ![f] = "issued"]
      BY <1>1, <1>6 DEF FollowConsent, AbstractPhase
    <2>2. AbstractGranted[f] # None
      BY <1>6, MappedNone DEF FollowConsent
    <2>3. Authorization!Issue(f)
      BY <1>3, <2>1, <2>2 DEF Authorization!Issue
    <2>4. QED
      BY <2>3 DEF Authorization!ANext
  <1>7. CASE RequestLogout(f)
    <2>1. AbstractPhase' = AbstractPhase
      BY <1>1, <1>7 DEF RequestLogout, AbstractPhase
    <2>2. QED
      BY <1>3, <2>1 DEF abstractVars
  <1>8. CASE FollowLogout(f)
    <2>1. AbstractPhase[f] = "issued" /\ AbstractPhase' = [AbstractPhase EXCEPT ![f] = "ended"]
      BY <1>1, <1>8 DEF FollowLogout, AbstractPhase
    <2>2. Authorization!End(f)
      BY <1>3, <2>1 DEF Authorization!End
    <2>3. QED
      BY <2>2 DEF Authorization!ANext
  <1>9. QED
    BY <1>4, <1>5, <1>6, <1>7, <1>8 DEF HydraStep

\* Everything a goroutine does short of an acceptance is invisible.
LEMMA ServiceStepMaps ==
    ASSUME IInv, IInv', NEW h \in Handlers, ServiceStep(h)
    PROVE  [Authorization!ANext]_abstractVars
  <1>1. CASE AcceptLogin(h)
    BY <1>1, AcceptLoginAuthenticates DEF Authorization!ANext
  <1>2. CASE AcceptConsent(h)
    BY <1>2, AcceptConsentGrantsOnce DEF Authorization!ANext
  <1>3. CASE ~AcceptLogin(h) /\ ~AcceptConsent(h)
    <2>1. UNCHANGED <<stage, login, consent, mapped>>
      BY <1>3 DEF ServiceStep, GetRefused, GetSkippedLogin, GetStandardLogin, IdentityHint,
                  FetchFails, FetchLoginProfile, AcceptRefused, GetConsent,
                  FetchConsentProfile, AttachAlkemioClaim, EmitAutoAcceptAudit,
                  GetLogout, AcceptLogout, hydra, upstream
    <2>2. QED
      BY <2>1, Stutter
  <1>4. QED
    BY <1>1, <1>2, <1>3

\* Every step of the service, of its upstreams and of the browser is a step of
\* AuthorizationFlow or changes nothing it can see.
LEMMA StepMaps ==
    ASSUME IInv, IInv', [Next]_vars
    PROVE  [Authorization!ANext]_abstractVars
  <1>1. ASSUME NEW h \in Handlers, ServiceStep(h)
        PROVE  [Authorization!ANext]_abstractVars
    BY <1>1, ServiceStepMaps
  <1>2. ASSUME NEW h \in Handlers, Browse(h)
        PROVE  [Authorization!ANext]_abstractVars
    BY <1>2, Stutter DEF Browse, Arrive, ArriveBlank, hydra, upstream
  <1>3. ASSUME NEW f \in Flows, HydraStep(f)
        PROVE  [Authorization!ANext]_abstractVars
    BY <1>3, HydraStepMaps
  <1>4. CASE Environment
    <2>1. ASSUME NEW i \in Identities, ProvisionActor(i)
          PROVE  Authorization!ANext
      <3>1. UNCHANGED <<AbstractPhase, AbstractUser, AbstractGranted>>
        BY <2>1 DEF ProvisionActor, hydra, AbstractPhase, AbstractUser, AbstractGranted
      <3>2. Authorization!Register(i)
        BY <2>1, <3>1 DEF ProvisionActor, Authorization!Register
      <3>3. QED
        BY <3>2 DEF Authorization!ANext
    <2>2. ASSUME NEW i \in Identities, KratosLogin(i) \/ KratosLogout(i) \/ EditProfile(i)
          PROVE  UNCHANGED abstractVars
      BY <2>2, Stutter DEF KratosLogin, KratosLogout, EditProfile, hydra
    <2>3. CASE UpstreamHealthChanges
      BY <2>3, Stutter DEF UpstreamHealthChanges, hydra
    <2>4. QED
      BY <1>4, <2>1, <2>2, <2>3 DEF Environment
  <1>5. CASE Restart
    BY <1>5, Stutter DEF Restart, hydra, upstream
  <1>6. CASE UNCHANGED vars
    BY <1>6, Stutter DEF vars, hydra, upstream
  <1>7. QED
    BY <1>1, <1>2, <1>3, <1>4, <1>5, <1>6 DEF Next

-----------------------------------------------------------------------------

\* However requests interleave, are repeated, fail or are cut off half-way, a
\* flow goes through exactly the steps of AuthorizationFlow: one grant, for the
\* user it authenticated and with that user's actor, and tokens only after it.
THEOREM Refinement == Spec => ImplementsAuthorizationFlow
  <1>1. Init => Authorization!AInit
    BY DEF Init, Authorization!AInit, AbstractPhase, AbstractUser, AbstractGranted
  <1>2. IInv /\ IInv' /\ [Next]_vars => [Authorization!ANext]_(Authorization!avars)
    BY StepMaps DEF abstractVars, Authorization!avars
  <1>3. QED
    BY <1>1, <1>2, Inductive, PTL DEF Spec, ImplementsAuthorizationFlow, Authorization!ASpec
=============================================================================
