-------------------------- MODULE ChallengeService --------------------------
(***************************************************************************)
(* The challenge orchestrator (internal/challenge/service.go) and the      *)
(* handlers that call it, between a browser and three upstreams: Hydra,    *)
(* which owns the challenges and stores what is accepted; Kratos, which    *)
(* owns sessions and identities; and Alkemio, which maps an identity to an *)
(* actor id.  Every HTTP request runs in a goroutine of its own; each      *)
(* upstream call is one step, so requests interleave between calls, and a  *)
(* call may take effect at Hydra although its answer never arrives.        *)
(*                                                                         *)
(* Hydra, Kratos, Alkemio and the browser are external: their actions say  *)
(* only what the service relies on or has to survive.                      *)
(***************************************************************************)
EXTENDS Naturals

CONSTANTS
    Flows,            \* OAuth2 authorization flows; each has one challenge per kind
    Handlers,         \* request goroutines the server runs at the same time
    Identities,       \* Kratos identity ids (UUIDs)
    LegacySubjects,   \* subjects Hydra may remember that are not Kratos ids
    Clients,          \* what clients request: the alkemio scope or not, pre-consent or not
    Incomplete,       \* identities without a usable email or display name
    HintWired,        \* whether the login handler has a session resolver
    MaxEdits,         \* bound: profiles rest once one has been edited this often
    None

ASSUME ChallengeAssumption ==
    /\ LegacySubjects \cap Identities = {}
    /\ Clients \subseteq [alkemio : BOOLEAN, trusted : BOOLEAN]
    /\ Incomplete \subseteq Identities
    /\ HintWired \in BOOLEAN
    /\ MaxEdits \in Nat
    /\ None \notin Identities \cup LegacySubjects \cup Flows

VARIABLES
    stage,        \* Hydra: how far each flow has come
    flow,         \* Hydra: the request parameters of each flow
    login,        \* Hydra: the login acceptance stored for each flow
    consent,      \* Hydra: the consent acceptance stored for each flow
    logout,       \* Hydra: the flows whose logout challenge was accepted
    remembered,   \* Hydra: the login its session cookie remembers
    opened,       \* history: the edit the user's profile was at when the consent opened
    sessions,     \* Kratos: identities with a live session
    profile,      \* Kratos: how often the profile of each identity was edited
    mapped,       \* Alkemio: identities that have an actor
    up,           \* whether the upstreams and the process are healthy
    req,          \* the service: one record per handler goroutine
    audited       \* the consent.auto_accept events, and the warnings of lost ones

hydra    == <<stage, flow, login, consent, logout, remembered, opened>>
upstream == <<sessions, profile, mapped, up>>
vars     == <<hydra, upstream, req, audited>>

Kinds    == {"login", "consent", "logout"}
Stages   == {"new", "login", "consent", "issued", "logout", "ended"}
Subjects == Identities \cup LegacySubjects

\* The actor id Alkemio maps an identity to.
Actor(i) == <<"actor", i>>
Actors   == {Actor(i) : i \in Identities}

\* A profile as it was after so many edits: email, names and the other traits,
\* of which this module tells no more than how recent they are.
Versions == 0..MaxEdits

Codes == {"session_required", "session_invalid", "missing_challenge", "invalid_challenge",
          "hydra_failure", "kratos_failure", "missing_traits",
          "alkemio_identity_missing", "alkemio_resolution_failed"}

\* Flow parameters, and what Hydra stores when a challenge is accepted.
FlowParameters  == [alkemio : BOOLEAN, trusted : BOOLEAN, skip : BOOLEAN,
                    subject : Subjects \cup {None}, context : Subjects \cup {None}]
LoginAcceptance == [subject : Subjects, context : Subjects \cup {None}]
Grant           == [alkemio : BOOLEAN, identity : Identities \cup {None},
                    idActor : Actors \cup {None}, accessActor : Actors \cup {None},
                    profile : Versions]
Request         == [pc : {"idle", "get", "hint", "fetch", "resolve", "accept", "audit", "done"},
                    kind : Kinds, flow : Flows \cup {None},
                    cookie : Identities \cup {None}, identity : Subjects \cup {None},
                    actor : Actors \cup {None}, profile : Versions,
                    reply : Codes \cup {"redirect", None}]

\* What emitting the event of a flow left: the event in the audit log, or a
\* warning that it could not be written.
AuditRecord     == [flow : Flows, written : BOOLEAN]

ASSUME NoneAssumption == None \notin LoginAcceptance \cup Grant \cup Actors \cup Codes \cup {"redirect"}

Unrequested == [alkemio |-> FALSE, trusted |-> FALSE, skip |-> FALSE,
                subject |-> None, context |-> None]
Idle        == [pc |-> "idle", kind |-> "login", flow |-> None, cookie |-> None,
                identity |-> None, actor |-> None, profile |-> 0, reply |-> None]

TypeOK ==
    /\ stage \in [Flows -> Stages]
    /\ flow \in [Flows -> FlowParameters]
    /\ login \in [Flows -> LoginAcceptance \cup {None}]
    /\ consent \in [Flows -> Grant \cup {None}]
    /\ logout \subseteq Flows
    /\ remembered \in LoginAcceptance \cup {None}
    /\ opened \in [Flows -> Versions]
    /\ sessions \subseteq Identities
    /\ profile \in [Identities -> Versions]
    /\ mapped \subseteq Identities
    /\ up \in BOOLEAN
    /\ req \in [Handlers -> Request]
    /\ audited \subseteq AuditRecord

\* What Hydra may remember when the service starts: a login of this service,
\* whose context Hydra may have dropped, or one from before it, under a subject
\* that is no Kratos id.
RememberedLogins ==
    {a \in LoginAcceptance : a.subject \in LegacySubjects \/ a.context \in {None, a.subject}}

Init ==
    /\ stage = [f \in Flows |-> "new"]
    /\ flow = [f \in Flows |-> Unrequested]
    /\ login = [f \in Flows |-> None]
    /\ consent = [f \in Flows |-> None]
    /\ logout = {}
    /\ remembered \in RememberedLogins \cup {None}
    /\ opened = [f \in Flows |-> 0]
    /\ sessions = {}
    /\ profile = [i \in Identities |-> 0]
    /\ mapped = {}
    /\ up = TRUE
    /\ req = [h \in Handlers |-> Idle]
    /\ audited = {}

-----------------------------------------------------------------------------
(* Moves of one request goroutine *)

InFlight(h) == req[h].pc \notin {"idle", "done"}

At(h, pc, kind) == req[h].pc = pc /\ req[h].kind = kind

\* The handler answers; what the goroutine held locally is gone.
Reply(h, code) ==
    req' = [req EXCEPT ![h] = [Idle EXCEPT !.pc = "done", !.kind = req[h].kind,
                                           !.flow = req[h].flow, !.reply = code]]

Goto(h, pc) == req' = [req EXCEPT ![h].pc = pc]

\* Once an identity is known the cookie is not read again.
GotoWith(h, pc, i) ==
    req' = [req EXCEPT ![h].pc = pc, ![h].identity = i, ![h].cookie = None]

\* What mapHydraError can answer: 404, 410 and 400 become invalid_challenge,
\* everything else (other statuses, no response at all) hydra_failure.
HydraErrors == {"invalid_challenge", "hydra_failure"}

\* A challenge exists once the flow has reached the stage of its kind.
Reached(f, kind) ==
    CASE kind = "login"   -> stage[f] # "new"
      [] kind = "consent" -> stage[f] \notin {"new", "login"}
      [] kind = "logout"  -> stage[f] \in {"logout", "ended"}

\* The browser requests /login, /consent or /logout with a challenge of f.
Arrive(h, kind, f) ==
    /\ ~InFlight(h)
    /\ Reached(f, kind)
    /\ \E c \in Identities \cup {None} :
          /\ kind # "login" => c = None
          /\ req' = [req EXCEPT ![h] = [Idle EXCEPT !.pc = "get", !.kind = kind,
                                                    !.flow = f, !.cookie = c]]
    /\ UNCHANGED <<hydra, upstream, audited>>

\* A request without a challenge id is answered before any call is made.
ArriveBlank(h, kind) ==
    /\ ~InFlight(h)
    /\ req' = [req EXCEPT ![h] = [Idle EXCEPT !.pc = "done", !.kind = kind,
                                              !.reply = "missing_challenge"]]
    /\ UNCHANGED <<hydra, upstream, audited>>

\* Get*Request fails at Hydra, or Hydra says that the challenge is gone.
GetRefused(h) ==
    /\ req[h].pc = "get"
    /\ \/ /\ stage[req[h].flow] # req[h].kind
          /\ Reply(h, "invalid_challenge")
       \/ /\ ~up
          /\ \E code \in HydraErrors : Reply(h, code)
    /\ UNCHANGED <<hydra, upstream, audited>>

-----------------------------------------------------------------------------
(* ResolveLogin *)

\* determineSkipSubject up to the session hint: the identity recorded in the
\* login context, when there is one, wins over the subject.
SkipSubject(f) == IF flow[f].context # None THEN flow[f].context ELSE flow[f].subject

IsKratosIdentityID(s) == s \in Identities

\* GetLoginRequest of a login that Hydra lets the user skip.
GetSkippedLogin(h) ==
    LET f == req[h].flow
    IN  /\ At(h, "get", "login")
        /\ stage[f] = "login"
        /\ flow[f].skip
        /\ \/ /\ SkipSubject(f) = None
              /\ Reply(h, "hydra_failure")
           \/ /\ IsKratosIdentityID(SkipSubject(f))
              /\ GotoWith(h, "accept", SkipSubject(f))
           \/ /\ SkipSubject(f) # None
              /\ ~IsKratosIdentityID(SkipSubject(f))
              /\ Goto(h, "hint")
        /\ UNCHANGED <<hydra, upstream, audited>>

\* GetLoginRequest of a login that must be resolved against Kratos.
GetStandardLogin(h) ==
    LET f == req[h].flow
    IN  /\ At(h, "get", "login")
        /\ stage[f] = "login"
        /\ ~flow[f].skip
        /\ IF flow[f].subject # None
           THEN GotoWith(h, "fetch", flow[f].subject)
           ELSE Goto(h, "hint")
        /\ UNCHANGED <<hydra, upstream, audited>>

\* Mutant: a request without a session cookie is left without an answer.
IdentityHintNoCookieUnanswered(h) ==
    LET c == req[h].cookie
    IN  /\ At(h, "hint", "login")
        /\ c # None
        /\ IF c \in sessions THEN GotoWith(h, "accept", c) ELSE Reply(h, "session_invalid")
        /\ UNCHANGED <<hydra, upstream, audited>>

\* Mutant: a skipped login never takes its identity from the session.
IdentityHintNotForSkip(h) ==
    LET skip == flow[req[h].flow].skip
        c    == req[h].cookie
    IN  /\ At(h, "hint", "login")
        /\ IF skip \/ c \notin sessions
           THEN Reply(h, "session_invalid")
           ELSE GotoWith(h, "fetch", c)
        /\ UNCHANGED <<hydra, upstream, audited>>

\* The identity hint: the Kratos session named by the request's cookie.
IdentityHint(h) ==
    LET skip == flow[req[h].flow].skip
        c    == req[h].cookie
    IN  /\ At(h, "hint", "login")
        /\ \/ /\ ~HintWired
              /\ Reply(h, IF skip THEN "session_invalid" ELSE "session_required")
           \/ /\ HintWired /\ c = None
              /\ Reply(h, "session_required")
           \/ /\ HintWired /\ c # None /\ c \notin sessions
              /\ Reply(h, "session_invalid")
           \/ /\ HintWired /\ c \in sessions
              /\ GotoWith(h, IF skip THEN "accept" ELSE "fetch", c)
           \/ /\ HintWired /\ c # None /\ ~up
              /\ Reply(h, "kratos_failure")
        /\ UNCHANGED <<hydra, upstream, audited>>

\* Fetch finds no identity of that id, or the call fails; or the identity
\* lacks the traits a token needs.
FetchFails(h) ==
    /\ req[h].pc = "fetch"
    /\ \/ /\ ~up \/ req[h].identity \notin Identities
          /\ Reply(h, "kratos_failure")
       \/ /\ req[h].identity \in Incomplete
          /\ Reply(h, "missing_traits")
    /\ UNCHANGED <<hydra, upstream, audited>>

FetchOK(h) ==
    /\ req[h].pc = "fetch"
    /\ req[h].identity \in Identities \ Incomplete

\* Fetch for a login.
FetchLoginProfile(h) ==
    /\ req[h].kind = "login"
    /\ FetchOK(h)
    /\ Goto(h, "accept")
    /\ UNCHANGED <<hydra, upstream, audited>>

\* ensureLoginContextIdentity: the accepted context always names the accepted
\* identity, whatever the context of the request said.
EnsureLoginContextIdentity(ctx, i) == IF i = None THEN ctx ELSE i

\* Mutant: a context the request already has is kept as it is.
LoginContextKept(f, i) == IF flow[f].context # None THEN flow[f].context ELSE i

\* The context sent with a login acceptance.
LoginContext(f, i) ==
    IF flow[f].skip THEN EnsureLoginContextIdentity(flow[f].context, i) ELSE i

\* Hydra stores the login acceptance; its answer may be lost, or carry no URL.
AcceptLogin(h) ==
    LET f == req[h].flow
        i == req[h].identity
    IN  /\ At(h, "accept", "login")
        /\ stage[f] = "login"
        /\ login' = [login EXCEPT ![f] = [subject |-> i, context |-> LoginContext(f, i)]]
        /\ \/ Reply(h, "redirect")
           \/ ~up /\ Reply(h, "hydra_failure")
        /\ UNCHANGED <<stage, flow, consent, logout, remembered, opened, upstream, audited>>

\* Mutant: a failed acceptance is taken for one that was already made.
AcceptRefusedIgnored(h) ==
    /\ req[h].pc = "accept"
    /\ stage[req[h].flow] # req[h].kind \/ ~up
    /\ Reply(h, "redirect")
    /\ UNCHANGED <<hydra, upstream, audited>>

\* Hydra refuses an acceptance because the challenge was already used, or
\* the call fails before Hydra stores anything.
AcceptRefused(h) ==
    /\ req[h].pc = "accept"
    /\ stage[req[h].flow] # req[h].kind \/ ~up
    /\ \E code \in HydraErrors : Reply(h, code)
    /\ UNCHANGED <<hydra, upstream, audited>>

-----------------------------------------------------------------------------
(* ResolveConsent *)

\* extractIdentityID: the consent request shows the context and the subject
\* that the login was accepted with; the context comes first.
ExtractIdentityID(f) ==
    IF login[f].context # None THEN login[f].context ELSE login[f].subject

\* Mutant: the pre-consent filter does without the profile.
GetConsentTrustedUnchecked(h) ==
    LET f == req[h].flow
    IN  /\ At(h, "get", "consent")
        /\ stage[f] = "consent"
        /\ GotoWith(h, IF flow[f].trusted THEN "accept" ELSE "fetch", ExtractIdentityID(f))
        /\ UNCHANGED <<hydra, upstream, audited>>

\* Mutant: the audit event is emitted when the filter matches.
GetConsentAuditedEarly(h) ==
    LET f == req[h].flow
    IN  /\ At(h, "get", "consent")
        /\ stage[f] = "consent"
        /\ GotoWith(h, "fetch", ExtractIdentityID(f))
        /\ audited' = audited \cup (IF flow[f].trusted THEN {[flow |-> f, written |-> TRUE]} ELSE {})
        /\ UNCHANGED <<hydra, upstream>>

\* GetConsentRequest, and the pre-consent filter on the client.
GetConsent(h) ==
    LET f == req[h].flow
    IN  /\ At(h, "get", "consent")
        /\ stage[f] = "consent"
        /\ \/ /\ ExtractIdentityID(f) # None
              /\ GotoWith(h, "fetch", ExtractIdentityID(f))
           \/ /\ ExtractIdentityID(f) = None /\ flow[f].trusted
              /\ Goto(h, "accept")
           \/ /\ ExtractIdentityID(f) = None /\ ~flow[f].trusted
              /\ Reply(h, "hydra_failure")
        /\ UNCHANGED <<hydra, upstream, audited>>

\* Mutant: the pre-consent path does without the actor id.
FetchConsentProfileTrustedUnresolved(h) ==
    LET f == flow[req[h].flow]
    IN  /\ req[h].kind = "consent"
        /\ FetchOK(h)
        /\ req' = [req EXCEPT ![h].pc = IF f.alkemio /\ ~f.trusted THEN "resolve" ELSE "accept",
                              ![h].profile = profile[req[h].identity]]
        /\ UNCHANGED <<hydra, upstream, audited>>

\* Mutant: a profile is fetched once and kept.
FetchConsentProfileKept(h) ==
    /\ req[h].kind = "consent"
    /\ FetchOK(h)
    /\ Goto(h, IF flow[req[h].flow].alkemio THEN "resolve" ELSE "accept")
    /\ UNCHANGED <<hydra, upstream, audited>>

\* Fetch for a consent; the alkemio scope calls for the actor id as well.
FetchConsentProfile(h) ==
    /\ req[h].kind = "consent"
    /\ FetchOK(h)
    /\ req' = [req EXCEPT ![h].pc = IF flow[req[h].flow].alkemio THEN "resolve" ELSE "accept",
                          ![h].profile = profile[req[h].identity]]
    /\ UNCHANGED <<hydra, upstream, audited>>

\* Mutant: an identity without a mapping goes on without the claim.
AttachAlkemioClaimOptional(h) ==
    LET i == req[h].identity
    IN  /\ At(h, "resolve", "consent")
        /\ req' = [req EXCEPT ![h].pc = "accept",
                              ![h].actor = IF i \in mapped THEN Actor(i) ELSE None]
        /\ UNCHANGED <<hydra, upstream, audited>>

\* Mutant: the claim carries the Kratos id in place of the actor id.
AttachAlkemioClaimKratosID(h) ==
    /\ At(h, "resolve", "consent")
    /\ req' = [req EXCEPT ![h].pc = "accept", ![h].actor = req[h].identity]
    /\ UNCHANGED <<hydra, upstream, audited>>

\* attachAlkemioClaim: resolve the actor id, or fail the whole consent.  A mapping
\* that does not validate is answered like a call that fails; the application
\* always has a resolver.
AttachAlkemioClaim(h) ==
    LET i == req[h].identity
    IN  /\ At(h, "resolve", "consent")
        /\ \/ /\ i \in mapped
              /\ req' = [req EXCEPT ![h].pc = "accept", ![h].actor = Actor(i)]
           \/ /\ i \notin mapped
              /\ Reply(h, "alkemio_identity_missing")
           \/ /\ ~up
              /\ Reply(h, "alkemio_resolution_failed")
        /\ UNCHANGED <<hydra, upstream, audited>>

\* Mutant: the claims name the subject Hydra showed at login.
GrantOfRequestSubject(h) ==
    [alkemio     |-> flow[req[h].flow].alkemio,
     identity    |-> flow[req[h].flow].subject,
     idActor     |-> req[h].actor,
     accessActor |-> req[h].actor,
     profile     |-> req[h].profile]

\* The acceptance a consent request sends: the requested scope, and in both
\* tokens the claims of the profile as this request fetched it.
GrantOf(h) ==
    [alkemio     |-> flow[req[h].flow].alkemio,
     identity    |-> req[h].identity,
     idActor     |-> req[h].actor,
     accessActor |-> req[h].actor,
     profile     |-> req[h].profile]

\* Mutant: the pre-consent path answers like the other, without the event.
AcceptConsentUnaudited(h) ==
    LET f == req[h].flow
    IN  /\ At(h, "accept", "consent")
        /\ stage[f] = "consent"
        /\ consent' = [consent EXCEPT ![f] = GrantOf(h)]
        /\ \/ Reply(h, "redirect")
           \/ ~up /\ Reply(h, "hydra_failure")
        /\ UNCHANGED <<stage, flow, login, logout, remembered, opened, upstream, audited>>

\* Hydra stores the consent acceptance.  A trusted client's acceptance goes on
\* to the audit event when Hydra's answer arrives, before the answer is read.
AcceptConsent(h) ==
    LET f == req[h].flow
    IN  /\ At(h, "accept", "consent")
        /\ stage[f] = "consent"
        /\ consent' = [consent EXCEPT ![f] = GrantOf(h)]
        /\ \/ /\ ~flow[f].trusted
              /\ Reply(h, "redirect")
           \/ /\ flow[f].trusted
              /\ req' = [req EXCEPT ![h].pc = "audit", ![h].reply = "redirect"]
           \/ /\ flow[f].trusted /\ ~up
              /\ req' = [req EXCEPT ![h].pc = "audit", ![h].reply = "hydra_failure"]
           \/ /\ ~up
              /\ Reply(h, "hydra_failure")
        /\ UNCHANGED <<stage, flow, login, logout, remembered, opened, upstream, audited>>

\* emitAutoAcceptAudit hands consent.auto_accept to the emitter.  When the emitter
\* fails, a warning in the log is all there is, and the answer goes out the same.
EmitAutoAcceptAudit(h) ==
    /\ At(h, "audit", "consent")
    /\ \E written \in BOOLEAN :
          audited' = audited \cup {[flow |-> req[h].flow, written |-> written]}
    /\ Reply(h, req[h].reply)
    /\ UNCHANGED <<hydra, upstream>>

-----------------------------------------------------------------------------
(* ResolveLogout *)

GetLogout(h) ==
    /\ At(h, "get", "logout")
    /\ stage[req[h].flow] = "logout"
    /\ Goto(h, "accept")
    /\ UNCHANGED <<hydra, upstream, audited>>

AcceptLogout(h) ==
    /\ At(h, "accept", "logout")
    /\ stage[req[h].flow] = "logout"
    /\ logout' = logout \cup {req[h].flow}
    /\ \/ Reply(h, "redirect")
       \/ ~up /\ Reply(h, "hydra_failure")
    /\ UNCHANGED <<stage, flow, login, consent, remembered, opened, upstream, audited>>

\* The process stops (deploy, crash) and starts again: nothing it was doing
\* is resumed, and no request in flight is answered.  A restart, like a failing
\* call, belongs to a time when not all is healthy.
Restart ==
    /\ ~up
    /\ \E h \in Handlers : InFlight(h)
    /\ req' = [h \in Handlers |-> IF InFlight(h) THEN Idle ELSE req[h]]
    /\ UNCHANGED <<hydra, upstream, audited>>

-----------------------------------------------------------------------------
(* External: Hydra and the browser *)

\* Hydra offers to skip a login only when it remembers one, and may or may not
\* show the context it stored with it.  A login that is not skipped shows no
\* subject, or the Kratos identity that has to authenticate again.
HydraLoginRequests ==
    [skip : {FALSE}, subject : {None}, context : {None}] \cup
    (IF remembered = None
     THEN {}
     ELSE [skip : {FALSE}, subject : {remembered.subject} \cap Identities, context : {None}] \cup
          [skip : {TRUE}, subject : {remembered.subject}, context : {None, remembered.context}])

\* A client starts an authorization.
BeginAuthorization(f) ==
    /\ stage[f] = "new"
    /\ stage' = [stage EXCEPT ![f] = "login"]
    /\ \E client \in Clients, r \in HydraLoginRequests :
          flow' = [flow EXCEPT ![f] = [alkemio |-> client.alkemio, trusted |-> client.trusted,
                                       skip |-> r.skip, subject |-> r.subject,
                                       context |-> r.context]]
    /\ UNCHANGED <<login, consent, logout, remembered, opened, upstream, req, audited>>

\* Some handler has answered the browser with Hydra's redirect for f.
Redirected(kind, f) ==
    \E h \in Handlers : At(h, "done", kind) /\ req[h].flow = f /\ req[h].reply = "redirect"

\* Following the login redirect uses up the login challenge: Hydra remembers
\* the login and opens the consent challenge on it.
FollowLogin(f) ==
    /\ stage[f] = "login"
    /\ login[f] # None
    /\ Redirected("login", f)
    /\ stage' = [stage EXCEPT ![f] = "consent"]
    /\ remembered' = login[f]
    /\ opened' = [opened EXCEPT ![f] = profile[login[f].subject]]
    /\ UNCHANGED <<flow, login, consent, logout, upstream, req, audited>>

\* Following the consent redirect issues the tokens.
FollowConsent(f) ==
    /\ stage[f] = "consent"
    /\ consent[f] # None
    /\ Redirected("consent", f)
    /\ stage' = [stage EXCEPT ![f] = "issued"]
    /\ UNCHANGED <<flow, login, consent, logout, remembered, opened, upstream, req, audited>>

RequestLogout(f) ==
    /\ stage[f] = "issued"
    /\ stage' = [stage EXCEPT ![f] = "logout"]
    /\ UNCHANGED <<flow, login, consent, logout, remembered, opened, upstream, req, audited>>

FollowLogout(f) ==
    /\ stage[f] = "logout"
    /\ f \in logout
    /\ Redirected("logout", f)
    /\ stage' = [stage EXCEPT ![f] = "ended"]
    /\ remembered' = None
    /\ UNCHANGED <<flow, login, consent, logout, opened, upstream, req, audited>>

(* External: Kratos, Alkemio and the health of the upstreams *)

KratosLogin(i) ==
    /\ i \notin sessions
    /\ sessions' = sessions \cup {i}
    /\ UNCHANGED <<hydra, profile, mapped, up, req, audited>>

KratosLogout(i) ==
    /\ i \in sessions
    /\ sessions' = sessions \ {i}
    /\ UNCHANGED <<hydra, profile, mapped, up, req, audited>>

\* The user, or an operator, edits the profile; the required traits stay.
EditProfile(i) ==
    /\ \A j \in Identities : profile[j] < MaxEdits
    /\ profile' = [profile EXCEPT ![i] = @ + 1]
    /\ UNCHANGED <<hydra, sessions, mapped, up, req, audited>>

ProvisionActor(i) ==
    /\ i \notin mapped
    /\ mapped' = mapped \cup {i}
    /\ UNCHANGED <<hydra, sessions, profile, up, req, audited>>

UpstreamHealthChanges ==
    /\ up' = ~up
    /\ UNCHANGED <<hydra, sessions, profile, mapped, req, audited>>

-----------------------------------------------------------------------------

\* One step of the goroutine that runs the request of handler h.
ServiceStep(h) ==
    \/ GetRefused(h)
    \/ GetSkippedLogin(h) \/ GetStandardLogin(h) \/ IdentityHint(h)
    \/ FetchFails(h) \/ FetchLoginProfile(h) \/ AcceptLogin(h) \/ AcceptRefused(h)
    \/ GetConsent(h) \/ FetchConsentProfile(h) \/ AttachAlkemioClaim(h)
    \/ AcceptConsent(h) \/ EmitAutoAcceptAudit(h)
    \/ GetLogout(h) \/ AcceptLogout(h)

Browse(h) ==
    \/ \E kind \in Kinds, f \in Flows : Arrive(h, kind, f)
    \/ \E kind \in Kinds : ArriveBlank(h, kind)

HydraStep(f) ==
    \/ BeginAuthorization(f) \/ FollowLogin(f) \/ FollowConsent(f)
    \/ RequestLogout(f) \/ FollowLogout(f)

Environment ==
    \/ \E i \in Identities :
          KratosLogin(i) \/ KratosLogout(i) \/ EditProfile(i) \/ ProvisionActor(i)
    \/ UpstreamHealthChanges

Next ==
    \/ \E h \in Handlers : ServiceStep(h) \/ Browse(h)
    \/ \E f \in Flows : HydraStep(f)
    \/ Environment
    \/ Restart

Spec == Init /\ [][Next]_vars

-----------------------------------------------------------------------------
(* Fairness *)

\* Every upstream call of a request returns: the Hydra and Kratos clients carry
\* a 10 s timeout, the session resolver and the Alkemio API client one as well.
\* A query of the Alkemio database has none: that it ends is an assumption here
\* (AlkemioResolver says what happens without it).
CallsReturn == \A h \in Handlers : WF_vars(ServiceStep(h))

\* A browser that keeps retrying the challenge it is at and follows the
\* redirects it is given.
PersistentBrowser ==
    \A f \in Flows :
        /\ \A kind \in {"login", "consent"} :
              SF_vars(\E h \in Handlers : stage[f] = kind /\ Arrive(h, kind, f)
                                          /\ (kind = "login" => req'[h].cookie \in sessions))
        /\ SF_vars(FollowLogin(f)) /\ SF_vars(FollowConsent(f))

LiveSpec == Spec /\ CallsReturn /\ PersistentBrowser

-----------------------------------------------------------------------------
(* Properties *)

\* The tokens of a flow are those of the user who logged in: whichever of the
\* retried and interleaved login requests was accepted last, the identity in
\* the consent's claims (extractIdentityID, buildAccessTokenClaims) is the
\* subject Hydra holds for the flow, and it is a Kratos identity.
GrantIsForLoginIdentity ==
    \A f \in Flows : consent[f] # None =>
        /\ login[f] # None
        /\ consent[f].identity = login[f].subject
        /\ consent[f].identity \in Identities

\* A grant of the alkemio scope carries the actor id of its identity in both
\* tokens, and only such a grant does: neither the pre-consent short cut nor a
\* resolver failure lets the scope through without the claim
\* (attachAlkemioClaim, resolveConsentAutoAccept).
AlkemioScopeCarriesActor ==
    \A f \in Flows : consent[f] # None =>
        IF consent[f].alkemio
        THEN /\ consent[f].idActor = Actor(login[f].subject)
             /\ consent[f].accessActor = Actor(login[f].subject)
             /\ login[f].subject \in mapped
        ELSE consent[f].idActor = None /\ consent[f].accessActor = None

\* No grant for an identity without the required traits: the skip path accepts
\* a login without looking at Kratos, so the consent has to (Fetch in
\* ResolveConsent and in resolveConsentAutoAccept).
GrantNeedsTraits ==
    \A f \in Flows : consent[f] # None => login[f].subject \notin Incomplete

\* The login context Hydra hands on to the consent never disagrees with the
\* subject it was accepted for, even where Hydra remembered an older context
\* (ensureLoginContextIdentity, buildLoginContext).
LoginContextMatchesSubject ==
    \A f \in Flows : login[f] # None => login[f].context = login[f].subject

\* A browser is sent on to Hydra only for a challenge Hydra holds an acceptance
\* for: no failure is reported as a redirect (resolutionFromRedirect).
RedirectMeansAccepted ==
    \A h \in Handlers : req[h].reply = "redirect" =>
        LET f == req[h].flow
        IN  CASE req[h].kind = "login"   -> login[f] # None
              [] req[h].kind = "consent" -> consent[f] # None
              [] req[h].kind = "logout"  -> f \in logout

\* consent.auto_accept is emitted only for a trusted client whose consent Hydra
\* did accept (resolveConsentAutoAccept emits after AcceptConsentRequest).
AuditedMeansAutoAccepted ==
    \A e \in audited : flow[e.flow].trusted /\ consent[e.flow] # None

\* No token of a trusted client of which neither the audit log nor the service's
\* log knows.  A lost answer or a restart may leave an acceptance that was never
\* recorded, but the browser then has no redirect, and the retry that gives it one
\* emits the event first, or warns that it could not (resolveConsentAutoAccept,
\* emitAutoAcceptAudit).  That the event itself was written is not promised: the
\* emitter's error does not stop the answer.
TokensLeaveATrace ==
    \A f \in Flows :
        flow[f].trusted /\ stage[f] \in {"issued", "logout", "ended"} =>
            \E e \in audited : e.flow = f

\* The claims Hydra holds for a flow are from the user's profile as it was at some
\* moment since the consent was opened, never from before: not from the login, whose
\* context carries a profile as well, nor from an earlier flow.  Between two
\* acceptances of one consent the profile may change, and the acceptance that
\* arrives last wins, be its profile the older one; no acceptance reaches further
\* back than the opening (ResolveConsent and resolveConsentAutoAccept fetch for
\* themselves).
ClaimsAreFetchedForConsent ==
    \A f \in Flows : consent[f] # None =>
        consent[f].profile \in opened[f]..profile[login[f].subject]

\* Every request is answered or dies with the process: no path through the
\* orchestrator stops at a call whose result it does not handle.
RequestsAreAnswered ==
    \A h \in Handlers : InFlight(h) ~> ~InFlight(h)

\* From some point on nothing fails, the process stays up, and the users with
\* the required traits, and only they, are signed in and mapped.
CalmEventually ==
    <>[](up /\ sessions = Identities \ Incomplete /\ Identities \ Incomplete \subseteq mapped)

\* No failure, lost answer, restart or stale challenge leaves a flow stuck: once
\* the upstreams are calm again, a browser that keeps retrying gets its tokens.
\* Left out are the users who lack required traits: one whom Hydra's request
\* names is refused at the login each time, one whose login was skipped or hinted
\* past the check is refused at the consent each time.
FlowsComplete ==
    CalmEventually => \A f \in Flows :
        stage[f] = "login" /\ SkipSubject(f) \notin Incomplete ~>
            \/ stage[f] = "issued"
            \/ stage[f] = "consent" /\ login[f].subject \in Incomplete
=============================================================================
