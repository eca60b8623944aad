----------------------- MODULE ChallengeServiceProofs -----------------------
(***************************************************************************)
(* Proofs about ChallengeService, for every number of flows, handlers and  *)
(* identities.                                                             *)
(*                                                                         *)
(* The safety invariants are not inductive: what Hydra may store depends   *)
(* on what each goroutine holds between its calls.  IInv adds that: FlowOK *)
(* for what Hydra stores of a flow, RequestOK for what a goroutine holds.  *)
(* Most steps change one request record only (RequestStep); the others     *)
(* move Hydra or Alkemio forward and leave every request valid (Stable).   *)
(***************************************************************************)
EXTENDS ChallengeRefinement, TLAPS

\* The consent challenge exists: the accepted login is settled.
ConsentOpen(f) == stage[f] \notin {"new", "login"}

\* The consent redirect was followed.
TokensIssued(f) == stage[f] \in {"issued", "logout", "ended"}

\* The event of the flow was emitted, or its loss is in the log.
OnRecord(f) == \E e \in audited : e.flow = f

\* The only grant Hydra may ever store for a flow, but for how recent the profile
\* in it is.
GrantFor(f, version) ==
    LET a == IF flow[f].alkemio THEN Actor(login[f].subject) ELSE None
    IN  [alkemio |-> flow[f].alkemio, identity |-> login[f].subject,
         idActor |-> a, accessActor |-> a, profile |-> version]

FlowOK(f) ==
    /\ ConsentOpen(f) => login[f] # None
    /\ login[f] # None => /\ login[f].subject \in Identities
                          /\ login[f].context = login[f].subject
    /\ consent[f] # None => /\ ConsentOpen(f)
                            /\ consent[f] = GrantFor(f, consent[f].profile)
                            /\ login[f].subject \notin Incomplete
                            /\ flow[f].alkemio => login[f].subject \in mapped
    /\ OnRecord(f) => consent[f] # None /\ flow[f].trusted
    /\ flow[f].trusted /\ TokensIssued(f) => OnRecord(f)

\* What a goroutine with a consent challenge knows about its flow.
ConsentRequestOK(r) ==
    /\ r.pc \in {"fetch", "resolve", "accept"} => /\ ConsentOpen(r.flow)
                                                  /\ r.identity = login[r.flow].subject
    /\ r.pc \in {"get", "fetch", "resolve"} => r.actor = None
    /\ r.pc = "resolve" => flow[r.flow].alkemio
    /\ r.pc \in {"resolve", "accept"} => r.identity \notin Incomplete
    /\ r.pc = "accept" => IF flow[r.flow].alkemio
                          THEN r.actor = Actor(r.identity) /\ r.identity \in mapped
                          ELSE r.actor = None

\* Hydra holds an acceptance of the challenge of kind k of flow f.
Accepted(k, f) ==
    \/ k = "login" /\ login[f] # None
    \/ k = "consent" /\ consent[f] # None
    \/ k = "logout" /\ f \in logout

RequestOK(r) ==
    /\ r.pc \notin {"idle", "done"} => r.flow \in Flows
    /\ r.kind = "login" /\ r.pc = "accept" => r.identity \in Identities
    /\ r.kind = "consent" => ConsentRequestOK(r)
    /\ r.pc = "audit" => /\ consent[r.flow] # None
                         /\ flow[r.flow].trusted
    /\ r.reply = "redirect" => r.flow \in Flows /\ Accepted(r.kind, r.flow)
    /\ r.kind = "consent" /\ r.pc = "done" /\ r.reply = "redirect" =>
          (flow[r.flow].trusted => OnRecord(r.flow))

IInv ==
    /\ TypeOK
    /\ \A f \in Flows : FlowOK(f)
    /\ \A h \in Handlers : RequestOK(req[h])

-----------------------------------------------------------------------------
(* Steps that change one request record only *)

\* Profiles start unedited.
LEMMA Unedited == 0 \in Versions
  BY ChallengeAssumption DEF Versions

\* A step that changes one request record, and nothing at Hydra, keeps IInv when
\* the new record is a good one.
LEMMA RequestStep ==
    ASSUME IInv, NEW h \in Handlers, NEW r \in Request, RequestOK(r),
           req' = [req EXCEPT ![h] = r], UNCHANGED <<hydra, upstream, audited>>
    PROVE  IInv'
  <1>1. TypeOK'
    BY DEF IInv, TypeOK, hydra, upstream
  <1>2. \A f \in Flows : FlowOK(f)'
    BY DEF IInv, FlowOK, OnRecord, TokensIssued, GrantFor, ConsentOpen, hydra, upstream
  <1>3. \A q : RequestOK(q) => RequestOK(q)'
    BY DEF RequestOK, ConsentRequestOK, OnRecord, Accepted, ConsentOpen, hydra, upstream
  <1>4. ASSUME NEW g \in Handlers
        PROVE  RequestOK(req[g])'
    <2>1. req'[g] = IF g = h THEN r ELSE req[g]
      BY DEF IInv, TypeOK
    <2>2. RequestOK(req'[g])
      BY <2>1 DEF IInv
    <2>3. QED
      BY <2>2, <1>3 DEF RequestOK, ConsentRequestOK, OnRecord, Accepted, ConsentOpen, hydra, upstream
  <1>5. QED
    BY <1>1, <1>2, <1>4 DEF IInv

\* What IInv says of each request record.
LEMMA RecordTyping == IInv => \A h \in Handlers : req[h] \in Request /\ RequestOK(req[h])
  BY DEF IInv, TypeOK

\* An answer leaves nothing in the record that could go wrong.
LEMMA ReplyStep ==
    ASSUME IInv, NEW h \in Handlers, NEW code \in Codes, InFlight(h), Reply(h, code),
           UNCHANGED <<hydra, upstream, audited>>
    PROVE  IInv'
  <1> DEFINE r == [Idle EXCEPT !.pc = "done", !.kind = req[h].kind,
                               !.flow = req[h].flow, !.reply = code]
  <1>1. r \in Request
    BY RecordTyping, Unedited DEF Request, Idle
  <1>2. RequestOK(r)
    BY RecordTyping DEF RequestOK, ConsentRequestOK, Idle, Codes
  <1>3. QED
    BY <1>1, <1>2, RequestStep DEF Reply

\* A goroutine goes on to its next call.
LEMMA GotoStep ==
    ASSUME IInv, NEW h \in Handlers, NEW pc \in {"hint", "fetch", "resolve", "accept"},
           Goto(h, pc), RequestOK([req[h] EXCEPT !.pc = pc]),
           UNCHANGED <<hydra, upstream, audited>>
    PROVE  IInv'
  <1>1. [req[h] EXCEPT !.pc = pc] \in Request
    BY RecordTyping DEF Request
  <1>2. QED
    BY <1>1, RequestStep DEF Goto

\* A goroutine goes on to its next call with the identity it found.
LEMMA GotoWithStep ==
    ASSUME IInv, NEW h \in Handlers, NEW pc \in {"fetch", "accept"},
           NEW i \in Subjects \cup {None}, GotoWith(h, pc, i),
           RequestOK([req[h] EXCEPT !.pc = pc, !.identity = i, !.cookie = None]),
           UNCHANGED <<hydra, upstream, audited>>
    PROVE  IInv'
  <1> DEFINE r == [req[h] EXCEPT !.pc = pc, !.identity = i, !.cookie = None]
  <1>1. r \in Request
    BY RecordTyping DEF Request
  <1>2. req' = [req EXCEPT ![h] = r]
    BY RecordTyping DEF GotoWith, IInv, TypeOK, Request
  <1>3. QED
    BY <1>1, <1>2, RequestStep

\* The same two for a login, about which RequestOK says little.
LEMMA LoginGotoStep ==
    ASSUME IInv, NEW h \in Handlers, InFlight(h), req[h].kind = "login", req[h].pc # "audit",
           NEW pc \in {"hint", "fetch", "accept"}, Goto(h, pc),
           pc = "accept" => req[h].identity \in Identities,
           UNCHANGED <<hydra, upstream, audited>>
    PROVE  IInv'
  <1>1. RequestOK([req[h] EXCEPT !.pc = pc])
    BY RecordTyping DEF RequestOK, Request, InFlight
  <1>2. QED
    BY <1>1, GotoStep

\* A login request that goes on with the identity it found.
LEMMA LoginGotoWithStep ==
    ASSUME IInv, NEW h \in Handlers, InFlight(h), req[h].kind = "login", req[h].pc # "audit",
           NEW pc \in {"fetch", "accept"}, NEW i \in Subjects \cup {None}, GotoWith(h, pc, i),
           pc = "accept" => i \in Identities,
           UNCHANGED <<hydra, upstream, audited>>
    PROVE  IInv'
  <1>1. RequestOK([req[h] EXCEPT !.pc = pc, !.identity = i, !.cookie = None])
    BY RecordTyping DEF RequestOK, Request, InFlight
  <1>2. QED
    BY <1>1, GotoWithStep

\* A request that arrives starts with an empty record.
LEMMA ArriveStep ==
    ASSUME IInv, NEW h \in Handlers, NEW kind \in Kinds, NEW f \in Flows,
           Arrive(h, kind, f)
    PROVE  IInv'
  <1>1. PICK c \in Identities \cup {None} :
            req' = [req EXCEPT ![h] = [Idle EXCEPT !.pc = "get", !.kind = kind,
                                                   !.flow = f, !.cookie = c]]
    BY DEF Arrive
  <1> DEFINE r == [Idle EXCEPT !.pc = "get", !.kind = kind, !.flow = f, !.cookie = c]
  <1>2. r \in Request
    BY Unedited DEF Request, Idle
  <1>3. RequestOK(r)
    BY NoneAssumption DEF RequestOK, ConsentRequestOK, Idle
  <1>4. QED
    BY <1>1, <1>2, <1>3, RequestStep DEF Arrive

\* A request without a challenge id is answered in one step.
LEMMA ArriveBlankStep ==
    ASSUME IInv, NEW h \in Handlers, NEW kind \in Kinds, ArriveBlank(h, kind)
    PROVE  IInv'
  <1> DEFINE r == [Idle EXCEPT !.pc = "done", !.kind = kind, !.reply = "missing_challenge"]
  <1>1. r \in Request
    BY Unedited DEF Request, Idle, Codes
  <1>2. RequestOK(r)
    BY DEF RequestOK, ConsentRequestOK, Idle
  <1>3. QED
    BY <1>1, <1>2, RequestStep DEF ArriveBlank

\* Steps that end a request with an error code.
LEMMA RefusalSteps ==
    ASSUME IInv, NEW h \in Handlers, GetRefused(h) \/ FetchFails(h) \/ AcceptRefused(h)
    PROVE  IInv'
  <1>1. CASE GetRefused(h)
    BY <1>1, ReplyStep DEF GetRefused, HydraErrors, Codes, InFlight
  <1>2. CASE FetchFails(h)
    BY <1>2, ReplyStep DEF FetchFails, Codes, InFlight
  <1>3. CASE AcceptRefused(h)
    BY <1>3, ReplyStep DEF AcceptRefused, HydraErrors, Codes, InFlight
  <1>4. QED
    BY <1>1, <1>2, <1>3

\* GetLoginRequest, skipped or not.
LEMMA LoginGetSteps ==
    ASSUME IInv, NEW h \in Handlers, GetSkippedLogin(h) \/ GetStandardLogin(h)
    PROVE  IInv'
  <1> DEFINE f == req[h].flow
  <1>1. /\ req[h].kind = "login"
        /\ req[h].pc = "get"
        /\ InFlight(h)
    BY DEF GetSkippedLogin, GetStandardLogin, At, InFlight
  <1>2. flow[f] \in FlowParameters
    BY <1>1, RecordTyping DEF IInv, TypeOK, RequestOK
  <1>3. SkipSubject(f) \in Subjects \cup {None}
    BY <1>2 DEF SkipSubject, FlowParameters
  <1>4. CASE GetSkippedLogin(h)
    <2>1. CASE Reply(h, "hydra_failure")
      BY <1>1, <1>4, <2>1, ReplyStep DEF GetSkippedLogin, Codes
    <2>2. CASE /\ IsKratosIdentityID(SkipSubject(f))
               /\ GotoWith(h, "accept", SkipSubject(f))
      BY <1>1, <1>3, <1>4, <2>2, LoginGotoWithStep DEF GetSkippedLogin, IsKratosIdentityID
    <2>3. CASE Goto(h, "hint")
      BY <1>1, <1>4, <2>3, LoginGotoStep DEF GetSkippedLogin
    <2>4. QED
      BY <1>4, <2>1, <2>2, <2>3 DEF GetSkippedLogin
  <1>5. CASE GetStandardLogin(h)
    <2>1. CASE GotoWith(h, "fetch", flow[f].subject)
      BY <1>1, <1>2, <1>5, <2>1, LoginGotoWithStep DEF GetStandardLogin, FlowParameters
    <2>2. CASE Goto(h, "hint")
      BY <1>1, <1>5, <2>2, LoginGotoStep DEF GetStandardLogin
    <2>3. QED
      BY <1>5, <2>1, <2>2 DEF GetStandardLogin
  <1>6. QED
    BY <1>4, <1>5

\* Taking the identity from the Kratos session.
LEMMA IdentityHintStep ==
    ASSUME IInv, NEW h \in Handlers, IdentityHint(h)
    PROVE  IInv'
  <1> DEFINE c == req[h].cookie
             next == IF flow[req[h].flow].skip THEN "accept" ELSE "fetch"
  <1>1. /\ req[h].kind = "login"
        /\ req[h].pc = "hint"
        /\ InFlight(h)
        /\ UNCHANGED <<hydra, upstream, audited>>
    BY DEF IdentityHint, At, InFlight
  <1>2. CASE c \in sessions /\ GotoWith(h, next, c)
    <2>1. c \in Identities
      BY <1>2 DEF IInv, TypeOK
    <2>2. QED
      BY <1>1, <1>2, <2>1, LoginGotoWithStep DEF Subjects
  <1>3. CASE \E code \in Codes : Reply(h, code)
    BY <1>1, <1>3, ReplyStep
  <1>4. QED
    BY <1>2, <1>3 DEF IdentityHint, Codes

\* The profile of a login is there.
LEMMA FetchLoginStep ==
    ASSUME IInv, NEW h \in Handlers, FetchLoginProfile(h)
    PROVE  IInv'
  BY LoginGotoStep DEF FetchLoginProfile, FetchOK, InFlight

\* The consent request shows the settled login: its context, which is its subject.
LEMMA ConsentIdentity ==
    ASSUME IInv, NEW f \in Flows, ConsentOpen(f)
    PROVE  /\ ExtractIdentityID(f) = login[f].subject
           /\ login[f].subject \in Identities
           /\ ExtractIdentityID(f) # None
  BY ChallengeAssumption DEF IInv, FlowOK, ExtractIdentityID

\* GetConsentRequest: the identity found is that of the settled login.
LEMMA GetConsentStep ==
    ASSUME IInv, NEW h \in Handlers, GetConsent(h)
    PROVE  IInv'
  <1> DEFINE f == req[h].flow
             i == ExtractIdentityID(f)
  <1>1. f \in Flows /\ ConsentOpen(f) /\ req[h].kind = "consent" /\ req[h].pc = "get"
    BY RecordTyping DEF GetConsent, At, RequestOK, ConsentOpen
  <1>2. i = login[f].subject /\ i \in Identities /\ i # None
    BY <1>1, ConsentIdentity
  <1>3. GotoWith(h, "fetch", i)
    BY <1>2 DEF GetConsent
  <1>4. RequestOK([req[h] EXCEPT !.pc = "fetch", !.identity = i, !.cookie = None])
    BY <1>1, <1>2, RecordTyping DEF RequestOK, ConsentRequestOK, Request
  <1>5. QED
    BY <1>2, <1>3, <1>4, GotoWithStep DEF GetConsent, Subjects

\* The profile of a consent is there, so its identity has the traits.
LEMMA FetchConsentStep ==
    ASSUME IInv, NEW h \in Handlers, FetchConsentProfile(h)
    PROVE  IInv'
  <1> DEFINE pc == IF flow[req[h].flow].alkemio THEN "resolve" ELSE "accept"
             r == [req[h] EXCEPT !.pc = pc, !.profile = profile[req[h].identity]]
  <1>1. /\ req[h].kind = "consent" /\ req[h].pc = "fetch"
        /\ req[h].identity \in Identities \ Incomplete
    BY DEF FetchConsentProfile, FetchOK
  <1>2. profile[req[h].identity] \in Versions
    BY <1>1 DEF IInv, TypeOK
  <1>3. r \in Request
    BY <1>2, RecordTyping DEF Request
  <1>4. RequestOK(r)
    BY <1>1, RecordTyping DEF RequestOK, ConsentRequestOK, Request, Accepted
  <1>5. req' = [req EXCEPT ![h] = r]
    BY DEF FetchConsentProfile, IInv, TypeOK
  <1>6. QED
    BY <1>3, <1>4, <1>5, RequestStep DEF FetchConsentProfile

\* A resolved actor id belongs to the request's identity.
LEMMA AttachStep ==
    ASSUME IInv, NEW h \in Handlers, AttachAlkemioClaim(h)
    PROVE  IInv'
  <1> DEFINE i == req[h].identity
             r == [req[h] EXCEPT !.pc = "accept", !.actor = Actor(i)]
  <1>1. /\ req[h].kind = "consent" /\ req[h].pc = "resolve" /\ InFlight(h)
        /\ UNCHANGED <<hydra, upstream, audited>>
    BY DEF AttachAlkemioClaim, At, InFlight
  <1>2. CASE i \in mapped /\ req' = [req EXCEPT ![h].pc = "accept", ![h].actor = Actor(i)]
    <2>1. Actor(i) \in Actors
      BY <1>2 DEF IInv, TypeOK, Actors
    <2>2. r \in Request
      BY <2>1, RecordTyping DEF Request
    <2>3. RequestOK(r)
      BY <1>1, <1>2, RecordTyping DEF RequestOK, ConsentRequestOK, Request, Accepted
    <2>4. req' = [req EXCEPT ![h] = r]
      BY <1>2 DEF IInv, TypeOK
    <2>5. QED
      BY <1>1, <2>2, <2>3, <2>4, RequestStep
  <1>3. CASE \E code \in Codes : Reply(h, code)
    BY <1>1, <1>3, ReplyStep
  <1>4. QED
    BY <1>2, <1>3 DEF AttachAlkemioClaim, Codes

\* GetLogoutRequest changes the record only.
LEMMA GetLogoutStep ==
    ASSUME IInv, NEW h \in Handlers, GetLogout(h)
    PROVE  IInv'
  <1>1. RequestOK([req[h] EXCEPT !.pc = "accept"])
    BY RecordTyping DEF GetLogout, At, RequestOK, Request, Accepted
  <1>2. QED
    BY <1>1, GotoStep DEF GetLogout

\* A restart leaves idle records and answered ones.
LEMMA RestartStep ==
    ASSUME IInv, Restart
    PROVE  IInv'
  <1>1. TypeOK'
    BY Unedited DEF Restart, IInv, TypeOK, Idle, Request, hydra, upstream, Kinds
  <1>2. \A f \in Flows : FlowOK(f)'
    BY DEF Restart, IInv, FlowOK, OnRecord, TokensIssued, GrantFor, ConsentOpen, hydra, upstream
  <1>3. RequestOK(Idle)
    BY NoneAssumption DEF RequestOK, ConsentRequestOK, Idle
  <1>4. ASSUME NEW h \in Handlers
        PROVE  RequestOK(req[h])'
    <2>1. req'[h] = Idle \/ req'[h] = req[h]
      BY DEF Restart
    <2>2. RequestOK(req'[h])
      BY <2>1, <1>3 DEF IInv
    <2>3. QED
      BY <2>2 DEF Restart, RequestOK, ConsentRequestOK, OnRecord, Accepted, ConsentOpen, hydra, upstream
  <1>5. QED
    BY <1>1, <1>2, <1>4 DEF IInv

-----------------------------------------------------------------------------
(* Steps that change what Hydra or Alkemio holds *)

\* Hydra and Alkemio only move forward: a settled login and the parameters of
\* its flow stay, and nothing accepted or mapped is taken back.
Stable ==
    /\ \A f \in Flows : ConsentOpen(f) => /\ ConsentOpen(f)'
                                          /\ login'[f] = login[f]
                                          /\ flow'[f] = flow[f]
    /\ \A f \in Flows : login[f] # None => login'[f] # None
    /\ \A f \in Flows : consent[f] # None => consent'[f] # None
    /\ logout \subseteq logout'
    /\ mapped \subseteq mapped'
    /\ audited \subseteq audited'

\* A request record stays good when Hydra's data only grows.
LEMMA StableRequest ==
    ASSUME IInv, Stable, NEW r \in Request, RequestOK(r)
    PROVE  RequestOK(r)'
  <1>1. r.kind = "consent" => ConsentRequestOK(r)'
    <2> SUFFICES ASSUME r.kind = "consent" PROVE ConsentRequestOK(r)'
      OBVIOUS
    <2>1. CASE r.pc \in {"fetch", "resolve", "accept"}
      BY <2>1 DEF Stable, RequestOK, ConsentRequestOK
    <2>2. CASE r.pc \notin {"fetch", "resolve", "accept"}
      BY <2>2 DEF RequestOK, ConsentRequestOK
    <2>3. QED
      BY <2>1, <2>2
  <1>2. r.reply = "redirect" => r.flow \in Flows /\ Accepted(r.kind, r.flow)'
    BY DEF Stable, RequestOK, Accepted
  <1>3. r.pc = "audit" => consent'[r.flow] # None /\ flow'[r.flow].trusted
    BY DEF Stable, RequestOK, IInv, FlowOK
  <1>4. ASSUME r.kind = "consent", r.pc = "done", r.reply = "redirect", flow'[r.flow].trusted
        PROVE  OnRecord(r.flow)'
    <2>1. r.flow \in Flows /\ consent[r.flow] # None
      BY <1>4 DEF RequestOK, Accepted
    <2>2. flow'[r.flow] = flow[r.flow]
      BY <2>1 DEF Stable, IInv, FlowOK
    <2>3. QED
      BY <1>4, <2>1, <2>2 DEF Stable, RequestOK, OnRecord
  <1>5. QED
    BY <1>1, <1>2, <1>3, <1>4 DEF RequestOK

\* Steps that leave every request record alone.
LEMMA StableStep ==
    ASSUME IInv, Stable, TypeOK', \A f \in Flows : FlowOK(f)', req' = req
    PROVE  IInv'
  <1>1. ASSUME NEW h \in Handlers
        PROVE  RequestOK(req[h])'
    <2>1. PICK r \in Request : r = req[h] /\ RequestOK(r)
      BY RecordTyping
    <2>2. RequestOK(r)'
      BY <2>1, StableRequest
    <2>3. req'[h] = r
      BY <2>1
    <2>4. QED
      BY <2>2, <2>3 DEF RequestOK, ConsentRequestOK, OnRecord, Accepted, ConsentOpen
  <1>2. QED
    BY <1>1 DEF IInv

\* A new authorization disturbs no other flow.
LEMMA BeginStep ==
    ASSUME IInv, NEW f \in Flows, BeginAuthorization(f)
    PROVE  IInv'
  <1>1. PICK client \in Clients, r \in HydraLoginRequests :
            flow' = [flow EXCEPT ![f] = [alkemio |-> client.alkemio, trusted |-> client.trusted,
                                         skip |-> r.skip, subject |-> r.subject,
                                         context |-> r.context]]
    BY DEF BeginAuthorization
  <1>2. r \in [skip : BOOLEAN, subject : Subjects \cup {None}, context : Subjects \cup {None}]
    BY DEF HydraLoginRequests, IInv, TypeOK, LoginAcceptance
  <1>3. flow' \in [Flows -> FlowParameters]
    BY <1>1, <1>2, ChallengeAssumption DEF IInv, TypeOK, FlowParameters
  <1>4. TypeOK'
    BY <1>3 DEF IInv, TypeOK, BeginAuthorization, Stages, upstream
  <1>5. Stable
    BY <1>1 DEF IInv, TypeOK, Stable, ConsentOpen, BeginAuthorization, upstream
  <1>6. ASSUME NEW g \in Flows
        PROVE  FlowOK(g)'
    <2>1. CASE g = f
      <3>1. consent[g] = None /\ ~OnRecord(g)
        BY <2>1 DEF IInv, FlowOK, OnRecord, TokensIssued, ConsentOpen, BeginAuthorization
      <3>2. QED
        BY <2>1, <3>1 DEF IInv, TypeOK, FlowOK, OnRecord, TokensIssued, ConsentOpen, BeginAuthorization
    <2>2. CASE g # f
      BY <1>1, <2>2 DEF IInv, TypeOK, FlowOK, OnRecord, TokensIssued, ConsentOpen, GrantFor, BeginAuthorization, upstream
    <2>3. QED
      BY <2>1, <2>2
  <1>7. QED
    BY <1>4, <1>5, <1>6, StableStep DEF BeginAuthorization

\* Following a redirect moves a flow on from what Hydra holds.
LEMMA FollowStep ==
    ASSUME IInv, NEW f \in Flows,
           FollowLogin(f) \/ FollowConsent(f) \/ RequestLogout(f) \/ FollowLogout(f)
    PROVE  IInv'
  <1> USE DEF FollowLogin, FollowConsent, RequestLogout, FollowLogout
  <1>1. TypeOK'
    BY DEF IInv, TypeOK, FlowOK, Stages, upstream
  <1>2. /\ Stable
        /\ req' = req
    BY DEF IInv, TypeOK, Stable, ConsentOpen, upstream
  <1>3. stage'[f] \in {"issued", "logout", "ended"} /\ flow[f].trusted => OnRecord(f)
    <2>1. CASE FollowConsent(f)
      <3>1. PICK h \in Handlers : At(h, "done", "consent") /\ req[h].flow = f /\ req[h].reply = "redirect"
        BY <2>1 DEF Redirected
      <3>2. QED
        BY <3>1, RecordTyping DEF At, RequestOK
    <2>2. CASE RequestLogout(f) \/ FollowLogout(f)
      BY <2>2 DEF IInv, FlowOK, OnRecord, TokensIssued
    <2>3. CASE FollowLogin(f)
      BY <2>3 DEF IInv, TypeOK
    <2>4. QED
      BY <2>1, <2>2, <2>3
  <1>4. \A g \in Flows : FlowOK(g)'
    BY <1>3 DEF IInv, TypeOK, FlowOK, OnRecord, TokensIssued, ConsentOpen, GrantFor, upstream
  <1>5. QED
    BY <1>1, <1>2, <1>4, StableStep

\* Sessions, mappings and health may change at any time.
LEMMA EnvironmentStep ==
    ASSUME IInv, Environment
    PROVE  IInv'
  <1> USE DEF Environment, KratosLogin, KratosLogout, EditProfile, ProvisionActor,
              UpstreamHealthChanges
  <1>1. TypeOK'
    <2>1. ASSUME NEW i \in Identities, EditProfile(i)
          PROVE  profile' \in [Identities -> Versions]
      <3>1. profile[i] \in Versions /\ profile[i] < MaxEdits
        BY <2>1 DEF IInv, TypeOK
      <3>2. profile[i] + 1 \in Versions
        BY <3>1, ChallengeAssumption DEF Versions
      <3>3. QED
        BY <2>1, <3>2 DEF IInv, TypeOK
    <2>2. profile' \in [Identities -> Versions]
      BY <2>1 DEF IInv, TypeOK
    <2>3. /\ sessions' \subseteq Identities /\ mapped' \subseteq Identities /\ up' \in BOOLEAN
          /\ UNCHANGED <<hydra, req, audited>>
      BY DEF IInv, TypeOK
    <2>4. QED
      BY <2>2, <2>3 DEF IInv, TypeOK, hydra
  <1>2. /\ Stable
        /\ req' = req
    BY DEF IInv, TypeOK, Stable, ConsentOpen, hydra
  <1>3. \A g \in Flows : FlowOK(g)'
    BY DEF IInv, TypeOK, FlowOK, OnRecord, TokensIssued, ConsentOpen, GrantFor, hydra
  <1>4. QED
    BY <1>1, <1>2, <1>3, StableStep

-----------------------------------------------------------------------------
(* Acceptances: a request record and what Hydra holds change together *)

\* A step that changes Hydra's data and one request record.
LEMMA StableRecordStep ==
    ASSUME IInv, Stable, TypeOK', \A f \in Flows : FlowOK(f)',
           NEW h \in Handlers, NEW r \in Request, RequestOK(r)',
           req' = [req EXCEPT ![h] = r]
    PROVE  IInv'
  <1>1. ASSUME NEW g \in Handlers
        PROVE  RequestOK(req[g])'
    <2>1. PICK q \in Request : q = req[g] /\ RequestOK(q)
      BY RecordTyping
    <2>2. RequestOK(q)'
      BY <2>1, StableRequest
    <2>3. req'[g] = q \/ req'[g] = r
      BY <2>1 DEF IInv, TypeOK
    <2>4. QED
      BY <2>2, <2>3 DEF RequestOK, ConsentRequestOK, OnRecord, Accepted, ConsentOpen
  <1>2. QED
    BY <1>1 DEF IInv

\* A record that answers h's request with one of `codes`.
AnsweredAs(r, h, codes) ==
    /\ r.pc = "done"
    /\ r.kind = req[h].kind
    /\ r.flow = req[h].flow
    /\ r.reply \in codes
    /\ req' = [req EXCEPT ![h] = r]

\* The record an answer leaves behind, as a value.
LEMMA ReplyRecord ==
    ASSUME IInv, NEW h \in Handlers, NEW code \in Codes \cup {"redirect"}, Reply(h, code)
    PROVE  \E r \in Request : AnsweredAs(r, h, {code})
  <1> DEFINE r == [Idle EXCEPT !.pc = "done", !.kind = req[h].kind,
                               !.flow = req[h].flow, !.reply = code]
  <1>1. r \in Request
    BY RecordTyping, Unedited DEF Idle, Request
  <1>2. AnsweredAs(r, h, {code})
    BY DEF AnsweredAs, Idle, Reply
  <1>3. QED
    BY <1>1, <1>2

\* An accepted login: subject and context name one identity.
LEMMA AcceptLoginStep ==
    ASSUME IInv, NEW h \in Handlers, AcceptLogin(h)
    PROVE  IInv'
  <1> DEFINE f == req[h].flow
             i == req[h].identity
  <1>1. /\ req[h].kind = "login" /\ req[h].pc = "accept"
        /\ f \in Flows /\ stage[f] = "login" /\ i \in Identities
    BY RecordTyping DEF AcceptLogin, At, RequestOK
  <1>2. LoginContext(f, i) = i
    BY <1>1, ChallengeAssumption DEF LoginContext, EnsureLoginContextIdentity
  <1>3. PICK r \in Request : AnsweredAs(r, h, {"redirect", "hydra_failure"})
    BY ReplyRecord DEF AcceptLogin, Codes, AnsweredAs
  <1>4. /\ login' = [login EXCEPT ![f] = [subject |-> i, context |-> i]]
        /\ UNCHANGED <<stage, flow, consent, logout, remembered, opened, upstream, audited>>
    BY <1>2 DEF AcceptLogin
  <1>5. [subject |-> i, context |-> i] \in LoginAcceptance
    BY <1>1 DEF LoginAcceptance, Subjects
  <1>6. login'[f] # None
    BY <1>1, <1>4, <1>5, NoneAssumption DEF IInv, TypeOK
  <1>7. TypeOK'
    BY <1>1, <1>3, <1>4, <1>5 DEF IInv, TypeOK, upstream, AnsweredAs
  <1>8. Stable
    BY <1>1, <1>4, <1>6 DEF IInv, TypeOK, Stable, ConsentOpen, upstream
  <1>9. ASSUME NEW g \in Flows
        PROVE  FlowOK(g)'
    <2>1. CASE g = f
      <3>1. consent[g] = None /\ ~OnRecord(g)
        BY <1>1, <2>1 DEF IInv, FlowOK, OnRecord, TokensIssued, ConsentOpen
      <3>2. login'[g] = [subject |-> i, context |-> i]
        BY <1>1, <1>4, <2>1 DEF IInv, TypeOK
      <3>3. QED
        BY <1>1, <1>4, <1>6, <2>1, <3>1, <3>2 DEF FlowOK, OnRecord, TokensIssued
    <2>2. CASE g # f
      BY <1>4, <2>2 DEF IInv, TypeOK, FlowOK, OnRecord, TokensIssued, ConsentOpen, GrantFor, upstream
    <2>3. QED
      BY <2>1, <2>2
  <1>10. RequestOK(r)'
    BY <1>1, <1>3, <1>6 DEF RequestOK, Accepted, AnsweredAs
  <1>11. QED
    BY <1>3, <1>7, <1>8, <1>9, <1>10, StableRecordStep DEF AnsweredAs

\* An accepted consent: its claims are those of the login.
LEMMA AcceptConsentStep ==
    ASSUME IInv, NEW h \in Handlers, AcceptConsent(h)
    PROVE  IInv'
  <1> DEFINE f == req[h].flow
  <1>1. /\ req[h].kind = "consent" /\ req[h].pc = "accept"
        /\ f \in Flows /\ ConsentOpen(f) /\ ConsentRequestOK(req[h])
        /\ req[h] \in Request
    BY RecordTyping DEF AcceptConsent, At, RequestOK, ConsentOpen
  <1>2. /\ GrantOf(h) = GrantFor(f, req[h].profile)
        /\ GrantOf(h) \in Grant
        /\ login[f].subject \notin Incomplete
        /\ flow[f].alkemio => login[f].subject \in mapped
    <2>1. flow[f] \in FlowParameters /\ login[f].subject \in Identities
      BY <1>1, ConsentIdentity DEF IInv, TypeOK
    <2>2. QED
      BY <1>1, <2>1 DEF GrantOf, GrantFor, Grant, ConsentRequestOK, FlowParameters, Request
  <1>3. /\ consent' = [consent EXCEPT ![f] = GrantFor(f, req[h].profile)]
        /\ UNCHANGED <<stage, flow, login, logout, remembered, opened, upstream, audited>>
    BY <1>2 DEF AcceptConsent
  <1>4. consent'[f] = GrantFor(f, req[h].profile) /\ consent'[f] # None
    BY <1>1, <1>2, <1>3, NoneAssumption DEF IInv, TypeOK
  <1>5. PICK r \in Request : /\ req' = [req EXCEPT ![h] = r]
                             /\ r.kind = "consent" /\ r.flow = f
                             /\ \/ r.pc = "done" /\ (r.reply = "redirect" => ~flow[f].trusted)
                                \/ r.pc = "audit" /\ flow[f].trusted
    <2>1. CASE \E code \in {"redirect", "hydra_failure"} :
                  Reply(h, code) /\ (code = "redirect" => ~flow[f].trusted)
      <3>1. PICK code \in {"redirect", "hydra_failure"} :
                Reply(h, code) /\ (code = "redirect" => ~flow[f].trusted)
        BY <2>1
      <3>2. PICK r \in Request : AnsweredAs(r, h, {code})
        BY <3>1, ReplyRecord DEF Codes
      <3>3. QED
        BY <1>1, <3>1, <3>2 DEF AnsweredAs
    <2>2. CASE /\ flow[f].trusted
               /\ \E code \in {"redirect", "hydra_failure"} :
                     req' = [req EXCEPT ![h].pc = "audit", ![h].reply = code]
      <3>1. PICK code \in {"redirect", "hydra_failure"} :
                req' = [req EXCEPT ![h].pc = "audit", ![h].reply = code]
        BY <2>2
      <3> DEFINE r == [req[h] EXCEPT !.pc = "audit", !.reply = code]
      <3>2. r \in Request /\ r.kind = "consent" /\ r.flow = f /\ r.pc = "audit"
        BY <1>1 DEF Request, Codes
      <3>3. req' = [req EXCEPT ![h] = r]
        BY <3>1 DEF IInv, TypeOK
      <3>4. QED
        BY <2>2, <3>2, <3>3
    <2>3. QED
      BY <2>1, <2>2 DEF AcceptConsent
  <1>6. TypeOK'
    BY <1>1, <1>2, <1>3, <1>5 DEF IInv, TypeOK, upstream
  <1>7. Stable
    BY <1>3, <1>4 DEF IInv, TypeOK, Stable, ConsentOpen, upstream
  <1>8. ASSUME NEW g \in Flows
        PROVE  FlowOK(g)'
    <2>1. CASE g = f
      <3>1. (consent[g] = GrantFor(g, consent[g].profile))'
        <4>1. consent'[g] = GrantFor(g, req[h].profile)
          BY <1>4, <2>1
        <4>2. consent'[g].profile = req[h].profile
          BY <4>1 DEF GrantFor
        <4>3. QED
          BY <1>3, <4>1, <4>2 DEF GrantFor
      <3>2. FlowOK(g) /\ ConsentOpen(g)
        BY <1>1, <2>1 DEF IInv
      <3>3. UNCHANGED <<stage, flow, login, mapped, audited>>
        BY <1>3 DEF upstream
      <3>4. QED
        BY <1>2, <1>4, <2>1, <3>1, <3>2, <3>3 DEF FlowOK, OnRecord, TokensIssued, ConsentOpen
    <2>2. CASE g # f
      BY <1>3, <2>2 DEF IInv, TypeOK, FlowOK, OnRecord, TokensIssued, ConsentOpen, GrantFor, upstream
    <2>3. QED
      BY <2>1, <2>2
  <1>9. RequestOK(r)'
    BY <1>1, <1>3, <1>4, <1>5 DEF RequestOK, ConsentRequestOK, Accepted
  <1>10. QED
    BY <1>5, <1>6, <1>7, <1>8, <1>9, StableRecordStep

\* The audit event follows an acceptance.
LEMMA AuditStep ==
    ASSUME IInv, NEW h \in Handlers, EmitAutoAcceptAudit(h)
    PROVE  IInv'
  <1> DEFINE f == req[h].flow
  <1>1. /\ req[h].kind = "consent" /\ req[h].pc = "audit" /\ req[h] \in Request
        /\ f \in Flows /\ consent[f] # None /\ flow[f].trusted
    BY RecordTyping DEF EmitAutoAcceptAudit, At, RequestOK
  <1>2. /\ \E written \in BOOLEAN : audited' = audited \cup {[flow |-> f, written |-> written]}
        /\ UNCHANGED <<hydra, upstream>>
        /\ req' = [req EXCEPT ![h] = [Idle EXCEPT !.pc = "done", !.kind = req[h].kind,
                                                 !.flow = f, !.reply = req[h].reply]]
    BY DEF EmitAutoAcceptAudit, Reply
  <1>3. PICK r \in Request : /\ req' = [req EXCEPT ![h] = r]
                             /\ r.pc = "done" /\ r.kind = "consent" /\ r.flow = f
    <2> DEFINE r == [Idle EXCEPT !.pc = "done", !.kind = req[h].kind,
                                 !.flow = f, !.reply = req[h].reply]
    <2>1. r \in Request /\ r.pc = "done" /\ r.kind = "consent" /\ r.flow = f
      BY <1>1, Unedited DEF Idle, Request
    <2>2. QED
      BY <1>2, <2>1
  <1>4. TypeOK'
    BY <1>1, <1>2, <1>3 DEF IInv, TypeOK, AuditRecord, hydra, upstream
  <1>5. Stable
    BY <1>2 DEF Stable, ConsentOpen, hydra, upstream
  <1>6. \A g \in Flows : FlowOK(g)'
    BY <1>1, <1>2 DEF IInv, FlowOK, OnRecord, TokensIssued, ConsentOpen, GrantFor, hydra, upstream
  <1>7. RequestOK(r)'
    <2>1. PICK written \in BOOLEAN : audited' = audited \cup {[flow |-> f, written |-> written]}
      BY <1>2
    <2>2. [flow |-> f, written |-> written] \in audited' /\ r.flow = f
      BY <1>3, <2>1
    <2>3. \E e \in audited' : e.flow = r.flow
      BY <2>2
    <2>4. QED
      BY <1>1, <1>2, <1>3, <2>3 DEF RequestOK, ConsentRequestOK, OnRecord, Accepted, hydra
  <1>8. QED
    BY <1>3, <1>4, <1>5, <1>6, <1>7, StableRecordStep

\* An accepted logout.
LEMMA AcceptLogoutStep ==
    ASSUME IInv, NEW h \in Handlers, AcceptLogout(h)
    PROVE  IInv'
  <1> DEFINE f == req[h].flow
  <1>1. req[h].kind = "logout" /\ req[h].pc = "accept" /\ f \in Flows
    BY RecordTyping DEF AcceptLogout, At, RequestOK
  <1>2. PICK r \in Request : AnsweredAs(r, h, {"redirect", "hydra_failure"})
    BY ReplyRecord DEF AcceptLogout, Codes, AnsweredAs
  <1>3. /\ logout' = logout \cup {f}
        /\ UNCHANGED <<stage, flow, login, consent, remembered, opened, upstream, audited>>
    BY DEF AcceptLogout
  <1>4. TypeOK'
    BY <1>1, <1>2, <1>3 DEF IInv, TypeOK, upstream, AnsweredAs
  <1>5. Stable
    BY <1>3 DEF Stable, ConsentOpen, upstream
  <1>6. \A g \in Flows : FlowOK(g)'
    BY <1>3 DEF IInv, FlowOK, OnRecord, TokensIssued, ConsentOpen, GrantFor, upstream
  <1>7. RequestOK(r)'
    BY <1>1, <1>2, <1>3 DEF RequestOK, Accepted, AnsweredAs
  <1>8. QED
    BY <1>2, <1>4, <1>5, <1>6, <1>7, StableRecordStep DEF AnsweredAs

-----------------------------------------------------------------------------
(* The invariant *)

\* The invariant holds initially.
LEMMA InitInv == Init => IInv
  <1> SUFFICES ASSUME Init PROVE IInv
    OBVIOUS
  <1>1. TypeOK
    BY Unedited DEF Init, TypeOK, Stages, FlowParameters, Unrequested, RememberedLogins,
           Request, Idle, Kinds
  <1>2. \A f \in Flows : FlowOK(f)
    BY DEF Init, FlowOK, OnRecord, TokensIssued, ConsentOpen
  <1>3. \A h \in Handlers : RequestOK(req[h])
    BY NoneAssumption DEF Init, RequestOK, ConsentRequestOK, Idle
  <1>4. QED
    BY <1>1, <1>2, <1>3 DEF IInv

\* Every step of a request goroutine keeps the invariant.
LEMMA ServiceStepInv ==
    ASSUME IInv, NEW h \in Handlers, ServiceStep(h)
    PROVE  IInv'
  <1>1. CASE GetRefused(h) \/ FetchFails(h) \/ AcceptRefused(h)
    BY <1>1, RefusalSteps
  <1>2. CASE GetSkippedLogin(h) \/ GetStandardLogin(h)
    BY <1>2, LoginGetSteps
  <1>3. CASE IdentityHint(h) \/ FetchLoginProfile(h) \/ AcceptLogin(h)
    BY <1>3, IdentityHintStep, FetchLoginStep, AcceptLoginStep
  <1>4. CASE GetConsent(h) \/ FetchConsentProfile(h) \/ AttachAlkemioClaim(h)
    BY <1>4, GetConsentStep, FetchConsentStep, AttachStep
  <1>5. CASE AcceptConsent(h) \/ EmitAutoAcceptAudit(h)
    BY <1>5, AcceptConsentStep, AuditStep
  <1>6. CASE GetLogout(h) \/ AcceptLogout(h)
    BY <1>6, GetLogoutStep, AcceptLogoutStep
  <1>7. QED
    BY <1>1, <1>2, <1>3, <1>4, <1>5, <1>6 DEF ServiceStep

\* Every step of the system keeps the invariant.
LEMMA NextInv == IInv /\ [Next]_vars => IInv'
  <1> SUFFICES ASSUME IInv, [Next]_vars PROVE IInv'
    OBVIOUS
  <1>1. ASSUME NEW h \in Handlers, ServiceStep(h)
        PROVE  IInv'
    BY <1>1, ServiceStepInv
  <1>2. ASSUME NEW h \in Handlers, Browse(h)
        PROVE  IInv'
    BY <1>2, ArriveStep, ArriveBlankStep DEF Browse
  <1>3. ASSUME NEW f \in Flows, HydraStep(f)
        PROVE  IInv'
    BY <1>3, BeginStep, FollowStep DEF HydraStep
  <1>4. CASE Environment
    BY <1>4, EnvironmentStep
  <1>5. CASE Restart
    BY <1>5, RestartStep
  <1>6. CASE UNCHANGED vars
    BY <1>6 DEF vars, IInv, TypeOK, FlowOK, OnRecord, RequestOK, ConsentRequestOK, Accepted,
                ConsentOpen, TokensIssued, GrantFor, hydra, upstream
  <1>7. QED
    BY <1>1, <1>2, <1>3, <1>4, <1>5, <1>6 DEF Next

\* The invariant that all the results below follow from: what Hydra stores and
\* what every goroutine holds stay consistent under every interleaving, failure
\* and restart.
THEOREM Inductive == Spec => []IInv
  BY InitInv, NextInv, PTL DEF Spec

\* Every variable keeps its type, for any number of flows, handlers and identities.
THEOREM TypeCorrect == Spec => []TypeOK
  <1>1. IInv => TypeOK
    BY DEF IInv
  <1>2. QED
    BY <1>1, Inductive, PTL

\* The claims of a consent are always those of the user who logged in.
THEOREM GrantIdentity == Spec => []GrantIsForLoginIdentity
  <1>1. IInv => GrantIsForLoginIdentity
    <2> SUFFICES ASSUME IInv, NEW f \in Flows, consent[f] # None
                 PROVE  /\ login[f] # None
                        /\ consent[f].identity = login[f].subject
                        /\ consent[f].identity \in Identities
      BY DEF GrantIsForLoginIdentity
    <2>1. consent[f] = GrantFor(f, consent[f].profile) /\ login[f] # None /\ login[f].subject \in Identities
      BY DEF IInv, FlowOK
    <2>2. QED
      BY <2>1 DEF GrantFor
  <1>2. QED
    BY <1>1, Inductive, PTL

\* A grant carries the actor id in both tokens exactly when it covers the
\* alkemio scope, on the pre-consent path as on the standard one.
THEOREM ActorClaim == Spec => []AlkemioScopeCarriesActor
  <1>1. IInv => AlkemioScopeCarriesActor
    <2> SUFFICES ASSUME IInv, NEW f \in Flows, consent[f] # None
                 PROVE  IF consent[f].alkemio
                        THEN /\ consent[f].idActor = Actor(login[f].subject)
                             /\ consent[f].accessActor = Actor(login[f].subject)
                             /\ login[f].subject \in mapped
                        ELSE consent[f].idActor = None /\ consent[f].accessActor = None
      BY DEF AlkemioScopeCarriesActor
    <2>1. /\ consent[f] = GrantFor(f, consent[f].profile)
          /\ flow[f].alkemio => login[f].subject \in mapped
      BY DEF IInv, FlowOK
    <2>2. QED
      BY <2>1 DEF GrantFor
  <1>2. QED
    BY <1>1, Inductive, PTL

\* No grant for an identity that lacks the required traits, although a skipped
\* login is accepted without asking Kratos.
THEOREM GrantTraits == Spec => []GrantNeedsTraits
  <1>1. IInv => GrantNeedsTraits
    BY DEF IInv, FlowOK, GrantNeedsTraits
  <1>2. QED
    BY <1>1, Inductive, PTL

\* An accepted login and the context stored with it name the same identity.
THEOREM LoginContextAgrees == Spec => []LoginContextMatchesSubject
  <1>1. IInv => LoginContextMatchesSubject
    BY DEF IInv, FlowOK, LoginContextMatchesSubject
  <1>2. QED
    BY <1>1, Inductive, PTL

\* A success redirect is never given for a challenge Hydra holds no acceptance of.
THEOREM ReportedMeansAccepted == Spec => []RedirectMeansAccepted
  <1>1. IInv => RedirectMeansAccepted
    <2> SUFFICES ASSUME IInv, NEW h \in Handlers, req[h].reply = "redirect"
                 PROVE  LET f == req[h].flow
                        IN  CASE req[h].kind = "login"   -> login[f] # None
                              [] req[h].kind = "consent" -> consent[f] # None
                              [] req[h].kind = "logout"  -> f \in logout
      BY DEF RedirectMeansAccepted
    <2>1. req[h].kind \in Kinds /\ Accepted(req[h].kind, req[h].flow)
      BY RecordTyping DEF RequestOK, Request
    <2>2. QED
      BY <2>1 DEF Accepted, Kinds
  <1>2. QED
    BY <1>1, Inductive, PTL

\* An audit event is only recorded for the accepted consent of a trusted client.
THEOREM AuditSound == Spec => []AuditedMeansAutoAccepted
  <1>1. IInv => AuditedMeansAutoAccepted
    BY DEF IInv, TypeOK, FlowOK, OnRecord, AuditRecord, AuditedMeansAutoAccepted
  <1>2. QED
    BY <1>1, Inductive, PTL

\* No tokens of a trusted client without a trace of its audit event: whoever
\* followed the consent redirect got it from a request that had first emitted the
\* event, or logged that it could not be written.
THEOREM TraceComplete == Spec => []TokensLeaveATrace
  <1>1. IInv => TokensLeaveATrace
    BY DEF IInv, FlowOK, OnRecord, TokensIssued, TokensLeaveATrace
  <1>2. QED
    BY <1>1, Inductive, PTL

\* Hydra's acceptances are never taken back.
LEMMA NextStable == IInv /\ [Next]_vars => Stable
  <1> SUFFICES ASSUME IInv, [Next]_vars PROVE Stable
    OBVIOUS
  <1>1. CASE UNCHANGED <<hydra, mapped>> /\ audited \subseteq audited'
    BY <1>1 DEF Stable, ConsentOpen, hydra
  <1>2. ASSUME NEW h \in Handlers,
               AcceptLogin(h) \/ AcceptConsent(h) \/ AcceptLogout(h)
        PROVE  Stable
    <2>1. CASE AcceptLogin(h)
      <3> DEFINE f == req[h].flow
      <3>1. f \in Flows /\ stage[f] = "login" /\ IInv'
        BY <2>1, RecordTyping, AcceptLoginStep DEF AcceptLogin, At, RequestOK
      <3>2. login'[f] = [subject |-> req[h].identity, context |-> LoginContext(f, req[h].identity)]
        BY <2>1, <3>1 DEF AcceptLogin, IInv, TypeOK
      <3>3. req[h].identity \in Identities /\ LoginContext(f, req[h].identity) = req[h].identity
        BY <2>1, RecordTyping, ChallengeAssumption
        DEF AcceptLogin, At, RequestOK, LoginContext, EnsureLoginContextIdentity
      <3>4. login'[f] # None
        BY <3>2, <3>3, NoneAssumption DEF LoginAcceptance, Subjects
      <3>5. QED
        BY <2>1, <3>1, <3>4 DEF AcceptLogin, IInv, TypeOK, Stable, ConsentOpen, upstream
    <2>2. CASE AcceptConsent(h)
      <3> DEFINE f == req[h].flow
      <3>1. f \in Flows /\ ConsentOpen(f) /\ GrantOf(h) \in Grant
        <4>1. /\ f \in Flows /\ ConsentOpen(f) /\ req[h] \in Request
              /\ req[h].identity = login[f].subject
          BY <2>2, RecordTyping DEF AcceptConsent, At, RequestOK, ConsentRequestOK, ConsentOpen
        <4>2. flow[f] \in FlowParameters /\ login[f].subject \in Identities
          BY <4>1, ConsentIdentity DEF IInv, TypeOK
        <4>3. QED
          BY <4>1, <4>2 DEF GrantOf, Grant, FlowParameters, Request
      <3>2. GrantOf(h) # None
        BY <3>1, NoneAssumption
      <3>3. QED
        BY <2>2, <3>1, <3>2 DEF AcceptConsent, IInv, TypeOK, Stable, ConsentOpen, upstream
    <2>3. CASE AcceptLogout(h)
      BY <2>3 DEF AcceptLogout, Stable, ConsentOpen, upstream
    <2>4. QED
      BY <1>2, <2>1, <2>2, <2>3
  <1>3. ASSUME NEW h \in Handlers, ServiceStep(h)
        PROVE  Stable
    BY <1>1, <1>2, <1>3
    DEF ServiceStep, GetRefused, GetSkippedLogin, GetStandardLogin, IdentityHint, FetchFails,
        FetchLoginProfile, AcceptRefused, GetConsent, FetchConsentProfile, AttachAlkemioClaim,
        EmitAutoAcceptAudit, GetLogout, hydra, upstream
  <1>4. ASSUME NEW h \in Handlers, Browse(h)
        PROVE  Stable
    BY <1>1, <1>4 DEF Browse, Arrive, ArriveBlank, hydra, upstream
  <1>5. ASSUME NEW f \in Flows, HydraStep(f)
        PROVE  Stable
    <2>1. CASE BeginAuthorization(f)
      BY <2>1 DEF BeginAuthorization, IInv, TypeOK, Stable, ConsentOpen, upstream
    <2>2. CASE FollowLogin(f) \/ FollowConsent(f) \/ RequestLogout(f) \/ FollowLogout(f)
      BY <2>2 DEF FollowLogin, FollowConsent, RequestLogout, FollowLogout,
                  IInv, TypeOK, Stable, ConsentOpen, upstream
    <2>3. QED
      BY <1>5, <2>1, <2>2 DEF HydraStep
  <1>6. CASE Environment
    BY <1>6 DEF Environment, KratosLogin, KratosLogout, EditProfile, ProvisionActor,
                UpstreamHealthChanges, Stable, ConsentOpen, hydra
  <1>7. CASE Restart \/ UNCHANGED vars
    BY <1>1, <1>7 DEF Restart, vars, hydra, upstream
  <1>8. QED
    BY <1>3, <1>4, <1>5, <1>6, <1>7 DEF Next

-----------------------------------------------------------------------------
(* How recent the claims are *)

\* Edits only add up, and when a consent was opened is settled with its login.
LEMMA VersionsGrow ==
    ASSUME TypeOK, [Next]_vars
    PROVE  /\ \A i \in Identities : profile'[i] >= profile[i]
           /\ \A f \in Flows : ConsentOpen(f) => opened'[f] = opened[f]
  <1>0. \A i \in Identities : profile[i] \in Nat
    BY ChallengeAssumption DEF TypeOK, Versions
  <1>1. CASE UNCHANGED <<profile, opened>>
    BY <1>0, <1>1
  <1>2. ASSUME NEW i \in Identities, EditProfile(i)
        PROVE  profile' = [profile EXCEPT ![i] = profile[i] + 1] /\ opened' = opened
    BY <1>2 DEF EditProfile, hydra
  <1>3. ASSUME NEW i \in Identities, EditProfile(i)
        PROVE  \A j \in Identities : profile'[j] >= profile[j]
    BY <1>0, <1>2, <1>3 DEF TypeOK
  <1>4. ASSUME NEW f \in Flows, FollowLogin(f)
        PROVE  /\ profile' = profile
               /\ \A g \in Flows : ConsentOpen(g) => opened'[g] = opened[g]
    BY <1>4 DEF FollowLogin, TypeOK, ConsentOpen, upstream
  <1>5. \/ UNCHANGED <<profile, opened>>
        \/ \E i \in Identities : EditProfile(i)
        \/ \E f \in Flows : FollowLogin(f)
    <2>1. ASSUME NEW h \in Handlers, ServiceStep(h) \/ Browse(h)
          PROVE  UNCHANGED <<profile, opened>>
      BY <2>1
      DEF ServiceStep, Browse, Arrive, ArriveBlank, GetRefused, GetSkippedLogin, GetStandardLogin,
          IdentityHint, FetchFails, FetchLoginProfile, AcceptLogin, AcceptRefused, GetConsent,
          FetchConsentProfile, AttachAlkemioClaim, AcceptConsent, EmitAutoAcceptAudit, GetLogout,
          AcceptLogout, hydra, upstream
    <2>2. ASSUME NEW f \in Flows, HydraStep(f)
          PROVE  FollowLogin(f) \/ UNCHANGED <<profile, opened>>
      BY <2>2 DEF HydraStep, BeginAuthorization, FollowConsent, RequestLogout, FollowLogout, upstream
    <2>3. CASE Environment
      BY <2>3 DEF Environment, KratosLogin, KratosLogout, ProvisionActor,
                  UpstreamHealthChanges, hydra
    <2>4. CASE Restart \/ UNCHANGED vars
      BY <2>4 DEF Restart, vars, hydra, upstream
    <2>5. QED
      BY <2>1, <2>2, <2>3, <2>4 DEF Next
  <1>6. QED
    BY <1>0, <1>1, <1>2, <1>3, <1>4, <1>5

\* A version that is not from before f's consent was opened.
Recent(v, f) == v \in opened[f]..profile[login[f].subject]

\* A goroutine with a fetched profile holds a recent one.
HoldsRecent(r) ==
    r.kind = "consent" /\ r.pc \in {"resolve", "accept"} => Recent(r.profile, r.flow)

VersionInv ==
    /\ \A f \in Flows : ConsentOpen(f) => opened[f] <= profile[login[f].subject]
    /\ \A f \in Flows : consent[f] # None => Recent(consent[f].profile, f)
    /\ \A h \in Handlers : HoldsRecent(req[h])

\* What was recent stays recent: the opening is settled, and edits add up.
LEMMA StaysRecent ==
    ASSUME IInv, [Next]_vars, NEW f \in Flows, ConsentOpen(f), NEW v, Recent(v, f)
    PROVE  Recent(v, f)'
  <1>1. /\ login'[f] = login[f]
        /\ login[f].subject \in Identities
    BY NextStable, ConsentIdentity DEF Stable
  <1>2. /\ opened'[f] = opened[f]
        /\ profile'[login[f].subject] >= profile[login[f].subject]
    BY <1>1, VersionsGrow DEF IInv
  <1>3. /\ opened[f] \in Nat /\ profile[login[f].subject] \in Nat
        /\ profile'[login[f].subject] \in Nat
    <2>1. IInv'
      BY NextInv
    <2>2. QED
      BY <1>1, <2>1, ChallengeAssumption DEF IInv, TypeOK, Versions
  <1>4. v \in Nat /\ opened[f] <= v /\ v <= profile[login[f].subject]
    BY <1>3 DEF Recent
  <1>5. v \in opened[f]..profile'[login[f].subject]
    BY <1>2, <1>3, <1>4
  <1>6. QED
    BY <1>1, <1>2, <1>5 DEF Recent

\* The opening itself is at the profile as it is.
LEMMA OpenedKept ==
    ASSUME IInv, VersionInv, [Next]_vars, NEW f \in Flows, ConsentOpen(f)'
    PROVE  opened'[f] <= profile'[login'[f].subject]
  <1>1. CASE ConsentOpen(f)
    <2>1. Recent(opened[f], f)
      <3>1. opened[f] \in Nat /\ profile[login[f].subject] \in Nat
        BY <1>1, ConsentIdentity, ChallengeAssumption DEF IInv, TypeOK, Versions
      <3>2. QED
        BY <1>1, <3>1 DEF VersionInv, Recent
    <2>2. PICK v \in Versions : v = opened[f]
      BY DEF IInv, TypeOK
    <2>3. Recent(v, f)'
      BY <1>1, <2>1, <2>2, StaysRecent
    <2>4. opened'[f] = v
      BY <1>1, <2>2, VersionsGrow DEF IInv
    <2>5. QED
      BY <2>3, <2>4 DEF Recent
  <1>2. CASE ~ConsentOpen(f)
    <2>1. FollowLogin(f)
      <3>1. UNCHANGED stage \/ \E g \in Flows : HydraStep(g)
        BY DEF Next, ServiceStep, Browse, Arrive, ArriveBlank, GetRefused, GetSkippedLogin,
          GetStandardLogin, IdentityHint, FetchFails, FetchLoginProfile, AcceptLogin,
          AcceptRefused, GetConsent, FetchConsentProfile, AttachAlkemioClaim, AcceptConsent,
          EmitAutoAcceptAudit, GetLogout, AcceptLogout, Environment, KratosLogin, KratosLogout,
          EditProfile, ProvisionActor, UpstreamHealthChanges, Restart, vars, hydra, upstream
      <3>2. \E g \in Flows : HydraStep(g)
        BY <1>2, <3>1 DEF ConsentOpen
      <3>3. QED
        BY <1>2, <3>2 DEF HydraStep, BeginAuthorization, FollowLogin, FollowConsent, RequestLogout,
                          FollowLogout, ConsentOpen, IInv, TypeOK
    <2>2. /\ opened'[f] = profile[login[f].subject]
          /\ UNCHANGED <<profile, login>>
      BY <2>1 DEF FollowLogin, IInv, TypeOK, upstream
    <2>3. profile[login[f].subject] \in Nat
      BY <2>1, ChallengeAssumption DEF FollowLogin, IInv, TypeOK, FlowOK, Versions
    <2>4. QED
      BY <2>2, <2>3
  <1>3. QED
    BY <1>1, <1>2

\* A goroutine comes to a fetched profile by fetching it, which is now.
LEMMA HeldKept ==
    ASSUME IInv, VersionInv, [Next]_vars, NEW h \in Handlers
    PROVE  HoldsRecent(req[h])'
  <1> SUFFICES ASSUME req'[h].kind = "consent", req'[h].pc \in {"resolve", "accept"}
               PROVE  Recent(req[h].profile, req[h].flow)'
    BY DEF HoldsRecent
  <1>1. CASE FetchConsentProfile(h)
    <2>1. PICK f \in Flows : f = req[h].flow
      BY <1>1, RecordTyping DEF FetchConsentProfile, FetchOK, RequestOK
    <2>2. ConsentOpen(f) /\ req[h].identity = login[f].subject
      BY <1>1, <2>1, RecordTyping DEF FetchConsentProfile, FetchOK, RequestOK, ConsentRequestOK
    <2>3. /\ req'[h].flow = f /\ req'[h].profile = profile[login[f].subject]
          /\ UNCHANGED <<profile, login, opened>>
      BY <1>1, <2>1, <2>2 DEF FetchConsentProfile, IInv, TypeOK, Request, hydra, upstream
    <2>4. opened[f] <= profile[login[f].subject]
      BY <2>2 DEF VersionInv
    <2>5. opened[f] \in Nat /\ profile[login[f].subject] \in Nat
      BY <2>2, ConsentIdentity, ChallengeAssumption DEF IInv, TypeOK, Versions
    <2>6. profile[login[f].subject] \in opened[f]..profile[login[f].subject]
      BY <2>4, <2>5
    <2>7. QED
      BY <2>3, <2>6 DEF Recent
  <1>2. CASE /\ req[h].kind = "consent" /\ req[h].pc \in {"resolve", "accept"}
             /\ req'[h].profile = req[h].profile /\ req'[h].flow = req[h].flow
    <2>1. PICK f \in Flows, v \in Versions : f = req[h].flow /\ v = req[h].profile
      BY <1>2, RecordTyping DEF RequestOK, Request
    <2>2. ConsentOpen(f) /\ Recent(v, f)
      BY <1>2, <2>1, RecordTyping DEF RequestOK, ConsentRequestOK, VersionInv, HoldsRecent
    <2>3. Recent(v, f)'
      BY <2>2, StaysRecent
    <2>4. QED
      BY <1>2, <2>1, <2>3 DEF Recent
  <1>3. \/ FetchConsentProfile(h)
        \/ /\ req[h].kind = "consent" /\ req[h].pc \in {"resolve", "accept"}
           /\ req'[h].profile = req[h].profile /\ req'[h].flow = req[h].flow
    <2>0. req \in [Handlers -> Request]
      BY DEF IInv, TypeOK
    <2>1. CASE req'[h] = req[h]
      BY <2>1
    <2>2. CASE ServiceStep(h)
      <3>1. CASE AttachAlkemioClaim(h)
        BY <2>0, <3>1 DEF AttachAlkemioClaim, At, Reply, Idle, Request
      <3>2. CASE GetConsent(h)
        <4>1. IInv /\ req[h].flow \in Flows /\ stage[req[h].flow] = "consent"
          BY <3>2, RecordTyping DEF GetConsent, At, RequestOK
        <4>2. ExtractIdentityID(req[h].flow) # None
          BY <4>1, ConsentIdentity DEF ConsentOpen
        <4>3. QED
          BY <2>0, <3>2, <4>2 DEF GetConsent, GotoWith, Request
      <3>3. CASE \E code : Reply(h, code)
        BY <2>0, <3>3 DEF Reply, Idle
      <3>4. CASE GetRefused(h) \/ FetchFails(h) \/ AcceptRefused(h) \/ AcceptLogin(h)
                 \/ EmitAutoAcceptAudit(h) \/ AcceptLogout(h)
        BY <3>3, <3>4 DEF GetRefused, FetchFails, AcceptRefused, AcceptLogin,
                          EmitAutoAcceptAudit, AcceptLogout
      <3>5. CASE AcceptConsent(h)
        <4>1. CASE \E code : req' = [req EXCEPT ![h].pc = "audit", ![h].reply = code]
          BY <2>0, <4>1 DEF Request
        <4>2. QED
          BY <3>3, <3>5, <4>1 DEF AcceptConsent
      <3>6. CASE req[h].kind # "consent"
        <4>1. ASSUME NEW pc, Goto(h, pc)
              PROVE  req'[h].kind = req[h].kind
          BY <2>0, <4>1 DEF Goto, Request
        <4>2. ASSUME NEW pc, NEW i, GotoWith(h, pc, i)
              PROVE  req'[h].kind = req[h].kind
          BY <2>0, <4>2 DEF GotoWith, Request
        <4>3. CASE GetSkippedLogin(h) \/ GetStandardLogin(h) \/ IdentityHint(h)
                   \/ FetchLoginProfile(h) \/ GetLogout(h)
          BY <3>3, <3>6, <4>1, <4>2, <4>3
          DEF GetSkippedLogin, GetStandardLogin, IdentityHint, FetchLoginProfile, GetLogout
        <4>4. CASE GetRefused(h) \/ FetchFails(h) \/ AcceptRefused(h) \/ AcceptLogin(h)
                   \/ EmitAutoAcceptAudit(h) \/ AcceptLogout(h)
          BY <3>4, <4>4
        <4>5. QED
          BY <2>2, <3>6, <4>3, <4>4
          DEF ServiceStep, GetConsent, FetchConsentProfile, AttachAlkemioClaim, AcceptConsent, At
      <3>7. QED
        BY <2>2, <3>1, <3>2, <3>4, <3>5, <3>6
        DEF ServiceStep, GetSkippedLogin, GetStandardLogin, IdentityHint, FetchLoginProfile,
            GetLogout, At
    <2>3. CASE Browse(h)
      BY <2>0, <2>3 DEF Browse, Arrive, ArriveBlank, Idle
    <2>4. ASSUME NEW g \in Handlers, g # h, ServiceStep(g) \/ Browse(g)
          PROVE  req'[h] = req[h]
      BY <2>0, <2>4
      DEF ServiceStep, Browse, Arrive, ArriveBlank, GetRefused, GetSkippedLogin, GetStandardLogin,
          IdentityHint, FetchFails, FetchLoginProfile, AcceptLogin, AcceptRefused, GetConsent,
          FetchConsentProfile, AttachAlkemioClaim, AcceptConsent, EmitAutoAcceptAudit, GetLogout,
          AcceptLogout, Reply, Goto, GotoWith
    <2>5. CASE (\E f \in Flows : HydraStep(f)) \/ Environment \/ UNCHANGED vars
      BY <2>1, <2>5
      DEF HydraStep, BeginAuthorization, FollowLogin, FollowConsent, RequestLogout, FollowLogout,
          Environment, KratosLogin, KratosLogout, EditProfile, ProvisionActor,
          UpstreamHealthChanges, vars
    <2>6. CASE Restart
      BY <2>0, <2>1, <2>6 DEF Restart, Idle
    <2>7. QED
      BY <2>1, <2>2, <2>3, <2>4, <2>5, <2>6 DEF Next
  <1>4. QED
    BY <1>1, <1>2, <1>3

\* What Hydra holds was sent by a goroutine that held it.
LEMMA StoredKept ==
    ASSUME IInv, VersionInv, [Next]_vars, NEW f \in Flows, consent'[f] # None
    PROVE  Recent(consent[f].profile, f)'
  <1>1. CASE consent'[f] = consent[f]
    <2>1. PICK v \in Versions : v = consent[f].profile
      BY <1>1 DEF IInv, TypeOK, Grant
    <2>2. ConsentOpen(f) /\ Recent(v, f)
      BY <1>1, <2>1 DEF IInv, FlowOK, VersionInv
    <2>3. Recent(v, f)'
      BY <2>2, StaysRecent
    <2>4. QED
      BY <1>1, <2>1, <2>3 DEF Recent
  <1>2. ASSUME NEW h \in Handlers, AcceptConsent(h), consent'[f] # consent[f]
        PROVE  Recent(consent[f].profile, f)'
    <2>1. /\ req[h].flow = f /\ req[h].kind = "consent" /\ req[h].pc = "accept"
          /\ consent'[f] = GrantOf(h)
      BY <1>2 DEF AcceptConsent, At, IInv, TypeOK
    <2>2. PICK v \in Versions : v = req[h].profile
      BY RecordTyping DEF Request
    <2>3. ConsentOpen(f) /\ Recent(v, f)
      BY <2>1, <2>2, RecordTyping DEF RequestOK, ConsentRequestOK, VersionInv, HoldsRecent
    <2>4. Recent(v, f)'
      BY <2>3, StaysRecent
    <2>5. consent'[f].profile = v
      BY <2>1, <2>2 DEF GrantOf
    <2>6. QED
      BY <2>4, <2>5 DEF Recent
  <1>3. consent' = consent \/ \E h \in Handlers : AcceptConsent(h)
    BY DEF Next, ServiceStep, Browse, Arrive, ArriveBlank, GetRefused, GetSkippedLogin,
      GetStandardLogin, IdentityHint, FetchFails, FetchLoginProfile, AcceptLogin,
      AcceptRefused, GetConsent, FetchConsentProfile, AttachAlkemioClaim,
      EmitAutoAcceptAudit, GetLogout, AcceptLogout, HydraStep, BeginAuthorization, FollowLogin,
      FollowConsent, RequestLogout, FollowLogout, Environment, KratosLogin, KratosLogout,
      EditProfile, ProvisionActor, UpstreamHealthChanges, Restart, vars, hydra, upstream
  <1>4. QED
    BY <1>1, <1>2, <1>3

\* The claims of a consent are from a profile as it was since the consent was
\* opened, whichever of the interleaved acceptances arrived last.
THEOREM ClaimsFetched == Spec => []ClaimsAreFetchedForConsent
  <1>1. Init => VersionInv
    BY DEF Init, VersionInv, ConsentOpen, HoldsRecent, Idle
  <1>2. IInv /\ VersionInv /\ [Next]_vars => VersionInv'
    BY OpenedKept, StoredKept, HeldKept DEF VersionInv
  <1>3. VersionInv => ClaimsAreFetchedForConsent
    BY DEF VersionInv, Recent, ClaimsAreFetchedForConsent
  <1>4. QED
    BY <1>1, <1>2, <1>3, Inductive, PTL DEF Spec
=============================================================================
