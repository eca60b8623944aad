# oidc-service: TLA+ models and proofs

oidc-service sits between a browser and four other services. Ory Hydra owns the OAuth2 login, consent and logout
challenges; Ory Kratos owns users, sessions and their metadata; the Alkemio server, and its database read directly,
maps a Kratos identity to an Alkemio *actor id*. The service answers Hydra's challenges, stamps the actor id into
identities and tokens, and keeps almost no state of its own. What can go wrong is therefore not in a data structure:
it is in the order of calls, in answers that never arrive, in requests the browser repeats, and in goroutines that
race through the same flow. That is what these modules model.

## Inventory

| Component (source) | State | Operations | Hard because | Correct when |
|---|---|---|---|---|
| Challenge orchestrator (`internal/challenge/service.go`, `identity_mapper.go`) with its handlers (`internal/server/login_handler.go`, `consent_handler.go`, `logout_handler.go`) | none between requests; per request the challenge, identity, profile and claims; everything durable is at Hydra | `ResolveLogin` (skip and standard), `ResolveConsent` and the pre-consent filter, `ResolveLogout` | retried and parallel requests for one challenge, acceptances whose answer is lost, restarts, remembered logins that name legacy subjects | tokens belong to the user who logged in, carry the actor id exactly when the `alkemio` scope asks for it and claims of a profile fetched for this consent, and no flow gets stuck |
| Kratos session resolver (`internal/kratos/session_resolver.go`) | none | `IdentityHint` | sessions start and end between calls | the hint is the identity of a live session |
| Alkemio resolvers (`internal/alkemio`) | none; one call keeps attempt, deadline, timer | database, then HTTP API with retries | timer, deadline and cancellation race; sources that never answer | a result means what a source said; bounded attempts; it returns |
| Readiness (`internal/server/health.go`) | cached result and its time, under a mutex that is released during probes | `/health/ready` | evaluations overlap and store out of order; cancelled probes | a good answer is recent, a bad one has a cause, the transition log adds up |
| Token hook and refresh resolver (`internal/server/token_hook_handler.go`, `internal/challenge/refresh_resolver.go`) | none; the metadata is at Kratos | read, re-stamp, read again; echo the session | three calls racing the webhook; Hydra replaces the session by the answer | no token of the scope without the claim, no claim lost, no refusal without cause |
| Post-login webhook (`internal/webhook`) | none | resolve, patch `metadata_public` | the patch may apply without an answer | a processed login is stamped |
| Process (`cmd/server/main.go`, `internal/app`) | server, pool, signal channel | run, shut down, close | three kinds of goroutine and the exit race, and signals are heard only in between | the process exits, the pool goes only after the listener, requests are drained |
| Login route as the browser meets it (`login_handler.go`, `redirect.go`, `router.go`, `internal/config`) | configuration, fixed at start-up | redirect to Kratos with a return address, redirect policy, maintenance answer | the address is put together from four settings and five proxy headers; Kratos redirects back at once | the browser returns to this handler with its challenge, is sent to known addresses only, and never loops |
| end_session (`internal/server/end_session_handler.go`) | none; consents are at Hydra | validate hint and address, revoke, record, redirect | the revocation may fail or go unanswered; every collaborator is optional | only the caller's own consent goes, and the trail says what the browser was told |
| Claims (`identity_mapper.go`, `model.go`, claim builders of `service.go`) | none | required traits, optional claims, ID and access token | two hand-written builders over the same traits | both tokens agree; an optional claim never decides a login |
| Audit emitter (`internal/audit`) | a mutex around a writer | `Emit` | its call follows an upstream call | no tokens of an auto-accepted consent without its event, or the logged warning that it was lost; no event for anything else |
| Readiness service and probes of `internal/challenge`, middleware for ids, correlation and redaction, clients, telemetry, stub, docstring tool | none | | | not modelled, below |

Components meet in four places. The consent path of the orchestrator and the webhook both call the Alkemio resolver;
they rely on its contract only (`ResolverContract`), and the modules that contain such a call (`AttachAlkemioClaim`,
`ResolveIdentity`) offer exactly the contract's outcomes. The webhook and the token hook meet in Kratos's metadata,
and are one module. The orchestrator's flows meet at Hydra, in the login Hydra remembers for the browser. The login
route and end_session meet in the browser and in Hydra's consents, and are composed in `FrontChannel`.

## Modules

| Module | Models |
|---|---|
| `ChallengeService` | orchestrator, handlers and session resolver; Hydra, Kratos, Alkemio and the browser as external actions |
| `AuthorizationFlow` | abstract specification: authenticate, grant once, issue |
| `ChallengeRefinement` | the mapping under which `ChallengeService` implements it |
| `ChallengeServiceProofs` | theorems about `ChallengeService` |
| `ChallengeRefinementProofs` | that it implements `AuthorizationFlow` |
| `AlkemioResolver` | one call of the composite resolver, with its clock |
| `ResolverContract` | abstract specification: what a result means |
| `AlkemioResolverProofs` | theorems about `AlkemioResolver`, and that it implements the contract |
| `ReadinessCache` | overlapping `/health/ready` requests and the cache |
| `ReadinessCacheProofs` | theorems about `ReadinessCache` |
| `TokenClaims` | token hook, refresh resolver and webhook over the metadata of identities |
| `AppLifecycle` | start-up, main, signal goroutine and requests |
| `AppLifecycleProofs`, `TokenClaimsProofs` | theorems about `AppLifecycle` and `TokenClaims` |
| `IdentityProfile` | what is read from a Kratos identity and put into the tokens: operators only |
| `GrantClaims` | `ChallengeService` over the identities of `IdentityProfile`, with the properties of the claims |
| `GrantClaimsProofs` | theorems about `GrantClaims` |
| `RedirectPolicy` | the policy every redirect passes: operators only |
| `LoginReturn` | configuration, proxy headers and the return address: operators only |
| `EndSession` | end_session requests of several clients |
| `FrontChannel` | the browser between clients, this service, Kratos and Hydra; composes `LoginReturn` and `EndSession` |
| `FrontChannelProofs` | theorems about `FrontChannel`: logouts, redirects, logins that come back |
| `MC*` | the constants of the runs, and symmetry |

Definitions with the comment "Mutant:" are slips of the modelled code that each property was seen to
catch; no specification uses them.

### ChallengeService

`req[h]` is the goroutine of one HTTP request. Its `pc` names the upstream call it is about to make: `get` (Hydra's
Get…Request), `hint` (Kratos `/sessions/whoami`), `fetch` (Kratos identity), `resolve` (Alkemio), `accept` (Hydra's
Accept…Request), `audit`. Each action is one call together with everything the code does on its answer up to the next
call, including early returns and the mapping of errors to codes. What Hydra stores (`login`, `consent`, `logout`,
`stage`, `remembered`) is external state; the arguments of an acceptance are what the code passes.

* `AcceptLogin` and `AcceptConsent` store at Hydra and then either reply with the redirect or, while `up` is false,
  with a failure: the answer was lost. `AcceptRefused` is a refusal that stored nothing. `Restart` drops every
  request in flight.
* Hydra accepts a challenge again until the browser has followed the redirect; a later acceptance overwrites.
* The login of a browser is remembered across flows; a skipped login may show the context stored with it or none. It
  may also name a subject from before this service (`LegacySubjects`).
* A grant carries `profile`, the version of the profile (email, names and the other traits) that its request fetched.
  `EditProfile` makes a new version at any time, and two acceptances of one consent may carry different ones; the one
  that arrives last wins. `opened` is a history variable: the version when the consent was opened, which is how far
  back `ClaimsAreFetchedForConsent` lets a grant reach. The required traits stay under edits (`Incomplete` is fixed).
  `MaxEdits` bounds the edits: profiles rest once one of them has been edited that often.
* `audited` holds what `emitAutoAcceptAudit` left behind: the event (`written`), or the warning that the emitter failed.
  The answer goes out either way, so the properties promise the one or the other.
* `attachAlkemioClaim` has three ways to fail with one code (a call that fails, a mapping that does not validate, no
  resolver); `AttachAlkemioClaim` has one. The application always wires a resolver.
* `up` groups the health of the upstreams: calls fail, answers get lost and the process restarts only while it is
  false. It may change at any time, so this restricts liveness runs only.

Assumptions on what is external: Hydra shows a legacy subject only on a login it offers to skip; Kratos identity ids
are UUIDs; the actor of an identity does not change and is not withdrawn (`mapped` grows); the application always
wires the session resolver, so the runs have `HintWired = TRUE`, and the module has the other case.

### AlkemioResolver

The clock counts back-off units of 200 ms, as the delay before attempt *n + 1* is *n* units; `Timeout = 7` is longer
than the two waits between three attempts, so that calls, waits and the caller's deadline can each be what ends it.
`Horizon` bounds the clock; by then every timer has fired. Time may pass between any two steps.

### ReadinessCache

A unit is a probe timeout (500 ms). `Store` is the second critical section of `evaluateReadiness`: it reads the old
result and replaces it. `LogTransitions` happens outside the mutex, as in the code. Probes may be overtaken and the
result of a probe is whatever was true at some moment while it ran. `Disconnect` cancels the context of a request.
CPU steps take no time; `since*` saturate at `Staleness`, the largest lag a property speaks of.

### TokenClaims

`wiring` says whether each transport of the refresh resolver is real or the stub that `internal/app` wires, and whether
the handler has an emitter. `event` is what became of `refresh.missing_alkemio_actor_id`: with an emitter a refusal has
it, or it is `lost` because it could not be written and only the log knows (`Emitted`). The stub's reserved test identities are not in `Identities`. `matrix` stands for anything else in `metadata_public`,
which the webhook's patch replaces as a whole.

### AppLifecycle

The main goroutine goes through `load` (configuration), `construct` (clients and the pool; when a client refuses its
options the process exits, when the database does it goes on without a pool), `wire` (orchestrator and server; when one
refuses, the process exits with the pool still open, as `main` has nothing to close), `serve`, and then the end:
`clean`, `close`, `await pool`, `sync`. `ListenAndServe` returns once `Shutdown` has begun. `Exit` cuts off every
request still being served (`CutOff`).

`signals` is the buffer of `shutdownCh` and `channel` whether it is open: a signal that is still buffered when `Run`
closes the channel is taken nevertheless (`TakeSignal`), and a `Shutdown` begins beside `Close`. Signals are heard from
`Notify` to `Stop`; before and after that one kills the process at once (`Killed`), also the second signal of an
operator who does not want to wait for the pool.

`PoolCloses` is external: that `pgxpool.Close` waits for the connections that are out is pgxpool's own doing and no
property of this code. What this code answers for is the order in which it closes things, which is
`PoolOutlivesListener`.

### IdentityProfile and GrantClaims

Strings are kept as the classes the code tells apart: an email that parses, a name that fits a claim (`Names`), what
`accepted_terms` spells (`Terms`). The operators follow the functions one to one; `BuildIDTokenClaims` and
`BuildAccessTokenClaims` give a value or `Omitted` for every claim. `GrantClaims` is the orchestrator over these
identities: who lacks required traits is found by `MissingTraits`. Its `TokensAgree` ranges over every complete profile
a user with a given grant may have; `ClaimsNeverBlockLogin` speaks of the users of the instance (`MCGrantClaims`: a
member and a guest, everything optional odd about both), and its proof of all.

Read off the code on the way: `email_verified` says that *any* address reached by email is verified, not the one in the
`email` claim; a name with a combining mark, a comma or a typographic apostrophe is left out of the claims.

### LoginReturn and FrontChannel

A URL is a record of scheme, host (name and port), path segments and the challenge in its query. A *deployment* is the
configuration of the service together with what it cannot know: the address browsers use, the proxy in front and what
it reports, where Hydra redirects to, whether the session cookie reaches the service. `Delivered` is the proxy: it
turns what the browser asks for into the request the service sees. Three kinds of proxy send `X-Forwarded-Uri`: the URI
as the browser asked for it (`uri`), without the prefix they strip (`stripped`), and with a comma ahead of the challenge
(`comma`), at which `firstForwarded` cuts. From such a proxy `RequestPathWithPrefix` takes path *and* challenge, so that
a challenge may get lost on the way; the request that comes back without it is answered 400 (`MissingChallenge`).
`page[c]` and `next[c]` are the browser tab of a client's login; `sent[c]` is the last Location it got. Names, schemes,
ports and path segments come from the constant `Strings`, which the runs set to TLA+'s set of all strings; the proofs need no more of it than that it holds the few
literals of the code. Two more constants say what the code tells apart in them. `Loopback` is the set of names the code takes for
the machine itself: `localhost`, `::1` and `0.0.0.0` in any case, and everything that starts with `127.`; a request
without a host counts too (`Unnamed`). `Beginnings` says which segment is a proper beginning of which, because
`strings.HasPrefix` compares text: the prefix `/o` begins the path `/oidc/login`. The proofs hold for any such sets.

`Sound` says which deployments can work at all: the return base is the login route, or there is none and the proxy
reports the address whole (or the fall-back for loopback hosts, the origin of Kratos, is the right one). Two conditions
are about `X-Forwarded-Uri`, and without either the model does not come back: no comma ahead of the challenge, and a
stripped prefix that is not a textual beginning of the route, since the code then takes it for already there. The
properties hold for all sound deployments; for the others only `RedirectsAreKnown` and what concerns end_session is
claimed. `RedirectsAreKnown` lets one answer be a path of this origin: Hydra's, which `safeRedirect` passes on without a list of hosts.

Hydra's and the orchestrator's part of a login is one step here (`LoginResolved`): `ChallengeService` has the detail.

Two divergences found by reading and not given a run: `docs/operations.md:5-14` and `README.md:102-103` say that
without `OIDC_KRATOS_BROWSER_URL` the Kratos address is inferred from `X-Forwarded-*` and that users never see a
`session_required` payload; `buildKratosLoginRedirect` gives up and the browser gets that payload (`LoginPrompted`,
the deployment without `kratosBrowser`). And `router.go:145-148` speaks of an operator who flips the service into
maintenance; the flag is read once, so that takes a restart.

### EndSession

`Wiring` is what the handler was constructed with: `jwks` is a validator that reads the claims of a genuine ID token;
without it the handler's own shape check applies, which accepts anything with three parts and knows neither client nor
subject. `RevokeConsent` is the call to Hydra: done, done without an answer, or failed. `Emitted` includes the event
that cannot be written. A genuine hint names its client and user; nothing in the handler tells whose browser sends it.

## Runs

| Run | Question | Bounds, and why they are enough |
|---|---|---|
| `retries` | Do interleaved, repeated and half-done requests for one flow keep its tokens those of the user who logged in, with claims fetched for this consent, and leave their trace? Does the orchestrator implement `AuthorizationFlow`? | one flow, two goroutines, two users, one edit of a profile, three kinds of client (with the scope, trusted or not; and neither): a second goroutine and a second user are all a conflict needs, one edit makes an older and a newer profile. `VIEW Observed` takes a goroutine that answered with an error for an idle one: no action and no property of the run reads the error |
| `live` | Is every request answered, and does every flow of a complete user end in tokens once the upstreams are calm? Do remembered and legacy logins, and users without traits, stay harmless when the skip path does not ask Kratos? Do the tokens of every identity agree? | one flow, one goroutine, two users of whom one lacks the email, one legacy subject: a remembered login may be either user's or the legacy one's. Conflicts of goroutines are the subject of `retries`. `TokensAgree` ranges over all complete profiles, so no edits are needed (`MaxEdits = 0`) |
| `resolver` | Is the contract kept, are retries bounded and only after temporary failures, is nothing sent late, does the call return? | three attempts (first, middle, last), callers without a deadline, with a nearer and with a farther one |
| `readiness` | Is an ok recent, does the log add up, does the service become ready again? | two requests: one older evaluation storing over a newer; TTL of two probe timeouts instead of four, since the properties are stated in TTL and ProbeTimeout |
| `token_hook` | Does every token of the scope carry the claim, does no claim get lost, does every refusal have a cause and leave its event? | two exchanges and one webhook over two identities, all eight wirings. `VIEW Observed` leaves out the Matrix id, which only the guard of `StampMatrixID` reads |
| `lifecycle` | Does the process exit once it is told to, whenever the signal comes, and does the pool go only after the listener? | three requests: one answered, one querying, one refused |
| `front_channel` | Does a login come back from Kratos and end, is every redirect to a known address, does a logout revoke, only what is its own, and is it recorded? | two clients, so that a logout races another client's login; one user, as a revocation names client and user and the second client's consent shows whether it reaches too far; one expiring session (`MaxExpiries`), enough to break in at every step of a login. Deployments: proxies × public addresses × prefixes, the three proxies that tell the URI with prefixes that are a beginning of the route and that are not, loopback names of each kind and no name, every way to configure the return base, and each other thing missing or wrong once |

Five further runs expect a violation; each finding quotes the sentence of the repository that the property states.

| Run | Stated | Done |
|---|---|---|
| `silent_database` | a database *timeout* falls back to the API (`docs/operations.md:77`) | the query has no deadline; `DATABASE_TIMEOUT` limits connecting only. The run assumes that cancelled queries fail and that time passes; it does not assume that the database answers |
| `readiness_disconnect` | 200 when both dependencies are ok (`health.go:82`) | a client that hangs up cancels its own probes, and their failure is cached for everyone |
| `token_hook_stub` | with the stub the session is echoed unchanged (`token_hook_handler.go:34`) | the stub knows no actor of a real identity, so the exchange is refused |
| `end_session_unwired` | the handler calls Hydra to revoke the client's consent and emits an audit event (`end_session_handler.go:47`, `end_session_test.go:16`) | `internal/app` constructs the router without revoker, validator, emitter and allow-list, so a logout is a redirect |
| `lifecycle_drain` | `Close` is a graceful shutdown, with 15 s of grace (`app.go:100`, `app.go:32`) | `Run` does not wait for `Shutdown`; the process exits under its requests |

### Fairness

* `CallsReturn`: each goroutine of the orchestrator goes on. Hydra and Kratos clients, the session resolver and the
  Alkemio API client all carry timeouts. The database query does not: that it ends is an assumption of the run `live`,
  and what happens without it is the subject of `silent_database`.
* `PersistentBrowser`: a user who keeps retrying and follows redirects, strongly fair because sessions come and go.
  `FlowsComplete` further assumes `CalmEventually`.
* `AlkemioResolver!LiveSpec`: what the process decides itself happens and its clock runs. No answer of a source is
  assumed; a query fails when its context is cancelled (pgx watches it).
* `ReadinessCache!LiveSpec`: probes are polled for ever and time passes.
* `AppLifecycle!LiveSpec`: goroutines run; requests need not end. Fairness of `EndQuery`, and of `OpenPool` with the
  ping of a new pool, is an assumption on the database: neither has a deadline once connected. Without the first
  `Close` may wait for ever; `SignalledProcessExits` does not need the second, as it is about a process that serves.
* `FrontChannel!Fairness`: a request to the login route is answered (the orchestrator's `RequestsAreAnswered`), and a
  user whom Kratos asks to log in does so and follows the redirects. end_session and the clients need not move.

## What is proved

`ChallengeServiceProofs` holds for any sets of flows, goroutines, identities, legacy subjects and clients that satisfy
`ChallengeAssumption` and `NoneAssumption`.

The safety invariants are not inductive: whether `AcceptConsent` stores the right thing depends on what the goroutine
found out several calls before. `IInv` adds what is known in between:

* `FlowOK(f)`: Hydra's records of a flow agree. In particular the login is settled once the consent challenge is open,
  and *every* grant is a `GrantFor(f, version)`: the scope, the identity and the actor are a function of the flow's
  parameters and its login alone, so a repeated acceptance changes nothing of these. Only the version of the profile
  may differ from one acceptance to the next.
* `RequestOK(r)`: a goroutine with a consent challenge holds the subject of the login; before `accept` it holds the
  actor exactly when the scope needs one, of an identity that is mapped and complete; a redirect it answered has its
  acceptance, and for a trusted client its audit event or the warning that it was lost.

The audit event shows why both parts are needed. An acceptance may be without its event: the answer was lost, or the
process stopped in between. What is true is that the browser then has no redirect, so it has to retry; a redirect is
answered only after the emission. `TokensLeaveATrace` says so of the tokens, and follows from `FlowOK` (a flow issued
tokens is on record) and `RequestOK` (a redirect of a trusted consent is on record).

Most steps change one request record and are covered by the lemma `RequestStep`. The remaining ones store at Hydra or
move it on. They can disturb *other* goroutines, and `Stable` names what they must leave alone for those to stay valid:
an open consent challenge keeps its login, its parameters and its grant.

| Theorem | Establishes |
|---|---|
| `Inductive` | `Spec => []IInv` |
| `TypeCorrect` | `[]TypeOK` |
| `GrantIdentity` | `[]GrantIsForLoginIdentity` |
| `ActorClaim` | `[]AlkemioScopeCarriesActor` |
| `GrantTraits` | `[]GrantNeedsTraits` |
| `LoginContextAgrees` | `[]LoginContextMatchesSubject` |
| `ReportedMeansAccepted` | `[]RedirectMeansAccepted` |
| `AuditSound` | `[]AuditedMeansAutoAccepted` |
| `TraceComplete` | `[]TokensLeaveATrace` |
| `ClaimsFetched` | `[]ClaimsAreFetchedForConsent` |

`ClaimsFetched` has an invariant of its own, `VersionInv`: the profile a goroutine holds between its fetch and its
acceptance, and the one in a grant, lie between `opened` and the user's profile now. It needs `IInv`, because between
those steps other requests may accept other things: only the login of an open consent is settled.

`GrantClaimsProofs` needs `ProfileAssumption` besides, and rests on the same `IInv`: the actor is in both tokens or in
neither, so the two builders are called with the same actor and only their own lines are left to compare.

| Theorem | Establishes |
|---|---|
| `TokensAlwaysAgree` | `[]TokensAgree` |
| `ClaimsBlockNobody` | `ClaimsNeverBlockLogin`, an action property, for all identities |

`TokenClaimsProofs` holds for any identities, exchanges and webhooks, under `TokenClaimsAssumption` and
`NoneAssumption`. Its `IInv` says what an exchange knows between its calls. The decisive part is `HookOK` at the second
read: with both transports real, either Alkemio had no actor when asked, or the claim is at Kratos. Other webhooks and
exchanges may run between the two calls, and `Keeps` is what all of them respect: a stamped identity stays stamped.

| Theorem | Establishes |
|---|---|
| `TypeCorrect` | `[]TypeOK` |
| `TokensCarryActor` | `[]AlkemioTokensCarryActor` |
| `ClaimsSurvive` | `[]ConsentClaimsSurvive` |
| `RefusalsHaveCauses` | `[]RefusalHasCause` |
| `ProcessedStaysStamped` | `[]ProcessedLoginIsStamped` |

`AppLifecycleProofs` holds for any set of requests: `TypeCorrect` (`[]TypeOK`) and `PoolClosesLast`
(`[]PoolOutlivesListener`). The invariant adds `ListenerFirst`: past `ListenAndServe` the listener is closed, whether a
signal closed it or it failed, so that the order is kept whatever the other goroutine is doing.

`ChallengeRefinementProofs` proves `Refinement` (`ImplementsAuthorizationFlow`) from the same `IInv`, under
`AbstractGrantAssumption` besides (`None` is not a grant of `AuthorizationFlow`). Every step of a goroutine is a
stutter but the two that store at Hydra. An acceptance of a login is `Authenticate`; one of a consent is `GrantOnce`
the first time and nothing at all every further time: only because `IInv` says that Hydra can be sent nothing but
`GrantFor(f, version)` does a repetition store what is there already. The abstract grant is identity and actor; of the
profile the refinement says nothing (`ClaimsFetched` does). The steps of Hydra and the browser map to `Begin`,
`OpenConsent`, `Issue` and `End`, a new mapping at Alkemio to `Register`.

`AlkemioResolverProofs` holds for every number of retries, timeout and set of caller deadlines under
`ResolverAssumption`. Its `IInv` ties the place of a call to what it heard: the attempt counter is the number of
answers of the API, less the attempt that is out, and a call that goes on has heard temporary failures only.

| Theorem | Establishes |
|---|---|
| `TypeCorrect` | `[]TypeOK` |
| `BoundedAttempts` | `[]AttemptsAreBounded` |
| `TemporaryOnly` | `[]OnlyTemporaryFailuresAreRetried` |
| `ExpiryIsFinal` | `NothingSentAfterExpiry`, an action property |
| `Refinement` | `KeepsContract`: each answer is a `Hear` of the contract, each way of giving up a `GiveUp` |

`ReadinessCacheProofs` holds for any finite number of requests and any timeouts under `ReadinessAssumption` and
`NoneAssumption`. `FlipsAddUp` counts log lines when none is outstanding and is not inductive; `LogBalance` adds what
the requests between their store and their log still owe, so that every store keeps the sum. For `ReadyIsRecent`,
`Recent` bounds the age of each finding by the steps its evaluation went through since: a probe timeout for each probe,
and a TTL in the cache.

| Theorem | Establishes |
|---|---|
| `TypeCorrect` | `[]TypeOK`, with it that the log is out of step by no more lines than there are requests |
| `LogAddsUp` | `[]FlipsAddUp` |
| `OkIsRecent` | `ReadyIsRecent`, an action property |

`FrontChannelProofs` holds for any clients, users, deployments, addresses and wirings that satisfy
`StringsAssumption`, `DeploymentAssumption` and `WiringAssumption`: that URLs are URLs, that the public address is one
of the web, and that where there is no proxy nobody strips a prefix or serves TLS. There are two inductive invariants.
`IInv` is about end_session: `RequestOK` is what a request has established by its calls, at `revoke` that the hint is
genuine, and from there on that the address is registered. `LInv` is about logins: a tab on its way holds an address
of its own login (`TabOK`), and every redirect so far was a known one (`Known`). It needs `IInv` for the redirect of a
logout. `LInv` is kept by `LoginPrompted` because of the lemmas on `LoginReturn`: `ProtoTold`, `HostTold`, `URITold`
and `PathTold` say what `ForwardedProto`, `ForwardedHost` and `RequestPathWithPrefix` make of each kind of proxy, `ReturnTyped` and
`ReturnReachesLogin` what `BuildReturnURL` makes of that.

| Theorem | Assumes besides | Establishes |
|---|---|---|
| `OnlyOwnConsent` | nothing | `OnlyOwnConsentIsRevoked`, an action property |
| `LogoutsAreRecorded` | an emitter | `[]EndSessionIsRecorded` |
| `WiredLogoutsRevoke` | a validator that reads tokens, and a revoker | `[]LogoutRevokesConsent` |
| `TypeCorrect` | nothing | `[]TypeOK` |
| `ComesBack` | nothing; the property is about `Sound` deployments | `[]ReturnsToItsLogin` |
| `RedirectsKnown` | nothing | `[]RedirectsAreKnown` |

`end_session_unwired` shows that `WiredLogoutsRevoke` needs its assumption: with the wiring of `internal/app` the
property is violated.

With these, every safety invariant, every action property and both refinements of the passing runs are theorems.
Only model-checked: the liveness properties `RequestsAreAnswered`, `FlowsComplete`, `SilentAPICannotHang`, `ReadyAgain`,
`SignalledProcessExits` and `LoginsEnd`, since fairness needs ENABLED, which is out of the prover's reach.

## Plan

Done: the orchestrator with its abstract specification, proofs and runs; the resolver with its contract; readiness;
token claims; lifecycle with start-up; the claims of both tokens; the redirect policy, the return address and
end_session, composed in the front channel. The most important behaviour, the grant, came first.

Next modules: `service.Readiness` and the probes of `readiness_http.go`, if a route comes to call them; a changing
maintenance flag, if something comes to call `Update`.

Next theorems:

1. `GrantClaims`: lemmas on the builders of both tokens one by one, so that what a claim is made of is a theorem and
   not only that the tokens agree.
2. Steps towards the liveness properties that need no fairness: in `AlkemioResolver`, that every call that goes on has
   an enabled step of its own; in `AppLifecycle`, that a signalled process can always take one.
3. `FrontChannel`: that in a `Sound` deployment no step answers a login with `refused` and no tab gets `lost`, the
   safety part of `LoginsEnd`.

## Not modelled

* A maintenance flag that changes: `Update` is called by `NewState` at start-up only, so it is a constant of a running
  process (`maintenance` of a deployment).
* `service.Readiness` and the probes of `readiness_http.go`: no route calls them.
* A query with two `login_challenge` parameters, IPv6 hosts with a separate port, and other addresses that only a
  hand-made request has: see the hazards.
* Request ids, correlation, redaction, error pages, telemetry: wording and logging. In particular the order in which two
  evaluations write their transition lines (`health.go:175`) is not checked: `FlipsAddUp` counts lines.
* Client construction, and the settings that are not browser-facing URLs: read once; their values are the CONSTANTS.
* The audit emitter's encoding; `stub.go`; generated queries; the docstring tool.
* Signatures, TLS and token contents beyond the claims named above belong to Hydra.
