---------------------------- MODULE TokenClaims ----------------------------
(***************************************************************************)
(* How alkemio_actor_id reaches the tokens after the consent: the          *)
(* post-login webhook (internal/webhook) stamps it into the identity's     *)
(* metadata_public at Kratos, and Hydra's token hook                       *)
(* (internal/server/token_hook_handler.go with                             *)
(* internal/challenge/refresh_resolver.go) reads it back at every token    *)
(* issuance, asking the Alkemio server once to stamp it when it is absent. *)
(*                                                                         *)
(* Requests run concurrently; every call to Kratos or Alkemio is a step.   *)
(***************************************************************************)
EXTENDS Naturals

CONSTANTS
    Identities,   \* Kratos identities; none of the stub's magic ids
    Hooks,        \* token hook requests served at the same time
    Posts,        \* post-login webhooks served at the same time
    Wirings,      \* what the token hook may be wired with
    None

\* Either transport of the refresh resolver may be its deterministic stub, and the
\* handler may have no emitter of audit events.
Transports == [kratos : {"real", "stub"}, alkemio : {"real", "stub"}, emitter : {"wired", "none"}]

ASSUME TokenClaimsAssumption ==
    /\ Wirings \subseteq Transports
    /\ Wirings # {}

VARIABLES
    metadata,   \* Kratos: metadata_public of each identity
    mapped,     \* Alkemio: the identities that have an actor
    wiring,     \* the transports and the emitter of the token hook
    hook,       \* one record per token hook request
    post        \* one record per webhook request

vars == <<metadata, mapped, wiring, hook, post>>

Actor(i)  == <<"actor", i>>
Claims    == {Actor(i) : i \in Identities} \cup {None}

ASSUME NoneAssumption ==
    None \notin Identities \cup {Actor(i) : i \in Identities}
                   \cup {"200", "400", "403", "404", "500", "written", "lost"}

Metadata  == [actor : Claims, matrix : BOOLEAN]

\* The claims of a session: the actor id in each token, and whether the claims
\* the consent attached are there.
Session == [access : Claims, id : Claims, profile : BOOLEAN]

Exchange == [pc : {"idle", "read", "restamp", "reread", "done"},
             subject : Identities \cup {None}, alkemio : BOOLEAN, session : Session,
             stamps : 0..1,          \* calls to the re-stamp endpoint
             trouble : BOOLEAN,      \* whether a call of this request failed
             lacking : BOOLEAN,      \* whether Alkemio had no actor to stamp
             reply : {None, "200", "400", "403"}, out : Session,
             event : {None, "written", "lost"}]    \* refresh.missing_alkemio_actor_id
PostLogin == [pc : {"idle", "resolve", "patch", "done"}, identity : Identities \cup {None},
              reply : {None, "200", "400", "404", "500"}]

Nothing == [access |-> None, id |-> None, profile |-> FALSE]
NoHook  == [pc |-> "idle", subject |-> None, alkemio |-> FALSE, session |-> Nothing, stamps |-> 0,
            trouble |-> FALSE, lacking |-> FALSE, reply |-> None, out |-> Nothing, event |-> None]
NoPost  == [pc |-> "idle", identity |-> None, reply |-> None]

TypeOK ==
    /\ metadata \in [Identities -> Metadata]
    /\ mapped \subseteq Identities
    /\ wiring \in Transports
    /\ hook \in [Hooks -> Exchange]
    /\ post \in [Posts -> PostLogin]

Init ==
    /\ metadata = [i \in Identities |-> [actor |-> None, matrix |-> FALSE]]
    /\ mapped = {}
    /\ wiring \in Wirings
    /\ hook = [h \in Hooks |-> NoHook]
    /\ post = [p \in Posts |-> NoPost]

-----------------------------------------------------------------------------
(* Token hook *)

\* The sessions Hydra may present: the actor id is there when the consent that
\* granted the scope attached it.
Sessions(i, alkemio) ==
    LET actors == IF alkemio THEN {None, Actor(i)} ELSE {None}
    IN  {[access |-> a, id |-> a, profile |-> p] : a \in actors, p \in BOOLEAN}

\* Mutant: the response starts from an empty session.
EchoNothing(session, actor) ==
    [access |-> actor, id |-> actor, profile |-> FALSE]

\* The session is echoed; a resolved actor id replaces the claim in both tokens.
Echo(session, actor) ==
    IF actor = None THEN session ELSE [session EXCEPT !.access = actor, !.id = actor]

Granted(h, actor) ==
    hook' = [hook EXCEPT ![h].pc = "done", ![h].reply = "200",
                         ![h].out = Echo(hook[h].session, actor)]

\* What becomes of an event: one that cannot be written is only logged.
Emitted == IF wiring.emitter = "wired" THEN {"written", "lost"} ELSE {None}

\* ErrRefreshTemporarilyUnavailable becomes an event and 403 temporarily_unavailable.
Denied(h, trouble) ==
    \E e \in Emitted :
        hook' = [hook EXCEPT ![h].pc = "done", ![h].reply = "403", ![h].trouble = trouble,
                             ![h].event = e]

\* Hydra calls the hook; without the alkemio scope the session is only echoed.
HookRequest(h) ==
    /\ hook[h].pc \in {"idle", "done"}
    /\ \E i \in Identities, alkemio \in BOOLEAN : \E s \in Sessions(i, alkemio) :
          hook' = [hook EXCEPT ![h] =
                     IF alkemio
                     THEN [NoHook EXCEPT !.pc = "read", !.subject = i, !.alkemio = TRUE, !.session = s]
                     ELSE [NoHook EXCEPT !.pc = "done", !.subject = i, !.session = s,
                                         !.reply = "200", !.out = Echo(s, None)]]
    /\ UNCHANGED <<metadata, mapped, wiring, post>>

HookMalformed(h) ==
    /\ hook[h].pc \in {"idle", "done"}
    /\ hook' = [hook EXCEPT ![h] = [NoHook EXCEPT !.pc = "done", !.reply = "400"]]
    /\ UNCHANGED <<metadata, mapped, wiring, post>>

\* ReadAlkemioActorID; the stub knows no actor of a real identity.
ActorRead(i) == IF wiring.kratos = "stub" THEN None ELSE metadata[i].actor

\* The first read.
ReadActor(h) ==
    LET a == ActorRead(hook[h].subject)
    IN  /\ hook[h].pc = "read"
        /\ \/ a # None /\ Granted(h, a)
           \/ a = None /\ hook' = [hook EXCEPT ![h].pc = "restamp"]
           \/ wiring.kratos = "real" /\ Denied(h, TRUE)
        /\ UNCHANGED <<metadata, mapped, wiring, post>>

\* Mutant: the refresh is given up without a second read.
ReStampOnly(h) ==
    LET i == hook[h].subject
    IN  /\ hook[h].pc = "restamp"
        /\ metadata' = IF wiring.alkemio = "real" /\ i \in mapped
                       THEN [metadata EXCEPT ![i].actor = Actor(i)]
                       ELSE metadata
        /\ \E e \in Emitted :
              hook' = [hook EXCEPT ![h].stamps = @ + 1, ![h].pc = "done", ![h].reply = "403",
                                   ![h].lacking = i \notin mapped, ![h].event = e]
        /\ UNCHANGED <<mapped, wiring, post>>

\* ReStamp: the Alkemio server stamps the actor, if there is one, and may still
\* answer with an error; the stub only takes note of the call.
ReStamp(h) ==
    LET i == hook[h].subject
        answered == [hook EXCEPT ![h].pc = "reread", ![h].stamps = @ + 1,
                                 ![h].lacking = i \notin mapped]
        refused  == {[hook EXCEPT ![h].pc = "done", ![h].reply = "403", ![h].stamps = @ + 1,
                                  ![h].trouble = TRUE, ![h].event = e] : e \in Emitted}
    IN  /\ hook[h].pc = "restamp"
        /\ \/ /\ metadata' = IF wiring.alkemio = "real" /\ i \in mapped
                             THEN [metadata EXCEPT ![i].actor = Actor(i)]
                             ELSE metadata
              /\ \/ hook' = answered
                 \/ wiring.alkemio = "real" /\ hook' \in refused
           \/ /\ wiring.alkemio = "real"
              /\ hook' \in refused
              /\ UNCHANGED metadata
        /\ UNCHANGED <<mapped, wiring, post>>

\* Mutant: a claim that is still absent is asked for again.
ReadAgainLoops(h) ==
    LET a == ActorRead(hook[h].subject)
    IN  /\ hook[h].pc = "reread"
        /\ IF a # None THEN Granted(h, a) ELSE hook' = [hook EXCEPT ![h].pc = "restamp"]
        /\ UNCHANGED <<metadata, mapped, wiring, post>>

\* Mutant: a claim that is still absent is left out.
ReadAgainLenient(h) ==
    /\ hook[h].pc = "reread"
    /\ Granted(h, ActorRead(hook[h].subject))
    /\ UNCHANGED <<metadata, mapped, wiring, post>>

\* The second read is the last word.
ReadAgain(h) ==
    LET a == ActorRead(hook[h].subject)
    IN  /\ hook[h].pc = "reread"
        /\ \/ a # None /\ Granted(h, a)
           \/ a = None /\ Denied(h, FALSE)
           \/ wiring.kratos = "real" /\ Denied(h, TRUE)
        /\ UNCHANGED <<metadata, mapped, wiring, post>>

-----------------------------------------------------------------------------
(* Post-login webhook *)

\* Kratos announces a login; a body that does not parse or names no identity
\* is answered at once.
PostRequest(p) ==
    /\ post[p].pc \in {"idle", "done"}
    /\ \/ \E i \in Identities :
             post' = [post EXCEPT ![p] = [NoPost EXCEPT !.pc = "resolve", !.identity = i]]
       \/ post' = [post EXCEPT ![p] = [NoPost EXCEPT !.pc = "done", !.reply = "400"]]
    /\ UNCHANGED <<metadata, mapped, wiring, hook>>

PostReply(p, code) == post' = [post EXCEPT ![p].pc = "done", ![p].reply = code]

\* The composite resolver answers as its contract says.
ResolveIdentity(p) ==
    /\ post[p].pc = "resolve"
    /\ \/ post[p].identity \in mapped /\ post' = [post EXCEPT ![p].pc = "patch"]
       \/ post[p].identity \notin mapped /\ PostReply(p, "404")
       \/ PostReply(p, "500")
    /\ UNCHANGED <<metadata, mapped, wiring, hook>>

\* Mutant: a failed patch goes unreported.
PatchFailureIgnored(p) ==
    LET i == post[p].identity
    IN  /\ post[p].pc = "patch"
        /\ metadata' \in {metadata, [metadata EXCEPT ![i] = [actor |-> Actor(i), matrix |-> FALSE]]}
        /\ PostReply(p, "200")
        /\ UNCHANGED <<mapped, wiring, hook>>

\* PatchIdentity replaces metadata_public as a whole.  Its answer may be lost
\* after Kratos applied it.
PatchIdentity(p) ==
    LET i == post[p].identity
    IN  /\ post[p].pc = "patch"
        /\ \/ /\ metadata' = [metadata EXCEPT ![i] = [actor |-> Actor(i), matrix |-> FALSE]]
              /\ PostReply(p, "200") \/ PostReply(p, "500")
           \/ /\ PostReply(p, "500")
              /\ UNCHANGED metadata
        /\ UNCHANGED <<mapped, wiring, hook>>

-----------------------------------------------------------------------------
(* External: Alkemio registers a user, the Matrix adapter stamps its own id *)

ProvisionActor(i) ==
    /\ i \notin mapped
    /\ mapped' = mapped \cup {i}
    /\ UNCHANGED <<metadata, wiring, hook, post>>

StampMatrixID(i) ==
    /\ ~metadata[i].matrix
    /\ metadata' = [metadata EXCEPT ![i].matrix = TRUE]
    /\ UNCHANGED <<mapped, wiring, hook, post>>

-----------------------------------------------------------------------------

HookStep(h) == HookRequest(h) \/ HookMalformed(h) \/ ReadActor(h) \/ ReStamp(h) \/ ReadAgain(h)
PostStep(p) == PostRequest(p) \/ ResolveIdentity(p) \/ PatchIdentity(p)

Next ==
    \/ \E h \in Hooks : HookStep(h)
    \/ \E p \in Posts : PostStep(p)
    \/ \E i \in Identities : ProvisionActor(i) \/ StampMatrixID(i)

Spec == Init /\ [][Next]_vars

-----------------------------------------------------------------------------
(* Properties *)

\* A token with the alkemio scope is issued only with the actor id of its own
\* subject in both tokens, never without one (FR-006a, the 403 of ServeHTTP).
AlkemioTokensCarryActor ==
    \A h \in Hooks : hook[h].reply = "200" /\ hook[h].alkemio =>
        /\ hook[h].out.access = Actor(hook[h].subject)
        /\ hook[h].out.id = Actor(hook[h].subject)

\* The hook never takes a claim away: Hydra replaces the session by the answer,
\* so whatever the consent attached is in it (cloneClaims).
ConsentClaimsSurvive ==
    \A h \in Hooks : hook[h].reply = "200" =>
        /\ hook[h].out.profile = hook[h].session.profile
        /\ ~hook[h].alkemio => hook[h].out = hook[h].session

\* A refresh is refused only for a cause: a call of its own failed, or it asked
\* for the stamp - once - and Alkemio knew no actor at that moment.  Concurrent
\* webhooks and refreshes never undo the stamp in between.  Either way it leaves its
\* event, or the log line of a failed emission, where an emitter is wired.
RefusalHasCause ==
    \A h \in Hooks : hook[h].reply = "403" =>
        /\ wiring.kratos = "real" /\ wiring.alkemio = "real" =>
               hook[h].trouble \/ (hook[h].lacking /\ hook[h].stamps = 1)
        /\ wiring.emitter = "wired" => hook[h].event # None

\* A login reported as processed left the actor id in the metadata, and nothing
\* the service does later removes it (PostLogin answers after PatchIdentity).
ProcessedLoginIsStamped ==
    \A p \in Posts : post[p].reply = "200" =>
        metadata[post[p].identity].actor = Actor(post[p].identity)

\* TokenHookHandler (token_hook_handler.go:34-36): "when the resolver is the
\* deterministic stub or scope omits `alkemio`, the resolver returns "" + nil and
\* we still echo the existing session unchanged".
StubEchoes ==
    \A h \in Hooks : hook[h].pc = "done" /\ hook[h].reply # "400" /\ wiring.kratos = "stub" =>
        hook[h].reply = "200" /\ hook[h].out = hook[h].session

=============================================================================
