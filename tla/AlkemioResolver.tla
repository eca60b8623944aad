-------------------------- MODULE AlkemioResolver --------------------------
(***************************************************************************)
(* One Resolve call of the composite Alkemio resolver                      *)
(* (internal/alkemio): the database first, then the HTTP API with retries, *)
(* back-off and one deadline over all attempts.                            *)
(*                                                                         *)
(* Time is counted in back-off units (200 ms) from the moment the API      *)
(* resolver is entered.  Nothing forces a goroutine to run at once, so     *)
(* time may pass between any two steps.                                    *)
(***************************************************************************)
EXTENDS Naturals, Sequences

CONSTANTS
    MaxRetries,        \* Config.MaxRetries, the number of attempts asked for
    Timeout,           \* Config.Timeout, in back-off units
    CallerDeadlines,   \* what is left of the caller's deadline, None without one
    None

ASSUME ResolverAssumption ==
    /\ MaxRetries \in Nat
    /\ Timeout \in Nat \ {0}
    /\ CallerDeadlines \subseteq Nat \cup {None}
    /\ CallerDeadlines # {}
    /\ None \notin Nat
    /\ None \notin {"row", "mapping", "absent", "trouble", "not_found", "failed"}

VARIABLES
    pc,          \* where the call is
    id,          \* the authentication id: a UUID or not
    pooled,      \* whether the service started with a database pool
    attempt,     \* the attempt the API resolver is at
    now,         \* time since the API resolver was entered
    deadline,    \* of the context all attempts share
    wake,        \* when the back-off timer fires
    cancelled,   \* whether the caller has gone away
    answers,     \* everything the sources answered, in order
    result

vars == <<pc, id, pooled, attempt, now, deadline, wake, cancelled, answers, result>>

\* Answers of the database, and of one API attempt.
Found         == {"row", "actorID", "userId"}
Permanent     == {"status 4xx", "no actor id", "actor id no uuid"}
Temporary     == {"status 5xx", "transport error", "garbled body"}
DatabaseWords == {"row", "no rows", "null id", "query error"}
APIWords      == {"actorID", "userId", "status 404"} \cup Permanent \cup Temporary

\* The number of attempts: NewIdentityResolver replaces zero by one.
Attempts == IF MaxRetries = 0 THEN 1 ELSE MaxRetries

\* Bound on the clock: by then every timer has fired and the context is over.
Horizon == Timeout + Attempts

TypeOK ==
    /\ pc \in {"database", "begin", "send", "sent", "wait", "done"}
    /\ id \in {"uuid", "not a uuid"}
    /\ pooled \in BOOLEAN
    /\ attempt \in 1..Attempts
    /\ deadline \in 0..Timeout
    /\ now \in 0..Horizon
    /\ wake \in Nat
    /\ cancelled \in BOOLEAN
    /\ answers \in Seq(DatabaseWords \cup APIWords)
    /\ result \in {"mapping", "not_found", "failed", None}

Init ==
    /\ pc = "database"
    /\ id \in {"uuid", "not a uuid"}
    /\ pooled \in BOOLEAN
    /\ attempt = 1
    /\ now = 0
    /\ deadline = 0
    /\ wake = 0
    /\ cancelled = FALSE
    /\ answers = <<>>
    /\ result = None

Return(r) == pc' = "done" /\ result' = r

\* The context of the API attempts is over.
Expired == cancelled \/ now >= deadline

-----------------------------------------------------------------------------
(* CompositeResolver and DatabaseResolver *)

\* Mutant: a missing row is taken for a missing user.
DatabaseMissesForGood ==
    /\ pc = "database"
    /\ pooled /\ id = "uuid"
    /\ answers' = <<"no rows">>
    /\ Return("not_found")
    /\ UNCHANGED <<id, pooled, attempt, now, deadline, wake, cancelled>>

\* A row with a valid id is the mapping; the API is not asked.
DatabaseHits ==
    /\ pc = "database"
    /\ pooled /\ id = "uuid"
    /\ answers' = <<"row">>
    /\ Return("mapping")
    /\ UNCHANGED <<id, pooled, attempt, now, deadline, wake, cancelled>>

\* No row, no usable id in it, or an error: the API is next either way.
DatabaseMisses ==
    /\ pc = "database"
    /\ pooled /\ id = "uuid"
    /\ \E a \in DatabaseWords \ Found : answers' = <<a>>
    /\ pc' = "begin"
    /\ UNCHANGED <<id, pooled, attempt, now, deadline, wake, cancelled, result>>

\* No database to ask (the resolver is nil after a failed start), or an id it
\* refuses before it queries.
DatabaseSkipped ==
    /\ pc = "database"
    /\ ~pooled \/ id # "uuid"
    /\ pc' = "begin"
    /\ UNCHANGED <<id, pooled, attempt, now, deadline, wake, cancelled, answers, result>>

-----------------------------------------------------------------------------
(* IdentityResolver *)

\* withTimeout: the caller's deadline when that is the nearer one.
WithTimeout(caller) == IF caller # None /\ caller <= Timeout THEN caller ELSE Timeout

\* Resolve checks the id and sets the deadline.
BeginAPI ==
    /\ pc = "begin"
    /\ IF id = "uuid"
       THEN /\ pc' = "send"
            /\ \E caller \in CallerDeadlines : deadline' = WithTimeout(caller)
            /\ UNCHANGED result
       ELSE /\ Return("failed")
            /\ UNCHANGED deadline
    /\ UNCHANGED <<id, pooled, attempt, now, wake, cancelled, answers>>

\* Mutant: the request is sent whatever the context says.
SendDetached ==
    /\ pc = "send"
    /\ pc' = "sent"
    /\ UNCHANGED <<id, pooled, attempt, now, deadline, wake, cancelled, answers, result>>

\* client.Do: a context that is over stops the request before it is sent.
Send ==
    /\ pc = "send"
    /\ IF Expired THEN Return("failed") ELSE pc' = "sent" /\ UNCHANGED result
    /\ UNCHANGED <<id, pooled, attempt, now, deadline, wake, cancelled, answers>>

\* Mutant: the attempts run without the deadline.
RequestExpiresOnCancelOnly ==
    /\ pc = "sent"
    /\ cancelled
    /\ Return("failed")
    /\ UNCHANGED <<id, pooled, attempt, now, deadline, wake, cancelled, answers>>

\* The context ends while the request is out, or while its body is read.
RequestExpires ==
    /\ pc = "sent"
    /\ Expired
    /\ Return("failed")
    /\ UNCHANGED <<id, pooled, attempt, now, deadline, wake, cancelled, answers>>

\* An answer that ends the resolution at once.
APIConcludes ==
    /\ pc = "sent"
    /\ \E a \in {"actorID", "userId", "status 404"} :
          /\ answers' = Append(answers, a)
          /\ Return(IF a = "status 404" THEN "not_found" ELSE "mapping")
    /\ UNCHANGED <<id, pooled, attempt, now, deadline, wake, cancelled>>

\* Mutant: every failure counts as temporary.
RetriesEverything(a) == ~Expired /\ attempt < Attempts

\* Mutant: one attempt too many.
RetriesOnceMore(a) == ~Expired /\ attempt <= Attempts /\ a \in Temporary

\* Another attempt follows only while the context lives, attempts are left and
\* the failure is temporary.
Retries(a) == ~Expired /\ attempt < Attempts /\ a \in Temporary

\* A failed attempt: back off, or give the resolution up.
APIFails ==
    /\ pc = "sent"
    /\ \E a \in Permanent \cup Temporary :
          /\ answers' = Append(answers, a)
          /\ IF Retries(a)
             THEN pc' = "wait" /\ wake' = now + attempt /\ UNCHANGED result
             ELSE Return("failed") /\ UNCHANGED wake
    /\ UNCHANGED <<id, pooled, attempt, now, deadline, cancelled>>

\* wait selects between the timer and the context; when both are ready either
\* may be taken.
WaitExpires ==
    /\ pc = "wait"
    /\ Expired
    /\ Return("failed")
    /\ UNCHANGED <<id, pooled, attempt, now, deadline, wake, cancelled, answers>>

WaitOver ==
    /\ pc = "wait"
    /\ now >= wake
    /\ pc' = "send"
    /\ attempt' = attempt + 1
    /\ UNCHANGED <<id, pooled, now, deadline, wake, cancelled, answers, result>>

-----------------------------------------------------------------------------
(* External: the clock and the caller *)

Tick ==
    /\ pc \in {"send", "sent", "wait"}
    /\ now < Horizon
    /\ now' = now + 1
    /\ UNCHANGED <<pc, id, pooled, attempt, deadline, wake, cancelled, answers, result>>

\* The browser hangs up, which cancels the context of its request.
CallerLeaves ==
    /\ pc # "done"
    /\ ~cancelled
    /\ cancelled' = TRUE
    /\ UNCHANGED <<pc, id, pooled, attempt, now, deadline, wake, answers, result>>

Returned == pc = "done" /\ UNCHANGED vars

Next ==
    \/ DatabaseHits \/ DatabaseMisses \/ DatabaseSkipped
    \/ BeginAPI \/ Send \/ RequestExpires \/ APIConcludes \/ APIFails
    \/ WaitExpires \/ WaitOver
    \/ Tick \/ CallerLeaves
    \/ Returned

Spec == Init /\ [][Next]_vars

\* Everything the process decides itself happens, and its clock runs.  No source
\* has to answer; a query fails once its context is cancelled.
LiveSpec ==
    /\ Spec
    /\ WF_vars(DatabaseSkipped) /\ WF_vars(BeginAPI) /\ WF_vars(Send)
    /\ WF_vars(RequestExpires) /\ WF_vars(WaitExpires) /\ WF_vars(WaitOver)
    /\ WF_vars(Tick)
    /\ WF_vars(DatabaseMisses /\ cancelled)

-----------------------------------------------------------------------------
(* Properties *)

\* What the API answered: the database, if it was asked at all, was asked first.
DatabaseAsked == answers # <<>> /\ answers[1] \in DatabaseWords

APIAnswers == IF DatabaseAsked THEN Tail(answers) ELSE answers

\* The API is asked at most as often as configured, and at least once is allowed
\* (the loop of Resolve and the default of NewIdentityResolver).
AttemptsAreBounded ==
    Len(APIAnswers) + (IF pc = "sent" THEN 1 ELSE 0) <= Attempts

\* A retry only ever follows temporary failures: a 404, any other 4xx and an
\* unusable actor id are final, however many attempts are left (isTemporary).
OnlyTemporaryFailuresAreRetried ==
    pc \in {"wait", "send", "sent"} =>
        \A n \in 1..Len(APIAnswers) : APIAnswers[n] \in Temporary

\* No attempt is started once the shared deadline has passed or the caller has
\* gone: a back-off timer that fires together with the deadline does not send
\* another request (wait, resolveOnce).
NothingSentAfterExpiry ==
    [][pc # "sent" /\ pc' = "sent" => ~Expired]_vars

\* Once the database is behind it the call returns, even when the API never
\* answers: the deadline covers the attempts and the waits between them.
SilentAPICannotHang ==
    pc \in {"begin", "send", "sent", "wait"} ~> pc = "done"

\* Resolution Flow (docs/operations.md:77): "Database Error: Connection failure,
\* timeout, or query error -> fall back to HTTP API".
SilentDatabaseFallsBack ==
    pc = "database" ~> pc # "database"

-----------------------------------------------------------------------------
(* The resolver implements the contract its callers count on. *)

\* What the last answer amounts to.  Only the API can say that there is no
\* mapping; a miss of the database is no better than an error.
WordOf(a) ==
    CASE a = "row"                   -> "row"
      [] a \in {"actorID", "userId"} -> "mapping"
      [] a = "status 404"            -> "absent"
      [] OTHER                       -> "trouble"

Contract == INSTANCE ResolverContract
    WITH word <- IF answers = <<>> THEN None ELSE WordOf(answers[Len(answers)])

\* The composite resolver keeps the contract: the result says exactly what a
\* conclusive source said, and anything short of that is a plain failure, never
\* a missing mapping (CompositeResolver.Resolve, IdentityResolver.Resolve).
KeepsContract == Contract!CSpec

=============================================================================
