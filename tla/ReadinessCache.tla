--------------------------- MODULE ReadinessCache ---------------------------
(***************************************************************************)
(* GET /health/ready (internal/server/health.go): requests that race each  *)
(* other through a cache of the last probe results.  The mutex is held     *)
(* twice and never across the probes: to look the cache up, and to replace *)
(* it, so several evaluations may be under way and store in any order.     *)
(*                                                                         *)
(* Time is counted in probe timeouts (500 ms); steps other than probes     *)
(* take none.                                                              *)
(***************************************************************************)
EXTENDS Integers, FiniteSets

CONSTANTS
    Probers,        \* requests to /health/ready served at the same time, finitely many
    ProbeTimeout,   \* depCheckTimeout
    TTL,            \* depCheckCacheTTL
    None

ASSUME ReadinessAssumption ==
    /\ IsFiniteSet(Probers)
    /\ ProbeTimeout \in Nat \ {0}
    /\ TTL \in Nat \ {0}

Deps    == {"kratos", "hydra"}
Results == [Deps -> {"ok", "unhealthy"}]

ASSUME NoneAssumption == None \notin Results

\* What an answer can lag behind: both probes, and the life of a cache entry.
Staleness == 2 * ProbeTimeout + TTL

VARIABLES
    up,        \* the dependencies whose admin plane answers 2xx in time
    sinceUp,   \* how long ago each dependency was last up
    sinceDown, \* how long ago each dependency was last down
    cached,    \* cachedReady: the result, or None
    age,       \* how long ago it was stored, up to TTL
    eval,      \* one record per request
    flips      \* log lines per dependency: those for unhealthy less those for recovered

external == <<up, sinceUp, sinceDown>>
vars     == <<external, cached, age, eval, flips>>

Evaluation == [pc : {"idle", "kratos", "hydra", "store", "log", "done"},
               timer : 0..ProbeTimeout,                \* of the probe under way
               gone : BOOLEAN,                         \* the client has disconnected
               result : Results,                       \* what the probes said so far
               previous : Results \cup {None}]

AllOK == [d \in Deps |-> "ok"]
Fresh == [pc |-> "idle", timer |-> 0, gone |-> FALSE, result |-> AllOK, previous |-> None]

TypeOK ==
    /\ up \subseteq Deps
    /\ sinceUp \in [Deps -> 0..Staleness]
    /\ sinceDown \in [Deps -> 0..Staleness]
    /\ cached \in Results \cup {None}
    /\ age \in 0..TTL
    /\ eval \in [Probers -> Evaluation]
    /\ \A d \in Deps : flips[d] \in -Cardinality(Probers)..Cardinality(Probers) + 1

Init ==
    /\ up \in SUBSET Deps
    /\ sinceUp = [d \in Deps |-> IF d \in up THEN 0 ELSE Staleness]
    /\ sinceDown = [d \in Deps |-> IF d \in up THEN Staleness ELSE 0]
    /\ cached = None
    /\ age = 0
    /\ eval = [p \in Probers |-> Fresh]
    /\ flips = [d \in Deps |-> 0]

InFlight(p) == eval[p].pc \notin {"idle", "done"}
Probing(p)  == eval[p].pc \in Deps

-----------------------------------------------------------------------------
(* evaluateReadiness *)

\* Mutant: the entry never grows old.
CacheIsFreshForever == cached # None

\* The cached result is younger than the TTL.
CacheIsFresh == cached # None /\ age < TTL

\* Mutant: reading the entry renews it.
AnswerFromCacheRenewed(p) ==
    /\ ~InFlight(p)
    /\ CacheIsFresh
    /\ eval' = [eval EXCEPT ![p] = [Fresh EXCEPT !.pc = "done", !.result = cached]]
    /\ age' = 0
    /\ UNCHANGED <<external, cached, flips>>

\* A request finds a fresh result and is answered from it.
AnswerFromCache(p) ==
    /\ ~InFlight(p)
    /\ CacheIsFresh
    /\ eval' = [eval EXCEPT ![p] = [Fresh EXCEPT !.pc = "done", !.result = cached]]
    /\ UNCHANGED <<external, cached, age, flips>>

\* A request finds none and probes Kratos first.
BeginProbes(p) ==
    /\ ~InFlight(p)
    /\ ~CacheIsFresh
    /\ eval' = [eval EXCEPT ![p] = [Fresh EXCEPT !.pc = "kratos"]]
    /\ UNCHANGED <<external, cached, age, flips>>

\* What probeURL may find: a dependency that was up at some moment of the probe
\* may answer 2xx; one that was down or slow, or a request whose client has
\* disconnected, makes the probe fail.
Outcomes(p, d) ==
    (IF sinceUp[d] <= eval[p].timer THEN {"ok"} ELSE {}) \cup
    (IF sinceDown[d] <= eval[p].timer \/ eval[p].gone THEN {"unhealthy"} ELSE {})

\* The probe under way ends; Hydra's follows Kratos's.
ProbeEnds(p) ==
    LET d == eval[p].pc
    IN  /\ Probing(p)
        /\ \E r \in Outcomes(p, d) :
              eval' = [eval EXCEPT ![p].pc = IF d = "kratos" THEN "hydra" ELSE "store",
                                   ![p].timer = 0,
                                   ![p].result[d] = r]
        /\ UNCHANGED <<external, cached, age, flips>>

\* Mutant: only the first store sees that nothing was cached before.
StoreOverNothing(p) ==
    /\ eval[p].pc = "store"
    /\ cached' = eval[p].result
    /\ age' = 0
    /\ eval' = [eval EXCEPT ![p].pc = "log", ![p].previous = None]
    /\ UNCHANGED <<external, flips>>

\* The second critical section: read the previous result, store the new one.
Store(p) ==
    /\ eval[p].pc = "store"
    /\ cached' = eval[p].result
    /\ age' = 0
    /\ eval' = [eval EXCEPT ![p].pc = "log", ![p].previous = cached]
    /\ UNCHANGED <<external, flips>>

\* logReadinessTransitions: one line per dependency whose status changed; a
\* first result is worth a line only when it is bad.
Flip(before, after, d) ==
    CASE after[d] = "unhealthy" /\ (before = None \/ before[d] = "ok")       -> 1
      [] after[d] = "ok" /\ before # None /\ before[d] = "unhealthy"         -> -1
      [] OTHER                                                               -> 0

LogTransitions(p) ==
    /\ eval[p].pc = "log"
    /\ flips' = [d \in Deps |-> flips[d] + Flip(eval[p].previous, eval[p].result, d)]
    /\ eval' = [eval EXCEPT ![p].pc = "done", ![p].previous = None]
    /\ UNCHANGED <<external, cached, age>>

-----------------------------------------------------------------------------
(* External: the client, the dependencies and time *)

\* The client of a probe hangs up (its own timeout, a restart), which cancels
\* the context both probes run under.
Disconnect(p) ==
    /\ Probing(p)
    /\ ~eval[p].gone
    /\ eval' = [eval EXCEPT ![p].gone = TRUE]
    /\ UNCHANGED <<external, cached, age, flips>>

DependencyChanges(d) ==
    /\ up' = IF d \in up THEN up \ {d} ELSE up \cup {d}
    /\ sinceUp' = [sinceUp EXCEPT ![d] = 0]
    /\ sinceDown' = [sinceDown EXCEPT ![d] = 0]
    /\ UNCHANGED <<cached, age, eval, flips>>

Later(t, bound) == IF t < bound THEN t + 1 ELSE bound

\* Time passes only while no probe is past its timeout, and no request is
\* between two steps that take none.
Tick ==
    /\ \A p \in Probers : InFlight(p) => Probing(p) /\ eval[p].timer < ProbeTimeout
    /\ sinceUp' = [d \in Deps |-> IF d \in up THEN 0 ELSE Later(sinceUp[d], Staleness)]
    /\ sinceDown' = [d \in Deps |-> IF d \in up THEN Later(sinceDown[d], Staleness) ELSE 0]
    /\ age' = IF cached = None THEN 0 ELSE Later(age, TTL)
    /\ eval' = [p \in Probers |->
                   IF Probing(p) THEN [eval[p] EXCEPT !.timer = @ + 1] ELSE eval[p]]
    /\ UNCHANGED <<up, cached, flips>>

-----------------------------------------------------------------------------

Request(p) == AnswerFromCache(p) \/ BeginProbes(p)
Step(p)    == ProbeEnds(p) \/ Store(p) \/ LogTransitions(p)

Next ==
    \/ \E p \in Probers : Request(p) \/ Step(p) \/ Disconnect(p)
    \/ \E d \in Deps : DependencyChanges(d)
    \/ Tick

Spec == Init /\ [][Next]_vars

\* Probes come again and again, the goroutines that serve them run, time passes.
LiveSpec ==
    /\ Spec
    /\ \A p \in Probers : WF_vars(Request(p)) /\ WF_vars(Step(p))
    /\ WF_vars(Tick)

-----------------------------------------------------------------------------
(* Properties *)

Answered(p) == eval[p].pc # "done" /\ eval'[p].pc = "done"

\* A dependency reported as ok was up within the last Staleness, although older
\* evaluations may overwrite newer ones and give their results a full TTL again
\* (evaluateReadiness; FR-036a, "results cached <= 2 s").
ReadyIsRecent ==
    [][\A p \in Probers : Answered(p) =>
          \A d \in Deps : eval'[p].result[d] = "ok" => sinceUp[d] < Staleness]_vars

\* The transition log adds up: however the evaluations interleave, once their
\* lines are out each dependency has one more "unhealthy" than "recovered" line
\* exactly when the cache says unhealthy (the previous result is read in the
\* critical section that replaces it).
FlipsAddUp ==
    (\A p \in Probers : eval[p].pc # "log") =>
        \A d \in Deps :
            flips[d] = IF cached # None /\ cached[d] = "unhealthy" THEN 1 ELSE 0

\* Once both dependencies stay up and clients stay connected, no request is
\* turned away for good: results from the outage are replaced or expire.
ReadyAgain ==
    <>[](up = Deps /\ \A p \in Probers : ~eval[p].gone)
        => <>[](\A p \in Probers : eval[p].pc = "done" => eval[p].result = AllOK)

\* HealthHandler (health.go:81-82): "Kratos `/admin/health/alive` AND Hydra
\* `/health/alive`. 200 when both ok, 503 otherwise": a client that stayed
\* connected is told 503 only because a dependency was down or slow.
UnreadyHasCause ==
    [][\A p \in Probers : Answered(p) /\ ~eval[p].gone =>
          \A d \in Deps : eval'[p].result[d] = "unhealthy" => sinceDown[d] < Staleness]_vars

=============================================================================
