------------------------ MODULE ReadinessCacheProofs ------------------------
(***************************************************************************)
(* Proofs about ReadinessCache, for any number of requests and any         *)
(* timeouts.                                                               *)
(*                                                                         *)
(* Neither FlipsAddUp nor ReadyIsRecent is inductive.  The first counts    *)
(* lines only when none is outstanding: LogBalance also counts the lines   *)
(* that the requests between their store and their log still owe.  The     *)
(* second speaks of the moment of an answer: Recent bounds the age of what *)
(* each evaluation has found so far, and of what the cache holds, by the   *)
(* time that can have passed since.                                        *)
(***************************************************************************)
EXTENDS ReadinessCache, FiniteSetTheorems, TLAPS

\* 1 for a dependency that result c calls unhealthy.
Unhealthy(c, d) == IF c # None /\ c[d] = "unhealthy" THEN 1 ELSE 0

\* What a request still owes the log about d.
Owed(r, d) == IF r.pc = "log" THEN Flip(r.previous, r.result, d) ELSE 0

OwesUnhealthy(d) == {p \in Probers : Owed(eval[p], d) = 1}
OwesRecovered(d) == {p \in Probers : Owed(eval[p], d) = -1}

Typed ==
    /\ up \subseteq Deps
    /\ sinceUp \in [Deps -> 0..Staleness]
    /\ sinceDown \in [Deps -> 0..Staleness]
    /\ cached \in Results \cup {None}
    /\ age \in 0..TTL
    /\ eval \in [Probers -> Evaluation]
    /\ flips \in [Deps -> Int]

LogBalance ==
    \A d \in Deps :
        flips[d] + Cardinality(OwesUnhealthy(d)) - Cardinality(OwesRecovered(d))
            = Unhealthy(cached, d)

\* How old the good news of an evaluation can be.
RecordRecent(r) ==
    /\ r.pc = "hydra" /\ r.result["kratos"] = "ok" =>
          sinceUp["kratos"] <= ProbeTimeout + r.timer
    /\ r.pc \in {"store", "log"} =>
          \A d \in Deps : r.result[d] = "ok" => sinceUp[d] <= 2 * ProbeTimeout

CacheRecent ==
    cached # None => \A d \in Deps : cached[d] = "ok" => sinceUp[d] <= 2 * ProbeTimeout + age

Recent == CacheRecent /\ \A p \in Probers : RecordRecent(eval[p])

IInv == Typed /\ LogBalance /\ Recent

-----------------------------------------------------------------------------
(* Counting *)

\* Taking an element in or out changes the count by one at most.
LEMMA Count ==
    ASSUME NEW S, IsFiniteSet(S), NEW x
    PROVE  /\ Cardinality(S) \in Nat
           /\ Cardinality(S \cup {x}) = Cardinality(S) + 1 - (IF x \in S THEN 1 ELSE 0)
           /\ Cardinality(S \ {x}) = Cardinality(S) - (IF x \in S THEN 1 ELSE 0)
  <1>1. Cardinality(S) \in Nat
    BY FS_CardinalityType
  <1>2. Cardinality(S \cup {x}) = IF x \in S THEN Cardinality(S) ELSE Cardinality(S) + 1
    BY FS_AddElement
  <1>3. Cardinality(S \ {x}) = IF x \in S THEN Cardinality(S) - 1 ELSE Cardinality(S)
    BY FS_RemoveElement
  <1>4. QED
    BY <1>1, <1>2, <1>3

\* The sets that LogBalance counts are finite, and no larger than all requests.
LEMMA Owing ==
    ASSUME NEW d \in Deps
    PROVE  /\ IsFiniteSet(OwesUnhealthy(d)) /\ IsFiniteSet(OwesRecovered(d))
           /\ Cardinality(OwesUnhealthy(d)) \in Nat /\ Cardinality(OwesRecovered(d)) \in Nat
           /\ Cardinality(Probers) \in Nat
           /\ Cardinality(OwesUnhealthy(d)) <= Cardinality(Probers)
           /\ Cardinality(OwesRecovered(d)) <= Cardinality(Probers)
  <1>1. IsFiniteSet(Probers)
    BY ReadinessAssumption
  <1>2. OwesUnhealthy(d) \in SUBSET Probers /\ OwesRecovered(d) \in SUBSET Probers
    BY DEF OwesUnhealthy, OwesRecovered
  <1>3. QED
    BY <1>1, <1>2, FS_Subset, FS_CardinalityType

\* The line a store calls for is the difference between the results around it.
LEMMA FlipIsDifference ==
    ASSUME NEW before \in Results \cup {None}, NEW after \in Results, NEW d \in Deps
    PROVE  /\ Flip(before, after, d) = Unhealthy(after, d) - Unhealthy(before, d)
           /\ Flip(before, after, d) \in {-1, 0, 1}
  <1>1. after # None /\ after[d] \in {"ok", "unhealthy"}
    BY NoneAssumption DEF Results
  <1>2. before # None => before[d] \in {"ok", "unhealthy"}
    BY DEF Results
  <1>3. QED
    BY <1>1, <1>2 DEF Flip, Unhealthy

LEMMA OwedTyped ==
    ASSUME NEW r \in Evaluation, NEW d \in Deps PROVE Owed(r, d) \in {-1, 0, 1}
  <1>1. r.previous \in Results \cup {None} /\ r.result \in Results
    BY DEF Evaluation
  <1>2. QED
    BY <1>1, FlipIsDifference DEF Owed

\* When one request gets a new record, what is owed changes by the difference.
LEMMA OwedChange ==
    ASSUME Typed, NEW p \in Probers, NEW r \in Evaluation, NEW d \in Deps,
           eval' = [eval EXCEPT ![p] = r]
    PROVE  Cardinality(OwesUnhealthy(d)') - Cardinality(OwesRecovered(d)')
               = Cardinality(OwesUnhealthy(d)) - Cardinality(OwesRecovered(d))
                 + Owed(r, d) - Owed(eval[p], d)
  <1> DEFINE U == OwesUnhealthy(d)
             R == OwesRecovered(d)
  <1>1. \A q \in Probers : eval'[q] = IF q = p THEN r ELSE eval[q]
    BY DEF Typed
  <1>2. OwesUnhealthy(d)' = IF Owed(r, d) = 1 THEN U \cup {p} ELSE U \ {p}
    BY <1>1 DEF OwesUnhealthy
  <1>3. OwesRecovered(d)' = IF Owed(r, d) = -1 THEN R \cup {p} ELSE R \ {p}
    BY <1>1 DEF OwesRecovered
  <1>4. Owed(r, d) \in {-1, 0, 1} /\ Owed(eval[p], d) \in {-1, 0, 1}
    BY OwedTyped DEF Typed
  <1>5. (p \in U <=> Owed(eval[p], d) = 1) /\ (p \in R <=> Owed(eval[p], d) = -1)
    BY DEF OwesUnhealthy, OwesRecovered
  <1>6. Cardinality(OwesUnhealthy(d)')
            = Cardinality(U) + (IF Owed(r, d) = 1 THEN 1 ELSE 0) - (IF p \in U THEN 1 ELSE 0)
    <2>1. /\ Cardinality(U \cup {p}) = Cardinality(U) + 1 - (IF p \in U THEN 1 ELSE 0)
          /\ Cardinality(U \ {p}) = Cardinality(U) - (IF p \in U THEN 1 ELSE 0)
          /\ Cardinality(U) \in Nat
      BY Owing, Count
    <2> HIDE DEF U
    <2>2. QED
      BY <1>2, <2>1
  <1>7. Cardinality(OwesRecovered(d)')
            = Cardinality(R) + (IF Owed(r, d) = -1 THEN 1 ELSE 0) - (IF p \in R THEN 1 ELSE 0)
    <2>1. /\ Cardinality(R \cup {p}) = Cardinality(R) + 1 - (IF p \in R THEN 1 ELSE 0)
          /\ Cardinality(R \ {p}) = Cardinality(R) - (IF p \in R THEN 1 ELSE 0)
          /\ Cardinality(R) \in Nat
      BY Owing, Count
    <2> HIDE DEF R
    <2>2. QED
      BY <1>3, <2>1
  <1>8. Cardinality(U) \in Nat /\ Cardinality(R) \in Nat
    BY Owing
  <1> HIDE DEF U, R
  <1>9. QED
    BY <1>4, <1>5, <1>6, <1>7, <1>8 DEF U, R

-----------------------------------------------------------------------------
(* Steps *)

LEMMA Times ==
    /\ ProbeTimeout \in Nat /\ ProbeTimeout >= 1
    /\ TTL \in Nat /\ TTL >= 1
    /\ Staleness \in Nat /\ Staleness = 2 * ProbeTimeout + TTL
  BY ReadinessAssumption DEF Staleness

LEMMA FreshTyped == Fresh \in Evaluation
  BY Times DEF Fresh, Evaluation, AllOK, Results, Deps

LEMMA InitHolds == Init => IInv
  <1> SUFFICES ASSUME Init PROVE IInv
    OBVIOUS
  <1>1. Typed
    BY FreshTyped, Times DEF Init, Typed
  <1>2. \A p \in Probers : eval[p].pc = "idle"
    BY DEF Init, Fresh
  <1>3. ASSUME NEW d \in Deps
        PROVE  flips[d] + Cardinality(OwesUnhealthy(d)) - Cardinality(OwesRecovered(d))
                   = Unhealthy(cached, d)
    <2>1. OwesUnhealthy(d) = {} /\ OwesRecovered(d) = {}
      BY <1>2 DEF OwesUnhealthy, OwesRecovered, Owed
    <2>2. flips[d] = 0 /\ Unhealthy(cached, d) = 0
      BY DEF Init, Unhealthy
    <2>3. QED
      BY <2>1, <2>2, FS_EmptySet
  <1>4. Recent
    BY <1>2 DEF Init, Recent, CacheRecent, RecordRecent
  <1>5. QED
    BY <1>1, <1>3, <1>4 DEF IInv, LogBalance

\* One request gets a new record, and the lines on record and owed change by
\* what the cached result changes.
LEMMA RecordStep ==
    ASSUME IInv, NEW p \in Probers, NEW r \in Evaluation, eval' = [eval EXCEPT ![p] = r],
           RecordRecent(r), UNCHANGED external,
           cached' \in Results \cup {None}, age' \in 0..TTL, CacheRecent',
           flips' \in [Deps -> Int],
           \A d \in Deps : flips'[d] + Owed(r, d) - Owed(eval[p], d) - Unhealthy(cached', d)
                               = flips[d] - Unhealthy(cached, d)
    PROVE  IInv'
  <1>1. Typed'
    BY DEF IInv, Typed, external
  <1>2. ASSUME NEW d \in Deps
        PROVE  (flips[d] + Cardinality(OwesUnhealthy(d)) - Cardinality(OwesRecovered(d))
                    = Unhealthy(cached, d))'
    <2>1. Cardinality(OwesUnhealthy(d)') - Cardinality(OwesRecovered(d)')
              = Cardinality(OwesUnhealthy(d)) - Cardinality(OwesRecovered(d))
                + Owed(r, d) - Owed(eval[p], d)
      BY OwedChange DEF IInv
    <2>2. flips[d] + Cardinality(OwesUnhealthy(d)) - Cardinality(OwesRecovered(d))
              = Unhealthy(cached, d)
      BY DEF IInv, LogBalance
    <2>3. Owed(r, d) \in Int /\ Owed(eval[p], d) \in Int
      BY OwedTyped DEF IInv, Typed
    <2>4. flips[d] \in Int /\ flips'[d] \in Int
      BY DEF IInv, Typed
    <2>5. Unhealthy(cached, d) \in Int /\ Unhealthy(cached', d) \in Int
      BY DEF Unhealthy
    <2>6. Cardinality(OwesUnhealthy(d)) \in Int /\ Cardinality(OwesRecovered(d)) \in Int
      BY Owing
    <2>7. Cardinality(OwesUnhealthy(d)') \in Int /\ Cardinality(OwesRecovered(d)') \in Int
      <3>1. OwesUnhealthy(d)' \in SUBSET Probers /\ OwesRecovered(d)' \in SUBSET Probers
        BY DEF OwesUnhealthy, OwesRecovered
      <3>2. PICK U \in SUBSET Probers, R \in SUBSET Probers :
                U = OwesUnhealthy(d)' /\ R = OwesRecovered(d)'
        BY <3>1
      <3>3. Cardinality(U) \in Nat /\ Cardinality(R) \in Nat
        BY ReadinessAssumption, FS_Subset, FS_CardinalityType
      <3>4. QED
        BY <3>2, <3>3
    <2>8. flips'[d] + Owed(r, d) - Owed(eval[p], d) - Unhealthy(cached', d)
              = flips[d] - Unhealthy(cached, d)
      OBVIOUS
    <2>9. Unhealthy(cached, d)' = Unhealthy(cached', d)
      BY DEF Unhealthy
    <2>10. flips'[d] + Cardinality(OwesUnhealthy(d)') - Cardinality(OwesRecovered(d)')
               = Unhealthy(cached', d)
      BY <2>1, <2>2, <2>3, <2>4, <2>5, <2>6, <2>7, <2>8
    <2>11. QED
      BY <2>9, <2>10
  <1>3. \A q \in Probers : RecordRecent(eval[q])'
    <2>1. \A q \in Probers : eval'[q] = IF q = p THEN r ELSE eval[q]
      BY DEF IInv, Typed
    <2>2. \A q \in Probers : RecordRecent(eval'[q])
      BY <2>1 DEF IInv, Recent
    <2>3. QED
      BY <2>2 DEF RecordRecent, external
  <1>4. QED
    BY <1>1, <1>2, <1>3 DEF IInv, LogBalance, Recent

\* A step that leaves cache and log alone, and a request that owes nothing.
LEMMA QuietStep ==
    ASSUME IInv, NEW p \in Probers, NEW r \in Evaluation, eval' = [eval EXCEPT ![p] = r],
           RecordRecent(r), r.pc # "log", eval[p].pc # "log",
           UNCHANGED <<external, cached, age, flips>>
    PROVE  IInv'
  <1>1. \A d \in Deps : Owed(r, d) = 0 /\ Owed(eval[p], d) = 0
    BY DEF Owed
  <1>2. \A d \in Deps : flips[d] \in Int /\ Unhealthy(cached, d) \in Int
    BY DEF IInv, Typed, Unhealthy
  <1>3. CacheRecent'
    BY DEF IInv, Recent, CacheRecent, external
  <1>4. /\ cached' \in Results \cup {None} /\ age' \in 0..TTL /\ flips' \in [Deps -> Int]
        /\ UNCHANGED external
    BY DEF IInv, Typed
  <1>5. \A d \in Deps : flips'[d] + Owed(r, d) - Owed(eval[p], d) - Unhealthy(cached', d)
                            = flips[d] - Unhealthy(cached, d)
    BY <1>1, <1>2
  <1>6. QED
    BY <1>3, <1>4, <1>5, RecordStep

LEMMA RequestSteps ==
    ASSUME IInv, NEW p \in Probers, Request(p)
    PROVE  IInv'
  <1>1. eval[p].pc # "log"
    BY DEF Request, AnswerFromCache, BeginProbes, InFlight
  <1>2. CASE AnswerFromCache(p)
    <2> DEFINE r == [Fresh EXCEPT !.pc = "done", !.result = cached]
    <2>1. cached \in Results
      BY <1>2 DEF AnswerFromCache, CacheIsFresh, IInv, Typed
    <2>2. r \in Evaluation /\ r.pc = "done"
      BY <2>1, FreshTyped DEF Evaluation, Fresh
    <2>3. eval' = [eval EXCEPT ![p] = r] /\ UNCHANGED <<external, cached, age, flips>>
      BY <1>2 DEF AnswerFromCache
    <2> HIDE DEF r
    <2>4. RecordRecent(r)
      BY <2>2 DEF RecordRecent
    <2>5. QED
      BY <1>1, <2>2, <2>3, <2>4, QuietStep
  <1>3. CASE BeginProbes(p)
    <2> DEFINE r == [Fresh EXCEPT !.pc = "kratos"]
    <2>1. r \in Evaluation /\ r.pc = "kratos"
      BY FreshTyped DEF Evaluation, Fresh
    <2>2. eval' = [eval EXCEPT ![p] = r] /\ UNCHANGED <<external, cached, age, flips>>
      BY <1>3 DEF BeginProbes
    <2> HIDE DEF r
    <2>3. RecordRecent(r)
      BY <2>1 DEF RecordRecent
    <2>4. QED
      BY <1>1, <2>1, <2>2, <2>3, QuietStep
  <1>4. QED
    BY <1>2, <1>3 DEF Request

\* What Recent and the types say of one evaluation.
LEMMA RecordTyped ==
    ASSUME IInv, NEW p \in Probers
    PROVE  /\ eval[p] \in Evaluation
           /\ eval[p].timer \in 0..ProbeTimeout
           /\ eval[p].result \in Results
           /\ RecordRecent(eval[p])
  BY DEF IInv, Typed, Recent, Evaluation

LEMMA ProbeEndsStep ==
    ASSUME IInv, NEW p \in Probers, ProbeEnds(p)
    PROVE  IInv'
  <1> DEFINE d == eval[p].pc
             pc == IF d = "kratos" THEN "hydra" ELSE "store"
  <1>1. PICK v \in Outcomes(p, d) :
            eval' = [eval EXCEPT ![p].pc = pc, ![p].timer = 0, ![p].result[d] = v]
    BY DEF ProbeEnds
  <1>2. d \in Deps /\ d # "log" /\ pc \in {"hydra", "store"} /\ pc # "log"
    BY DEF ProbeEnds, Probing, Deps
  <1>3. v \in {"ok", "unhealthy"} /\ (v = "ok" => sinceUp[d] <= eval[p].timer)
    BY <1>1 DEF Outcomes
  <1> DEFINE found == [eval[p].result EXCEPT ![d] = v]
             r == [eval[p] EXCEPT !.pc = pc, !.timer = 0, !.result = found]
  <1>4. found \in Results /\ \A e \in Deps : found[e] = IF e = d THEN v ELSE eval[p].result[e]
    BY <1>2, <1>3, RecordTyped DEF Results
  <1>5. eval' = [eval EXCEPT ![p] = r]
    BY <1>1, RecordTyped DEF IInv, Typed, Evaluation
  <1>6. r \in Evaluation /\ r.pc = pc /\ r.timer = 0 /\ r.result = found
    <2>1. 0 \in 0..ProbeTimeout /\ found \in Results
      BY <1>4, Times
    <2>2. eval[p] \in Evaluation
      BY RecordTyped
    <2> HIDE DEF found, pc
    <2>3. QED
      BY <1>2, <2>1, <2>2 DEF Evaluation
  <1>7. sinceUp[d] \in Nat /\ sinceUp["kratos"] \in Nat /\ eval[p].timer \in 0..ProbeTimeout
    BY <1>2, RecordTyped, Times DEF IInv, Typed, Deps
  <1>8. RecordRecent(r)
    <2> HIDE DEF found, r
    <2>1. CASE d = "kratos"
      <3>1. r.pc = "hydra" /\ (r.result["kratos"] = "ok" => sinceUp["kratos"] <= eval[p].timer)
        BY <1>2, <1>3, <1>4, <1>6, <2>1
      <3>2. r.result["kratos"] = "ok" => sinceUp["kratos"] <= ProbeTimeout + r.timer
        BY <1>6, <1>7, <3>1, Times
      <3>3. QED
        BY <3>1, <3>2 DEF RecordRecent
    <2>2. CASE d = "hydra"
      <3>1. r.pc = "store"
        BY <1>6, <2>2
      <3>2. r.result["hydra"] = "ok" => sinceUp["hydra"] <= eval[p].timer
        BY <1>2, <1>3, <1>4, <1>6, <2>2
      <3>3. r.result["kratos"] = "ok" => sinceUp["kratos"] <= ProbeTimeout + eval[p].timer
        BY <1>4, <1>6, <2>2, RecordTyped DEF RecordRecent, Deps
      <3>4. sinceUp["hydra"] \in Nat
        BY <1>7, <2>2
      <3>5. \A e \in Deps : r.result[e] = "ok" => sinceUp[e] <= 2 * ProbeTimeout
        BY <1>7, <3>2, <3>3, <3>4, Times DEF Deps
      <3>6. QED
        BY <3>1, <3>5 DEF RecordRecent
    <2>3. QED
      BY <1>2, <2>1, <2>2 DEF Deps
  <1>9. UNCHANGED <<external, cached, age, flips>>
    BY DEF ProbeEnds
  <1> HIDE DEF r, d, pc
  <1>10. eval[p].pc # "log"
    BY <1>2 DEF d
  <1>11. QED
    BY <1>2, <1>5, <1>6, <1>8, <1>9, <1>10, QuietStep

\* The store: the result it replaces is the one the log line is about.
LEMMA StoreStep ==
    ASSUME IInv, NEW p \in Probers, Store(p)
    PROVE  IInv'
  <1> DEFINE r == [eval[p] EXCEPT !.pc = "log", !.previous = cached]
  <1>1. /\ eval[p].pc = "store" /\ cached' = eval[p].result /\ age' = 0
        /\ UNCHANGED <<external, flips>>
    BY DEF Store
  <1>2. eval' = [eval EXCEPT ![p] = r]
    BY RecordTyped DEF Store, IInv, Typed, Evaluation
  <1>3. cached \in Results \cup {None}
    BY DEF IInv, Typed
  <1>4. r \in Evaluation /\ r.pc = "log" /\ r.result = eval[p].result /\ r.previous = cached
    BY <1>3, RecordTyped DEF Evaluation
  <1> HIDE DEF r
  <1>5. \A d \in Deps : eval[p].result[d] = "ok" => sinceUp[d] <= 2 * ProbeTimeout
    BY <1>1, RecordTyped DEF RecordRecent
  <1>6. RecordRecent(r)
    BY <1>4, <1>5 DEF RecordRecent
  <1>7. CacheRecent'
    <2>1. \A d \in Deps : sinceUp[d] \in Nat
      BY Times DEF IInv, Typed
    <2>2. QED
      BY <1>1, <1>5, <2>1, Times DEF CacheRecent, external
  <1>8. ASSUME NEW d \in Deps
        PROVE  flips'[d] + Owed(r, d) - Owed(eval[p], d) - Unhealthy(cached', d)
                   = flips[d] - Unhealthy(cached, d)
    <2>1. Owed(eval[p], d) = 0 /\ flips'[d] = flips[d]
      BY <1>1 DEF Owed
    <2>2. Owed(r, d) = Unhealthy(cached', d) - Unhealthy(cached, d)
      BY <1>1, <1>3, <1>4, FlipIsDifference, RecordTyped DEF Owed
    <2>3. flips[d] \in Int /\ Unhealthy(cached, d) \in Int /\ Unhealthy(cached', d) \in Int
      BY DEF IInv, Typed, Unhealthy
    <2>4. QED
      BY <2>1, <2>2, <2>3
  <1>9. /\ cached' \in Results \cup {None} /\ age' \in 0..TTL
        /\ flips' \in [Deps -> Int] /\ UNCHANGED external
    BY <1>1, RecordTyped, Times DEF IInv, Typed
  <1>10. QED
    BY <1>2, <1>4, <1>6, <1>7, <1>8, <1>9, RecordStep

\* The log: what was owed is written.
LEMMA LogStep ==
    ASSUME IInv, NEW p \in Probers, LogTransitions(p)
    PROVE  IInv'
  <1> DEFINE r == [eval[p] EXCEPT !.pc = "done", !.previous = None]
  <1>1. eval[p].pc = "log" /\ UNCHANGED <<external, cached, age>>
    BY DEF LogTransitions
  <1>2. eval' = [eval EXCEPT ![p] = r]
    BY RecordTyped DEF LogTransitions, IInv, Typed, Evaluation
  <1>3. r \in Evaluation /\ r.pc = "done"
    BY RecordTyped DEF Evaluation
  <1> HIDE DEF r
  <1>4. RecordRecent(r)
    BY <1>3 DEF RecordRecent
  <1>5. \A d \in Deps : Owed(eval[p], d) \in Int /\ flips[d] \in Int
    BY RecordTyped, OwedTyped DEF IInv, Typed
  <1>6. flips' = [d \in Deps |-> flips[d] + Owed(eval[p], d)]
    BY <1>1 DEF LogTransitions, Owed
  <1>7. flips' \in [Deps -> Int] /\ \A d \in Deps : flips'[d] = flips[d] + Owed(eval[p], d)
    BY <1>5, <1>6
  <1>8. ASSUME NEW d \in Deps
        PROVE  flips'[d] + Owed(r, d) - Owed(eval[p], d) - Unhealthy(cached', d)
                   = flips[d] - Unhealthy(cached, d)
    <2>1. Owed(r, d) = 0 /\ cached' = cached
      BY <1>1, <1>3 DEF Owed
    <2>2. Unhealthy(cached, d) \in Int
      BY DEF Unhealthy
    <2>3. QED
      BY <1>5, <1>7, <2>1, <2>2
  <1>9. CacheRecent' /\ cached' \in Results \cup {None} /\ age' \in 0..TTL
    BY <1>1 DEF IInv, Typed, Recent, CacheRecent, external
  <1>10. QED
    BY <1>1, <1>2, <1>3, <1>4, <1>7, <1>8, <1>9, RecordStep

LEMMA DisconnectStep ==
    ASSUME IInv, NEW p \in Probers, Disconnect(p)
    PROVE  IInv'
  <1> DEFINE r == [eval[p] EXCEPT !.gone = TRUE]
  <1>1. Probing(p) /\ UNCHANGED <<external, cached, age, flips>>
    BY DEF Disconnect
  <1>2. eval' = [eval EXCEPT ![p] = r]
    BY RecordTyped DEF Disconnect, IInv, Typed, Evaluation
  <1>3. /\ r \in Evaluation /\ r.pc = eval[p].pc
        /\ r.timer = eval[p].timer /\ r.result = eval[p].result
    BY RecordTyped DEF Evaluation
  <1> HIDE DEF r
  <1>4. RecordRecent(r)
    BY <1>3, RecordTyped DEF RecordRecent
  <1>5. eval[p].pc # "log"
    BY <1>1 DEF Probing, Deps
  <1>6. QED
    BY <1>1, <1>2, <1>3, <1>4, <1>5, QuietStep

\* A dependency that changes is news about itself only.
LEMMA DependencyStep ==
    ASSUME IInv, NEW d \in Deps, DependencyChanges(d)
    PROVE  IInv'
  <1>1. UNCHANGED <<cached, age, eval, flips>>
    BY DEF DependencyChanges
  <1>2. /\ up' \subseteq Deps
        /\ sinceUp' \in [Deps -> 0..Staleness] /\ sinceDown' \in [Deps -> 0..Staleness]
    BY Times DEF DependencyChanges, IInv, Typed
  <1>3. Typed'
    BY <1>1, <1>2 DEF IInv, Typed
  <1>4. LogBalance'
    BY <1>1 DEF IInv, LogBalance, OwesUnhealthy, OwesRecovered
  <1>5. ASSUME NEW e \in Deps
        PROVE  sinceUp'[e] \in Nat /\ sinceUp[e] \in Nat /\ sinceUp'[e] <= sinceUp[e]
    BY Times DEF DependencyChanges, IInv, Typed
  <1>6. CacheRecent'
    <2>1. age \in Nat /\ cached' = cached /\ age' = age
      BY <1>1, Times DEF IInv, Typed
    <2>2. CacheRecent
      BY DEF IInv, Recent
    <2>3. QED
      BY <1>5, <2>1, <2>2, Times DEF CacheRecent
  <1>7. ASSUME NEW p \in Probers
        PROVE  RecordRecent(eval[p])'
    <2>1. eval'[p] = eval[p] /\ eval[p].timer \in Nat /\ RecordRecent(eval[p])
      BY <1>1, RecordTyped, Times
    <2>2. "kratos" \in Deps
      BY DEF Deps
    <2>3. QED
      BY <1>5, <2>1, <2>2, Times DEF RecordRecent
  <1>8. QED
    BY <1>3, <1>4, <1>6, <1>7 DEF IInv, Recent

\* Time passes only between probes: the age of the news grows with the timers
\* and with the age of the cache.
LEMMA TickStep ==
    ASSUME IInv, Tick
    PROVE  IInv'
  <1>1. UNCHANGED <<up, cached, flips>>
    BY DEF Tick
  <1>2. ASSUME NEW p \in Probers
        PROVE  /\ eval'[p] \in Evaluation
               /\ eval'[p].pc = eval[p].pc /\ eval'[p].result = eval[p].result
               /\ eval[p].pc \in Deps => eval'[p].timer = eval[p].timer + 1
               /\ eval[p].pc \notin {"store", "log"}
    <2>1. eval[p] \in Evaluation /\ eval[p].timer \in 0..ProbeTimeout
      BY RecordTyped
    <2>2. CASE Probing(p)
      <3> DEFINE r == [eval[p] EXCEPT !.timer = @ + 1]
      <3>1. eval'[p] = r
        BY <2>2 DEF Tick
      <3>2. eval[p].timer < ProbeTimeout
        BY <2>2 DEF Tick, InFlight, Probing, Deps
      <3>3. eval[p].timer + 1 \in 0..ProbeTimeout
        BY <2>1, <3>2, Times
      <3>4. /\ r \in Evaluation /\ r.pc = eval[p].pc /\ r.result = eval[p].result
            /\ r.timer = eval[p].timer + 1
        BY <2>1, <3>3 DEF Evaluation
      <3> HIDE DEF r
      <3>5. QED
        BY <2>2, <3>1, <3>4 DEF Probing, Deps
    <2>3. CASE ~Probing(p)
      BY <2>1, <2>3 DEF Tick, InFlight, Probing
    <2>4. QED
      BY <2>2, <2>3
  <1>3. \A d \in Deps : sinceUp[d] \in 0..Staleness /\ sinceDown[d] \in 0..Staleness
    BY DEF IInv, Typed
  <1>4. ASSUME NEW t \in 0..Staleness
        PROVE  Later(t, Staleness) \in 0..Staleness
    BY Times DEF Later
  <1>5. /\ sinceUp' \in [Deps -> 0..Staleness] /\ sinceDown' \in [Deps -> 0..Staleness]
        /\ \A d \in Deps : sinceUp'[d] \in {0, Later(sinceUp[d], Staleness)}
    <2>1. 0 \in 0..Staleness
      BY Times
    <2>2. /\ sinceUp' = [d \in Deps |-> IF d \in up THEN 0 ELSE Later(sinceUp[d], Staleness)]
          /\ sinceDown' = [d \in Deps |-> IF d \in up THEN Later(sinceDown[d], Staleness) ELSE 0]
      BY DEF Tick
    <2>3. QED
      BY <1>3, <1>4, <2>1, <2>2
  <1>6. age' \in 0..TTL /\ (cached # None => age' = Later(age, TTL)) /\ age \in 0..TTL
    <2>1. age \in 0..TTL
      BY DEF IInv, Typed
    <2>2. age' = IF cached = None THEN 0 ELSE Later(age, TTL)
      BY DEF Tick
    <2>3. QED
      BY <2>1, <2>2, Times DEF Later
  <1>7. Typed'
    <2>1. eval' \in [Probers -> Evaluation]
      <3>1. eval' = [p \in Probers |-> eval'[p]]
        BY DEF Tick
      <3>2. QED
        BY <1>2, <3>1
    <2>2. QED
      BY <1>1, <1>5, <1>6, <2>1 DEF IInv, Typed
  <1>8. LogBalance'
    <2>1. \A p \in Probers : eval[p].pc # "log" /\ eval'[p].pc # "log"
      BY <1>2
    <2>2. \A d \in Deps : /\ OwesUnhealthy(d)' = OwesUnhealthy(d)
                          /\ OwesRecovered(d)' = OwesRecovered(d)
      BY <2>1 DEF OwesUnhealthy, OwesRecovered, Owed
    <2>3. QED
      BY <1>1, <2>2 DEF IInv, LogBalance, Unhealthy
  <1>9. ASSUME NEW d \in Deps
        PROVE  sinceUp'[d] \in Nat /\ sinceUp[d] \in Nat /\ sinceUp'[d] <= sinceUp[d] + 1
    BY <1>3, <1>5, Times DEF Later
  <1>10. CacheRecent'
    <2>1. CASE cached = None
      BY <1>1, <2>1 DEF CacheRecent
    <2>2. CASE cached # None
      <3>1. ASSUME NEW d \in Deps, cached[d] = "ok"
            PROVE  sinceUp'[d] <= 2 * ProbeTimeout + age'
        <4>1. sinceUp[d] <= 2 * ProbeTimeout + age
          BY <2>2, <3>1 DEF IInv, Recent, CacheRecent
        <4>2. CASE age < TTL
          BY <1>6, <1>9, <2>2, <4>1, <4>2, Times DEF Later
        <4>3. CASE ~(age < TTL)
          <5>1. age' = TTL
            BY <1>6, <2>2, <4>3, Times DEF Later
          <5>2. sinceUp'[d] \in 0..Staleness
            BY <1>5
          <5>3. QED
            BY <5>1, <5>2, Times
        <4>4. QED
          BY <4>2, <4>3
      <3>2. QED
        BY <1>1, <3>1 DEF CacheRecent
    <2>3. QED
      BY <2>1, <2>2
  <1>11. ASSUME NEW p \in Probers
         PROVE  RecordRecent(eval[p])'
    <2>1. "kratos" \in Deps /\ "hydra" \in Deps
      BY DEF Deps
    <2>2. /\ RecordRecent(eval[p]) /\ eval[p].timer \in Nat
      BY RecordTyped, Times
    <2>3. /\ eval'[p].pc \notin {"store", "log"}
          /\ eval'[p].pc = eval[p].pc /\ eval'[p].result = eval[p].result
          /\ eval[p].pc = "hydra" => eval'[p].timer = eval[p].timer + 1
      BY <1>2, <2>1
    <2>4. ASSUME eval[p].pc = "hydra", eval[p].result["kratos"] = "ok"
          PROVE  sinceUp'["kratos"] <= ProbeTimeout + eval'[p].timer
      BY <1>9, <2>1, <2>2, <2>3, <2>4, Times DEF RecordRecent
    <2>5. QED
      BY <2>3, <2>4 DEF RecordRecent
  <1>12. QED
    BY <1>7, <1>8, <1>10, <1>11 DEF IInv, Recent

LEMMA StepHolds == IInv /\ [Next]_vars => IInv'
  <1> SUFFICES ASSUME IInv, [Next]_vars PROVE IInv'
    OBVIOUS
  <1>1. CASE UNCHANGED vars
    <2>1. Typed' /\ LogBalance'
      BY <1>1 DEF vars, external, IInv, Typed, LogBalance, OwesUnhealthy, OwesRecovered, Unhealthy
    <2>2. Recent'
      BY <1>1 DEF vars, external, IInv, Recent, CacheRecent, RecordRecent
    <2>3. QED
      BY <2>1, <2>2 DEF IInv
  <1>2. ASSUME NEW p \in Probers, Step(p)
        PROVE  IInv'
    BY <1>2, ProbeEndsStep, StoreStep, LogStep DEF Step
  <1>3. QED
    BY <1>1, <1>2, RequestSteps, DisconnectStep, DependencyStep, TickStep DEF Next

-----------------------------------------------------------------------------
(* Theorems *)

\* Every reachable state satisfies the inductive invariant.
THEOREM Inductive == Spec => []IInv
  BY InitHolds, StepHolds, PTL DEF Spec

\* Variables keep their types; the log never runs further ahead of the cache, or
\* behind it, than one line for each request.
THEOREM TypeCorrect == Spec => []TypeOK
  <1>1. ASSUME IInv
        PROVE  TypeOK
    <2>1. \A d \in Deps : flips[d] \in -Cardinality(Probers)..Cardinality(Probers) + 1
      <3>1. TAKE d \in Deps
      <3>2. flips[d] \in Int /\ Unhealthy(cached, d) \in {0, 1}
        BY <1>1 DEF IInv, Typed, Unhealthy
      <3>3. flips[d] + Cardinality(OwesUnhealthy(d)) - Cardinality(OwesRecovered(d))
                = Unhealthy(cached, d)
        BY <1>1 DEF IInv, LogBalance
      <3>4. QED
        BY <3>2, <3>3, Owing
    <2>2. QED
      BY <1>1, <2>1 DEF IInv, Typed, TypeOK
  <1>2. QED
    BY <1>1, Inductive, PTL

\* However evaluations interleave, once no line is owed each dependency has one
\* more "unhealthy" line exactly when the cache says unhealthy.
THEOREM LogAddsUp == Spec => []FlipsAddUp
  <1>1. ASSUME IInv, \A p \in Probers : eval[p].pc # "log", NEW d \in Deps
        PROVE  flips[d] = IF cached # None /\ cached[d] = "unhealthy" THEN 1 ELSE 0
    <2>1. OwesUnhealthy(d) = {} /\ OwesRecovered(d) = {}
      BY <1>1 DEF OwesUnhealthy, OwesRecovered, Owed
    <2>2. flips[d] \in Int
      BY <1>1 DEF IInv, Typed
    <2>3. flips[d] + Cardinality(OwesUnhealthy(d)) - Cardinality(OwesRecovered(d))
              = Unhealthy(cached, d)
      BY <1>1 DEF IInv, LogBalance
    <2>4. QED
      BY <2>1, <2>2, <2>3, FS_EmptySet DEF Unhealthy
  <1>2. IInv => FlipsAddUp
    BY <1>1 DEF FlipsAddUp
  <1>3. QED
    BY <1>2, Inductive, PTL

\* Every "ok" is an answer about the last Staleness, although an older evaluation
\* may overwrite a newer one and give its result a full TTL again.
THEOREM OkIsRecent == Spec => ReadyIsRecent
  <1> DEFINE A == \A p \in Probers : Answered(p) =>
                     \A d \in Deps : eval'[p].result[d] = "ok" => sinceUp[d] < Staleness
  <1>1. ASSUME IInv, [Next]_vars, NEW p \in Probers, Answered(p), NEW d \in Deps,
               eval'[p].result[d] = "ok"
        PROVE  sinceUp[d] < Staleness
    <2>1. sinceUp[d] \in Nat /\ eval[p] \in Evaluation /\ age \in Nat
      BY <1>1, Times DEF IInv, Typed
    <2>2. AnswerFromCache(p) \/ LogTransitions(p)
      <3>1. ASSUME NEW q \in Probers, q # p, Request(q) \/ Step(q) \/ Disconnect(q)
            PROVE  eval'[p] = eval[p]
        BY <1>1, <3>1 DEF Request, AnswerFromCache, BeginProbes, Step, ProbeEnds, Store,
                          LogTransitions, Disconnect, IInv, Typed
      <3>2. ASSUME BeginProbes(p) \/ ProbeEnds(p) \/ Store(p) \/ Disconnect(p)
            PROVE  eval'[p].pc \in {eval[p].pc, "kratos", "hydra", "store", "log"}
        <4>1. eval \in [Probers -> Evaluation]
          BY <1>1 DEF IInv, Typed
        <4>2. CASE BeginProbes(p)
          BY <4>1, <4>2 DEF BeginProbes, Fresh
        <4>3. CASE ProbeEnds(p)
          BY <4>1, <4>3 DEF ProbeEnds, Evaluation
        <4>4. CASE Store(p) \/ Disconnect(p)
          BY <4>1, <4>4 DEF Store, Disconnect, Evaluation
        <4>5. QED
          BY <3>2, <4>2, <4>3, <4>4
      <3>3. ASSUME Tick \/ UNCHANGED vars \/ \E e \in Deps : DependencyChanges(e)
            PROVE  eval'[p].pc = eval[p].pc
        BY <1>1, <2>1, <3>3 DEF Tick, vars, DependencyChanges, Evaluation
      <3>4. QED
        BY <1>1, <3>1, <3>2, <3>3 DEF Answered, Next, Request, Step
    <2>3. CASE AnswerFromCache(p)
      <3>1. cached # None /\ age < TTL
        BY <2>3 DEF AnswerFromCache, CacheIsFresh
      <3>2. eval'[p].result = cached
        BY <1>1, <2>3 DEF AnswerFromCache, Fresh, IInv, Typed
      <3>3. sinceUp[d] <= 2 * ProbeTimeout + age
        BY <1>1, <3>1, <3>2 DEF IInv, Recent, CacheRecent
      <3>4. QED
        BY <2>1, <3>1, <3>3, Times
    <2>4. CASE LogTransitions(p)
      <3>1. eval'[p].result = eval[p].result /\ eval[p].pc = "log"
        BY <1>1, <2>4 DEF LogTransitions, IInv, Typed, Evaluation
      <3>2. sinceUp[d] <= 2 * ProbeTimeout
        BY <1>1, <3>1 DEF IInv, Recent, RecordRecent
      <3>3. QED
        BY <2>1, <3>2, Times
    <2>5. QED
      BY <2>2, <2>3, <2>4
  <1>2. IInv /\ [Next]_vars => [A]_vars
    BY <1>1
  <1>3. QED
    BY <1>2, Inductive, PTL DEF Spec, ReadyIsRecent
=============================================================================
