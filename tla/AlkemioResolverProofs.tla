------------------------ MODULE AlkemioResolverProofs ------------------------
(***************************************************************************)
(* Proofs about AlkemioResolver, for every number of retries, timeout and  *)
(* caller deadline.                                                        *)
(*                                                                         *)
(* IInv ties the place a call is at to what it was answered so far: the    *)
(* attempt counter is the number of API answers, give or take the attempt  *)
(* that is out, and a call that is still under way has heard nothing but   *)
(* temporary failures from the API and has no result.                      *)
(***************************************************************************)
EXTENDS AlkemioResolver, TLAPS

\* How often the API has answered, by where the call is.
AnswersCounted ==
    /\ pc = "database" => answers = <<>>
    /\ pc \in {"database", "begin"} => APIAnswers = <<>> /\ attempt = 1
    /\ pc \in {"send", "sent"} => Len(APIAnswers) = attempt - 1
    /\ pc = "wait" => Len(APIAnswers) = attempt /\ attempt < Attempts
    /\ pc = "done" => Len(APIAnswers) <= Attempts

AllTemporary == pc # "done" => \A n \in 1..Len(APIAnswers) : APIAnswers[n] \in Temporary

IInv ==
    /\ TypeOK
    /\ AnswersCounted
    /\ AllTemporary
    /\ result = None <=> pc # "done"

-----------------------------------------------------------------------------
(* The answers of the API *)

LEMMA AttemptsPositive == Attempts \in Nat /\ Attempts >= 1
  BY ResolverAssumption DEF Attempts

LEMMA APIAnswersTyped ==
    ASSUME answers \in Seq(DatabaseWords \cup APIWords)
    PROVE  APIAnswers \in Seq(DatabaseWords \cup APIWords)
  BY DEF APIAnswers, DatabaseAsked

\* The sources share no word.
LEMMA WordsDiffer == DatabaseWords \cap APIWords = {}
  BY DEF DatabaseWords, APIWords, Permanent, Temporary

\* An answer of the API is added to those of the API.
LEMMA APIAppend ==
    ASSUME answers \in Seq(DatabaseWords \cup APIWords), NEW a \in APIWords,
           answers' = Append(answers, a)
    PROVE  /\ APIAnswers' = Append(APIAnswers, a)
           /\ Len(APIAnswers') = Len(APIAnswers) + 1
           /\ \A n \in 1..Len(APIAnswers) : APIAnswers'[n] = APIAnswers[n]
           /\ APIAnswers'[Len(APIAnswers')] = a
  <1> HIDE DEF DatabaseWords, APIWords
  <1>1. CASE answers = <<>>
    <2>1. answers'[1] = a /\ a \notin DatabaseWords
      BY <1>1, WordsDiffer
    <2>2. APIAnswers = <<>> /\ APIAnswers' = answers'
      BY <1>1, <2>1 DEF APIAnswers, DatabaseAsked
    <2>3. QED
      BY <1>1, <2>2
  <1>2. CASE answers # <<>>
    <2>1. answers'[1] = answers[1] /\ answers' # <<>>
      BY <1>2
    <2>2. DatabaseAsked' <=> DatabaseAsked
      BY <1>2, <2>1 DEF DatabaseAsked
    <2>3. Tail(answers') = Append(Tail(answers), a)
      BY <1>2
    <2>4. APIAnswers' = Append(APIAnswers, a)
      BY <2>2, <2>3 DEF APIAnswers
    <2>5. QED
      BY <2>4, APIAnswersTyped
  <1>3. QED
    BY <1>1, <1>2

\* A first answer of the database is none of the API.
LEMMA DatabaseAnswerOnly ==
    ASSUME NEW a \in DatabaseWords, answers' = <<a>>
    PROVE  answers' \in Seq(DatabaseWords \cup APIWords) /\ APIAnswers' = <<>>
  BY DEF APIAnswers, DatabaseAsked

\* The counter and the number of answers stay within what is configured.
LEMMA CountsBounded ==
    ASSUME IInv
    PROVE  /\ attempt \in Nat /\ 1 <= attempt /\ attempt <= Attempts
           /\ Len(APIAnswers) \in Nat /\ Len(APIAnswers) <= Attempts
  <1>1. attempt \in Nat /\ 1 <= attempt /\ attempt <= Attempts
    <2>1. attempt \in 1..Attempts
      BY DEF IInv, TypeOK
    <2>2. QED
      BY <2>1, AttemptsPositive
  <1>2. APIAnswers \in Seq(DatabaseWords \cup APIWords)
    BY APIAnswersTyped DEF IInv, TypeOK
  <1>3. Len(APIAnswers) \in Nat
    BY <1>2
  <1>4. APIAnswers = <<>> => Len(APIAnswers) = 0
    OBVIOUS
  <1>5. \/ APIAnswers = <<>>
        \/ Len(APIAnswers) = attempt - 1
        \/ Len(APIAnswers) = attempt /\ attempt < Attempts
        \/ Len(APIAnswers) <= Attempts
    BY DEF IInv, TypeOK, AnswersCounted
  <1>6. QED
    BY <1>1, <1>3, <1>4, <1>5, AttemptsPositive

-----------------------------------------------------------------------------
(* Steps *)

LEMMA InitHolds == Init => IInv
  <1> SUFFICES ASSUME Init PROVE IInv
    OBVIOUS
  <1>1. APIAnswers = <<>> /\ answers = <<>> /\ attempt = 1 /\ pc = "database"
    BY DEF Init, APIAnswers, DatabaseAsked
  <1>2. attempt \in 1..Attempts /\ deadline \in 0..Timeout /\ now \in 0..Horizon
    <2>1. attempt = 1 /\ deadline = 0 /\ now = 0
      BY DEF Init
    <2>2. Timeout \in Nat /\ Horizon \in Nat
      BY AttemptsPositive, ResolverAssumption DEF Horizon
    <2>3. QED
      BY <2>1, <2>2, AttemptsPositive
  <1>3. TypeOK
    <2>1. answers \in Seq(DatabaseWords \cup APIWords)
      BY <1>1
    <2>2. wake \in Nat /\ cancelled \in BOOLEAN
      BY DEF Init
    <2>3. QED
      BY <1>1, <1>2, <2>1, <2>2 DEF Init, TypeOK
  <1>4. AnswersCounted /\ AllTemporary
    BY <1>1 DEF AnswersCounted, AllTemporary
  <1>5. QED
    BY <1>1, <1>3, <1>4 DEF Init, IInv

\* A step that asks nobody keeps what was answered.
LEMMA SameAnswers == UNCHANGED answers => APIAnswers' = APIAnswers
  BY DEF APIAnswers, DatabaseAsked

LEMMA DatabaseSteps ==
    ASSUME IInv, DatabaseHits \/ DatabaseMisses \/ DatabaseSkipped
    PROVE  IInv'
  <1>1. CASE DatabaseHits
    <2>1. answers' \in Seq(DatabaseWords \cup APIWords) /\ APIAnswers' = <<>>
      BY <1>1, DatabaseAnswerOnly DEF DatabaseHits, DatabaseWords
    <2>2. QED
      BY <1>1, <2>1, AttemptsPositive, ResolverAssumption
      DEF DatabaseHits, Return, IInv, TypeOK, AnswersCounted, AllTemporary
  <1>2. CASE DatabaseMisses
    <2>1. answers' \in Seq(DatabaseWords \cup APIWords) /\ APIAnswers' = <<>>
      BY <1>2, DatabaseAnswerOnly DEF DatabaseMisses
    <2>2. QED
      BY <1>2, <2>1 DEF DatabaseMisses, IInv, TypeOK, AnswersCounted, AllTemporary
  <1>3. CASE DatabaseSkipped
    <2>1. APIAnswers' = APIAnswers
      BY <1>3, SameAnswers DEF DatabaseSkipped
    <2>2. QED
      BY <1>3, <2>1 DEF DatabaseSkipped, IInv, TypeOK, AnswersCounted, AllTemporary
  <1>4. QED
    BY <1>1, <1>2, <1>3

\* A call that is given up without another answer.
LEMMA GiveUpStep ==
    ASSUME IInv, pc # "done", Return("failed"),
           UNCHANGED <<id, pooled, attempt, now, deadline, wake, cancelled, answers>>
    PROVE  IInv'
  <1>1. APIAnswers' = APIAnswers
    BY SameAnswers
  <1>2. Len(APIAnswers) <= Attempts
    BY CountsBounded
  <1>3. QED
    BY <1>1, <1>2, ResolverAssumption DEF Return, IInv, TypeOK, AnswersCounted, AllTemporary

LEMMA BeginStep ==
    ASSUME IInv, BeginAPI
    PROVE  IInv'
  <1>1. CASE id = "uuid"
    <2>1. deadline' \in 0..Timeout
      BY <1>1, ResolverAssumption DEF BeginAPI, WithTimeout
    <2>2. APIAnswers' = APIAnswers
      BY SameAnswers DEF BeginAPI
    <2>3. QED
      BY <1>1, <2>1, <2>2 DEF BeginAPI, IInv, TypeOK, AnswersCounted, AllTemporary
  <1>2. CASE id # "uuid"
    BY <1>2, GiveUpStep DEF BeginAPI
  <1>3. QED
    BY <1>1, <1>2

LEMMA SendStep ==
    ASSUME IInv, Send
    PROVE  IInv'
  <1>1. CASE Expired
    BY <1>1, GiveUpStep DEF Send
  <1>2. CASE ~Expired
    <2>1. APIAnswers' = APIAnswers
      BY SameAnswers DEF Send
    <2>2. QED
      BY <1>2, <2>1 DEF Send, IInv, TypeOK, AnswersCounted, AllTemporary
  <1>3. QED
    BY <1>1, <1>2

\* An answer of the API: the counter has caught up with it.
LEMMA AnswerCounts ==
    ASSUME IInv, pc = "sent", NEW a \in APIWords, answers' = Append(answers, a)
    PROVE  /\ answers' \in Seq(DatabaseWords \cup APIWords)
           /\ Len(APIAnswers') = attempt
           /\ attempt <= Attempts
  <1>1. answers \in Seq(DatabaseWords \cup APIWords)
    BY DEF IInv, TypeOK
  <1>2. answers' \in Seq(DatabaseWords \cup APIWords)
    BY <1>1
  <1>3. Len(APIAnswers') = Len(APIAnswers) + 1
    BY <1>1, APIAppend
  <1>4. Len(APIAnswers) = attempt - 1
    BY DEF IInv, AnswersCounted
  <1>5. QED
    BY <1>2, <1>3, <1>4, CountsBounded

LEMMA ConcludesStep ==
    ASSUME IInv, APIConcludes
    PROVE  IInv'
  <1>1. PICK a \in {"actorID", "userId", "status 404"} : answers' = Append(answers, a)
    BY DEF APIConcludes
  <1>2. a \in APIWords
    BY <1>1 DEF APIWords
  <1>3. result' \in {"mapping", "not_found"} /\ pc' = "done"
    BY DEF APIConcludes, Return
  <1>4. QED
    BY <1>1, <1>2, <1>3, AnswerCounts, ResolverAssumption
    DEF APIConcludes, IInv, TypeOK, AnswersCounted, AllTemporary

LEMMA FailsStep ==
    ASSUME IInv, APIFails
    PROVE  IInv'
  <1>1. PICK a \in Permanent \cup Temporary :
            /\ answers' = Append(answers, a)
            /\ IF Retries(a)
               THEN pc' = "wait" /\ wake' = now + attempt /\ UNCHANGED result
               ELSE Return("failed") /\ UNCHANGED wake
    BY DEF APIFails
  <1>2. a \in APIWords /\ pc = "sent"
    BY <1>1 DEF APIWords, APIFails
  <1>3. CASE Retries(a)
    <2>1. \A n \in 1..Len(APIAnswers') : APIAnswers'[n] \in Temporary
      <3>1. APIAnswers \in Seq(DatabaseWords \cup APIWords)
        BY APIAnswersTyped DEF IInv, TypeOK
      <3>2. a \in Temporary /\ \A n \in 1..Len(APIAnswers) : APIAnswers[n] \in Temporary
        BY <1>2, <1>3 DEF Retries, IInv, AllTemporary
      <3>3. answers \in Seq(DatabaseWords \cup APIWords)
        BY DEF IInv, TypeOK
      <3>4. /\ Len(APIAnswers') = Len(APIAnswers) + 1
            /\ \A n \in 1..Len(APIAnswers) : APIAnswers'[n] = APIAnswers[n]
            /\ APIAnswers'[Len(APIAnswers')] = a
        BY <1>1, <1>2, <3>3, APIAppend
      <3>5. QED
        BY <3>2, <3>4, CountsBounded
    <2>2. wake' \in Nat
      <3>1. now \in 0..Horizon
        BY DEF IInv, TypeOK
      <3>2. QED
        BY <1>1, <1>3, <3>1, CountsBounded
    <2>3. QED
      BY <1>1, <1>2, <1>3, <2>1, <2>2, AnswerCounts
      DEF APIFails, Retries, IInv, TypeOK, AnswersCounted, AllTemporary
  <1>4. CASE ~Retries(a)
    BY <1>1, <1>2, <1>4, AnswerCounts, ResolverAssumption
    DEF APIFails, Return, IInv, TypeOK, AnswersCounted, AllTemporary
  <1>5. QED
    BY <1>3, <1>4

LEMMA WaitOverStep ==
    ASSUME IInv, WaitOver
    PROVE  IInv'
  <1>1. APIAnswers' = APIAnswers
    BY SameAnswers DEF WaitOver
  <1>2. attempt' \in 1..Attempts
    <2>1. attempt' = attempt + 1 /\ attempt < Attempts
      BY DEF WaitOver, IInv, AnswersCounted
    <2>2. QED
      BY <2>1, CountsBounded, AttemptsPositive
  <1>3. Len(APIAnswers) = attempt' - 1
    BY CountsBounded DEF WaitOver, IInv, AnswersCounted
  <1>4. QED
    BY <1>1, <1>2, <1>3 DEF WaitOver, IInv, TypeOK, AnswersCounted, AllTemporary

\* The clock and the caller touch nothing the service keeps count of.
LEMMA OutsideSteps ==
    ASSUME IInv, Tick \/ CallerLeaves \/ UNCHANGED vars
    PROVE  IInv'
  <1>1. APIAnswers' = APIAnswers
    BY SameAnswers DEF Tick, CallerLeaves, vars
  <1>2. now' \in 0..Horizon
    <2>1. Horizon \in Nat
      BY AttemptsPositive, ResolverAssumption DEF Horizon
    <2>2. now \in 0..Horizon
      BY DEF IInv, TypeOK
    <2>3. now' = now \/ (now < Horizon /\ now' = now + 1)
      BY DEF Tick, CallerLeaves, vars
    <2>4. QED
      BY <2>1, <2>2, <2>3
  <1>3. cancelled' \in BOOLEAN
    BY DEF Tick, CallerLeaves, vars, IInv, TypeOK
  <1>4. UNCHANGED <<pc, id, pooled, attempt, deadline, wake, answers, result>>
    BY DEF Tick, CallerLeaves, vars
  <1>5. QED
    BY <1>1, <1>2, <1>3, <1>4 DEF IInv, TypeOK, AnswersCounted, AllTemporary

LEMMA StepHolds == IInv /\ [Next]_vars => IInv'
  <1> SUFFICES ASSUME IInv, [Next]_vars PROVE IInv'
    OBVIOUS
  <1>1. CASE RequestExpires \/ WaitExpires
    BY <1>1, GiveUpStep DEF RequestExpires, WaitExpires
  <1>2. CASE Returned
    BY <1>2, OutsideSteps DEF Returned
  <1>3. QED
    BY <1>1, <1>2, DatabaseSteps, BeginStep, SendStep, ConcludesStep, FailsStep, WaitOverStep,
       OutsideSteps DEF Next

-----------------------------------------------------------------------------
(* Theorems *)

\* Every reachable state satisfies the inductive invariant.
THEOREM Inductive == Spec => []IInv
  BY InitHolds, StepHolds, PTL DEF Spec

\* Variables keep their types: a deadline never exceeds the timeout, and the
\* attempt counter stays within what is configured.
THEOREM TypeCorrect == Spec => []TypeOK
  <1>1. IInv => TypeOK
    BY DEF IInv
  <1>2. QED
    BY <1>1, Inductive, PTL

\* The API is asked at most as often as configured.
THEOREM BoundedAttempts == Spec => []AttemptsAreBounded
  <1>1. IInv => AttemptsAreBounded
    BY CountsBounded DEF IInv, AnswersCounted, AttemptsAreBounded
  <1>2. QED
    BY <1>1, Inductive, PTL

\* Nothing final is ever asked again.
THEOREM TemporaryOnly == Spec => []OnlyTemporaryFailuresAreRetried
  <1>1. IInv => OnlyTemporaryFailuresAreRetried
    BY DEF IInv, AllTemporary, OnlyTemporaryFailuresAreRetried
  <1>2. QED
    BY <1>1, Inductive, PTL

\* Once the deadline has passed or the caller has gone no attempt is started.
THEOREM ExpiryIsFinal == Spec => NothingSentAfterExpiry
  <1>1. [Next]_vars => (pc # "sent" /\ pc' = "sent" => ~Expired)
    BY DEF Next, DatabaseHits, DatabaseMisses, DatabaseSkipped, BeginAPI, Send, RequestExpires,
           APIConcludes, APIFails, WaitExpires, WaitOver, Tick, CallerLeaves, Returned, Return, vars
  <1>2. [Next]_vars => [pc # "sent" /\ pc' = "sent" => ~Expired]_vars
    BY <1>1
  <1>3. QED
    BY <1>2, PTL DEF Spec, NothingSentAfterExpiry

-----------------------------------------------------------------------------
(* The resolver implements ResolverContract *)

lastWord == IF answers = <<>> THEN None ELSE WordOf(answers[Len(answers)])

contractVars == <<lastWord, result>>

\* What one answer amounts to is a word the contract knows.
LEMMA WordsOf ==
    /\ \A a \in {"actorID", "userId"} : WordOf(a) = "mapping"
    /\ WordOf("row") = "row"
    /\ WordOf("status 404") = "absent"
    /\ \A a \in Permanent \cup Temporary \cup (DatabaseWords \ Found) : WordOf(a) = "trouble"
  BY DEF WordOf, Permanent, Temporary, DatabaseWords, Found

\* An answer that has been heard is the last word.
LEMMA LastWord ==
    ASSUME IInv, NEW a, answers' = <<a>> \/ answers' = Append(answers, a)
    PROVE  lastWord' = WordOf(a)
  <1> HIDE DEF WordOf
  <1>1. answers \in Seq(DatabaseWords \cup APIWords) /\ Len(answers) \in Nat
    <2>1. answers \in Seq(DatabaseWords \cup APIWords)
      BY DEF IInv, TypeOK
    <2>2. QED
      BY <2>1
  <1>2. answers' # <<>> /\ answers'[Len(answers')] = a
    <2>1. CASE answers' = <<a>>
      BY <2>1
    <2>2. CASE answers' = Append(answers, a)
      BY <1>1, <2>2
    <2>3. QED
      BY <2>1, <2>2
  <1>3. QED
    BY <1>2 DEF lastWord

\* Hearing a source whose word settles the matter.
LEMMA Settled ==
    ASSUME NEW w \in {"row", "mapping", "absent"}, result = None, lastWord' = w,
           result' = IF w = "absent" THEN "not_found" ELSE "mapping"
    PROVE  Contract!CNext
  <1>1. w # None
    BY ResolverAssumption
  <1>2. Contract!Hear(w)
    BY DEF Contract!Hear, Contract!Conclusive, Contract!Meaning, lastWord
  <1>3. QED
    BY <1>1, <1>2 DEF Contract!CNext, Contract!Words, Contract!Conclusive

\* Hearing one whose word does not.
LEMMA Unsettled ==
    ASSUME result = None, lastWord' = "trouble", result' \in {None, "failed"}
    PROVE  Contract!CNext
  <1>1. "trouble" # None
    BY ResolverAssumption
  <1>2. Contract!Hear("trouble")
    BY DEF Contract!Hear, Contract!Conclusive, lastWord
  <1>3. QED
    BY <1>1, <1>2 DEF Contract!CNext, Contract!Words

\* A call that gives up hears nobody.
LEMMA GivesUp ==
    ASSUME result = None, Return("failed"), UNCHANGED answers
    PROVE  Contract!CNext
  <1>1. Contract!GiveUp
    BY DEF Contract!GiveUp, Return, lastWord
  <1>2. QED
    BY <1>1 DEF Contract!CNext

\* A step that neither hears nor returns is a stutter.
LEMMA Stutter == UNCHANGED <<answers, result>> => UNCHANGED contractVars
  BY DEF contractVars, lastWord

LEMMA StepMaps ==
    ASSUME IInv, [Next]_vars
    PROVE  [Contract!CNext]_contractVars
  <1> HIDE DEF WordOf, contractVars, lastWord
  <1>1. pc # "done" => result = None
    BY DEF IInv
  <1>2. CASE DatabaseHits
    <2>1. lastWord' = "row"
      BY <1>2, LastWord, WordsOf DEF DatabaseHits
    <2>2. QED
      BY <1>1, <1>2, <2>1, Settled DEF DatabaseHits, Return
  <1>3. CASE DatabaseMisses
    <2>1. lastWord' = "trouble"
      BY <1>3, LastWord, WordsOf DEF DatabaseMisses
    <2>2. QED
      BY <1>1, <1>3, <2>1, Unsettled DEF DatabaseMisses
  <1>4. CASE BeginAPI
    <2>1. CASE id = "uuid"
      BY <1>4, <2>1, Stutter DEF BeginAPI
    <2>2. CASE id # "uuid"
      BY <1>1, <1>4, <2>2, GivesUp DEF BeginAPI
    <2>3. QED
      BY <2>1, <2>2
  <1>5. CASE Send
    <2>1. CASE Expired
      BY <1>1, <1>5, <2>1, GivesUp DEF Send
    <2>2. CASE ~Expired
      BY <1>5, <2>2, Stutter DEF Send
    <2>3. QED
      BY <2>1, <2>2
  <1>6. CASE RequestExpires \/ WaitExpires
    BY <1>1, <1>6, GivesUp DEF RequestExpires, WaitExpires
  <1>7. CASE APIConcludes
    <2>1. PICK a \in {"actorID", "userId", "status 404"} :
              /\ answers' = Append(answers, a)
              /\ result' = IF a = "status 404" THEN "not_found" ELSE "mapping"
      BY <1>7 DEF APIConcludes, Return
    <2>2. lastWord' = WordOf(a)
      BY <2>1, LastWord
    <2>3. CASE a = "status 404"
      <3>1. lastWord' = "absent" /\ result' = "not_found"
        BY <2>1, <2>2, <2>3, WordsOf
      <3>2. QED
        BY <1>1, <1>7, <3>1, Settled DEF APIConcludes
    <2>4. CASE a # "status 404"
      <3>1. lastWord' = "mapping" /\ result' = "mapping"
        BY <2>1, <2>2, <2>4, WordsOf
      <3>2. QED
        BY <1>1, <1>7, <3>1, Settled DEF APIConcludes
    <2>5. QED
      BY <2>3, <2>4
  <1>8. CASE APIFails
    <2>1. PICK a \in Permanent \cup Temporary :
              /\ answers' = Append(answers, a)
              /\ result' \in {result, "failed"}
      BY <1>8 DEF APIFails, Return
    <2>2. lastWord' = "trouble"
      BY <2>1, LastWord, WordsOf
    <2>3. QED
      BY <1>1, <1>8, <2>1, <2>2, Unsettled DEF APIFails
  <1>9. CASE DatabaseSkipped \/ WaitOver \/ Tick \/ CallerLeaves \/ Returned \/ UNCHANGED vars
    BY <1>9, Stutter DEF DatabaseSkipped, WaitOver, Tick, CallerLeaves, Returned, vars
  <1>10. QED
    BY <1>2, <1>3, <1>4, <1>5, <1>6, <1>7, <1>8, <1>9 DEF Next

\* The result says exactly what the first conclusive source said, and nothing
\* short of the API's own word makes a mapping missing.
THEOREM Refinement == Spec => KeepsContract
  <1>1. Init => Contract!CInit
    BY DEF Init, Contract!CInit
  <1>2. IInv /\ [Next]_vars => [Contract!CNext]_contractVars
    BY StepMaps
  <1>3. QED
    BY <1>1, <1>2, Inductive, PTL
    DEF Spec, KeepsContract, Contract!CSpec, contractVars, lastWord
=============================================================================
