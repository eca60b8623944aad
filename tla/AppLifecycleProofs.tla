------------------------- MODULE AppLifecycleProofs -------------------------
(***************************************************************************)
(* Theorems about AppLifecycle, for any set of requests.  The order of the *)
(* end (listener, channel, pool) is that of the main goroutine: IInv says  *)
(* that it goes past ListenAndServe only when the listener is closed, and  *)
(* that nobody but the main goroutine touches the pool.                    *)
(***************************************************************************)
EXTENDS AppLifecycle, TLAPS

\* Past ListenAndServe the listener is closed, for good.
ListenerFirst == main \in {"clean"} \cup Closing => server # "listening"

IInv ==
    /\ TypeOK
    /\ ListenerFirst
    /\ PoolOutlivesListener

LEMMA InitIInv == Init => IInv
  BY DEF Init, IInv, TypeOK, ListenerFirst, PoolOutlivesListener, Closing, Gone

\* The main goroutine leaves ListenAndServe with the listener closed, and only
\* after that does it reach the pool.
LEMMA MainKeepsIInv == IInv /\ (MainStep \/ Killed) => IInv'
  <1> SUFFICES ASSUME IInv, MainStep \/ Killed PROVE IInv'
    OBVIOUS
  <1> USE DEF IInv, TypeOK, ListenerFirst, PoolOutlivesListener, Starting, Closing, Gone
  <1>1. CASE LoadConfig \/ OpenPool \/ ConstructFails \/ Wire
    BY <1>1 DEF LoadConfig, OpenPool, ConstructFails, Wire
  <1>2. CASE ListenAndServeReturns \/ CleanUp
    BY <1>2 DEF ListenAndServeReturns, CleanUp
  <1>3. CASE Close \/ PoolCloses
    BY <1>3 DEF Close, PoolCloses
  <1>4. CASE Exit \/ Killed
    BY <1>4 DEF Exit, Killed, CutOff, Served
  <1> QED
    BY <1>1, <1>2, <1>3, <1>4 DEF MainStep

\* The goroutine that waits for the signal may close the listener, never open it,
\* and does not touch the pool.
LEMMA StopperKeepsIInv == IInv /\ (StopperStep \/ Signal \/ ListenerFails) => IInv'
  <1> SUFFICES ASSUME IInv, StopperStep \/ Signal \/ ListenerFails PROVE IInv'
    OBVIOUS
  <1> USE DEF IInv, TypeOK, ListenerFirst, PoolOutlivesListener, Closing, Gone
  <1>1. CASE TakeSignal
    BY <1>1 DEF TakeSignal
  <1>2. CASE BeginShutdown \/ ShutdownReturns
    BY <1>2 DEF BeginShutdown, ShutdownReturns
  <1>3. CASE Signal \/ ListenerFails
    BY <1>3 DEF Signal, ListenerFails
  <1> QED
    BY <1>1, <1>2, <1>3 DEF StopperStep

\* A request changes nothing but itself.
LEMMA RequestKeepsIInv == ASSUME IInv, NEW r \in Requests, RequestStep(r) PROVE IInv'
  <1> USE DEF IInv, TypeOK, ListenerFirst, PoolOutlivesListener, Closing, Gone
  <1>1. CASE Connect(r) \/ Answer(r)
    BY <1>1 DEF Connect, Answer
  <1>2. CASE BeginQuery(r) \/ EndQuery(r)
    BY <1>2 DEF BeginQuery, EndQuery
  <1> QED
    BY <1>1, <1>2 DEF RequestStep

LEMMA Inductive == Spec => []IInv
  <1>1. IInv /\ [Next]_vars => IInv'
    <2> SUFFICES ASSUME IInv, [Next]_vars PROVE IInv'
      OBVIOUS
    <2>1. CASE UNCHANGED vars
      BY <2>1 DEF IInv, TypeOK, ListenerFirst, PoolOutlivesListener, Closing, Gone, vars
    <2> QED
      BY <2>1, MainKeepsIInv, StopperKeepsIInv, RequestKeepsIInv DEF Next, Exited
  <1> QED
    BY <1>1, InitIInv, PTL DEF Spec

\* The variables keep their types, and main, channel and pool their agreement.
THEOREM TypeCorrect == Spec => []TypeOK
  BY Inductive, PTL DEF IInv

\* At whatever point of its life the process is told to stop, once or twice, and
\* whether or not its listener failed by itself: the pool is told to close only
\* after the listener is closed (Run, Close, handleShutdown).
THEOREM PoolClosesLast == Spec => []PoolOutlivesListener
  BY Inductive, PTL DEF IInv
=============================================================================
