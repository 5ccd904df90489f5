------------------------- MODULE RequestPoolProofs --------------------------
(***************************************************************************)
(* Proofs about threads and connections, for any number of each and any    *)
(* number of requests.                                                     *)
(***************************************************************************)
EXTENDS RequestPool, FiniteSetTheorems, TLAPS

\* A connection is held by a request between its first statement and the close
\* of its session; a login's only while its body runs.  Only logins come back for
\* a second connection, and only other requests have a handler in a thread.
HoldOK ==
  /\ \A r \in conn : pc[r] \in {"lookup", "between", "handler", "closing"}
  /\ \A r \in conn \cap Login : pc[r] = "lookup"
  /\ \A r \in Request : pc[r] = "rewait" => r \in Login
  /\ \A r \in Request : pc[r] \in {"between", "handler"} => r \notin Login

PoolOK == PoolTypeOK /\ HoldOK

LEMMA ConnFinite ==
  ASSUME NEW S, S \subseteq Request
  PROVE  IsFiniteSet(S) /\ Cardinality(S) \in Nat
BY PoolAssumption, FS_Subset, FS_CardinalityType

LEMMA InitPoolOK == PoolInit => PoolOK
BY FS_EmptySet, PoolAssumption DEF PoolInit, PoolOK, PoolTypeOK, HoldOK, Stage

\* Connections that are given back leave room.
LEMMA FewerConns ==
  ASSUME PoolTypeOK, NEW r, conn' = conn \ {r} \/ conn' = conn
  PROVE  conn' \subseteq Request /\ Cardinality(conn') <= NConns
<1>1. conn \subseteq Request /\ conn' \subseteq conn
  BY DEF PoolTypeOK
<1>2. Cardinality(conn') <= Cardinality(conn)
  BY <1>1, ConnFinite, FS_Subset
<1> QED
  BY <1>1, <1>2, ConnFinite, PoolAssumption DEF PoolTypeOK

LEMMA MoveType ==
  ASSUME PoolTypeOK, NEW r \in Request, NEW s \in Stage, pc' = [pc EXCEPT ![r] = s]
  PROVE  /\ pc' \in [Request -> Stage]
         /\ pc'[r] = s
         /\ \A q \in Request \ {r} : pc'[q] = pc[q]
BY DEF PoolTypeOK

LEMMA StepPoolOK ==
  ASSUME PoolOK, NEW r \in Request, Progress(r) \/ PoolTimeout(r)
  PROVE  PoolOK'
<1> USE DEF PoolOK
<1>1. PICK s \in Stage : pc' = [pc EXCEPT ![r] = s]
  BY DEF Progress, PoolTimeout, Begin, Checkout, EndLookup, BeginHandler, EndHandler,
         LateCommit, Close, Move, Stage
<1>2. pc' \in [Request -> Stage] /\ \A q \in Request \ {r} : pc'[q] = pc[q]
  BY <1>1, MoveType
<1>3. conn' \subseteq Request /\ Cardinality(conn') <= NConns
  <2>1. CASE Checkout(r)
    <3>1. conn \subseteq Request /\ Cardinality(conn) < NConns
      BY <2>1 DEF Checkout, ConnFree, PoolTypeOK
    <3>2. Cardinality(conn \cup {r}) <= Cardinality(conn) + 1
      BY <3>1, ConnFinite, FS_AddElement
    <3> QED
      BY <2>1, <3>1, <3>2, ConnFinite, PoolAssumption DEF Checkout
  <2>2. CASE ~Checkout(r)
    <3>1. conn' = conn \ {r} \/ conn' = conn
      BY <2>2 DEF Progress, PoolTimeout, Begin, EndLookup, BeginHandler, EndHandler,
                  LateCommit, Close
    <3> QED
      BY <3>1, FewerConns
  <2> QED
    BY <2>1, <2>2
<1>4. PoolTypeOK'
  BY <1>2, <1>3 DEF PoolTypeOK
<1>5. HoldOK'
  <2> USE DEF HoldOK, PoolTypeOK, Move
  <2>1. CASE Begin(r)
    BY <1>2, <2>1 DEF Begin
  <2>2. CASE Checkout(r)
    BY <1>2, <2>2 DEF Checkout
  <2>3. CASE EndLookup(r)
    BY <1>2, <2>3 DEF EndLookup
  <2>4. CASE BeginHandler(r)
    BY <1>2, <2>4 DEF BeginHandler
  <2>5. CASE EndHandler(r)
    BY <1>2, <2>5 DEF EndHandler
  <2>6. CASE LateCommit(r) \/ Close(r)
    BY <1>2, <2>6 DEF LateCommit, Close
  <2>7. CASE PoolTimeout(r)
    BY <1>2, <2>7 DEF PoolTimeout, Waiting
  <2> QED
    BY <2>1, <2>2, <2>3, <2>4, <2>5, <2>6, <2>7 DEF Progress
<1> QED
  BY <1>4, <1>5

LEMMA NextPoolOK == PoolOK /\ [PoolNext]_<<pc, conn>> => PoolOK'
<1>1. ASSUME PoolOK, UNCHANGED <<pc, conn>> PROVE PoolOK'
  BY <1>1 DEF PoolOK, PoolTypeOK, HoldOK
<1> QED
  BY <1>1, StepPoolOK DEF PoolNext, AllDone

\* Who holds a connection and who waits, at any time and for any load.
THEOREM PoolSpecOK == PoolSpec => []PoolOK
BY InitPoolOK, NextPoolOK, PTL DEF PoolSpec

\* The pool never hands out more connections than it has.
THEOREM PoolSpecTypeOK == PoolSpec => []PoolTypeOK
<1>1. PoolOK => PoolTypeOK
  BY DEF PoolOK
<1> QED
  BY <1>1, PoolSpecOK, PTL

-----------------------------------------------------------------------------
\* What it means that nothing can go on and something is left to do.
Stuck == (\E r \in Request : pc[r] # "done") /\ \A r \in Request : ~CanMove(r)

LEMMA StuckStages ==
  ASSUME PoolOK, Stuck
  PROVE  /\ \A r \in Request : pc[r] \in {"queued", "wait", "between", "rewait", "closing", "done"}
         /\ (\E r \in Request : Waiting(r)) => ~ConnFree
BY DEF PoolOK, PoolTypeOK, Stuck, CanMove, Stage

\* When requests wait for connections other requests hold, and those wait for the
\* threads the first ones occupy, there are as many as threads and connections.
LEMMA StuckLoad ==
  ASSUME PoolOK, Stuck, InFlight \cap Login = {}
  PROVE  Cardinality(InFlight) >= NThreads + NConns
<1>1. LoopFree
  BY DEF LoopFree, InFlight, Request
<1>2. \A r \in Request : pc[r] \in {"queued", "wait", "between", "done"}
  BY <1>1, StuckStages DEF Stuck, CanMove, PoolOK, HoldOK, InFlight
<1>3. Threads = {r \in Request : pc[r] = "wait"}
  BY <1>2 DEF Threads, Request, InFlight
<1>4. Threads # {}
  <2>1. ASSUME Threads = {} PROVE FALSE
    <3>1. ThreadFree
      BY <2>1, FS_EmptySet, PoolAssumption DEF ThreadFree
    <3> QED
      BY <1>1, <1>2, <1>3, <2>1, <3>1 DEF Stuck, CanMove
  <2> QED
    BY <2>1
<1>5. ~ConnFree
  BY <1>3, <1>4, StuckStages DEF Waiting
<1>6. \A r \in conn : pc[r] = "between"
  BY <1>2 DEF PoolOK, PoolTypeOK, HoldOK
<1>7. conn # {}
  BY <1>5, FS_EmptySet, PoolAssumption DEF ConnFree
<1>8. ~ThreadFree
  BY <1>1, <1>6, <1>7 DEF Stuck, CanMove, PoolOK, PoolTypeOK
<1>9. /\ conn \subseteq InFlight /\ Threads \subseteq InFlight
      /\ InFlight \subseteq Request /\ conn \cap Threads = {}
  BY <1>3, <1>6 DEF PoolOK, PoolTypeOK, InFlight
<1>10. Cardinality(conn \cup Threads) = Cardinality(conn) + Cardinality(Threads)
  <2>1. IsFiniteSet(conn) /\ IsFiniteSet(Threads)
    BY <1>9, ConnFinite
  <2>2. Cardinality(conn \cup Threads)
          = Cardinality(conn) + Cardinality(Threads) - Cardinality(conn \cap Threads)
    BY <2>1, FS_Union
  <2>3. Cardinality(conn \cap Threads) = 0
    BY <1>9, FS_EmptySet
  <2>4. Cardinality(conn) \in Nat /\ Cardinality(Threads) \in Nat
    BY <1>9, ConnFinite
  <2> QED
    BY <2>2, <2>3, <2>4
<1>11. Cardinality(conn \cup Threads) <= Cardinality(InFlight)
  <2>1. IsFiniteSet(InFlight) /\ conn \cup Threads \subseteq InFlight
    BY <1>9, ConnFinite
  <2> QED
    BY <2>1, FS_Subset
<1>12. Cardinality(conn) >= NConns /\ Cardinality(Threads) >= NThreads
  BY <1>5, <1>8, <1>9, ConnFinite, PoolAssumption DEF ConnFree, ThreadFree
<1> QED
  BY <1>9, <1>10, <1>11, <1>12, ConnFinite, PoolAssumption

\* With a connection to spare for every request that is not a login, nothing is
\* ever stuck: a login needs its own only while it runs.
LEMMA StuckOthers ==
  ASSUME PoolOK, Stuck
  PROVE  Cardinality(InFlight \ Login) >= NConns
<1> DEFINE others == InFlight \ Login
<1>0. others \subseteq Request
  BY DEF InFlight
<1> SUFFICES ASSUME Cardinality(others) < NConns PROVE FALSE
  BY <1>0, ConnFinite, PoolAssumption
<1>1. \A r \in Request : pc[r] \in {"queued", "wait", "between", "rewait", "closing", "done"}
  BY StuckStages
<1>2. conn \subseteq others
  BY <1>1 DEF PoolOK, PoolTypeOK, HoldOK, InFlight
<1> HIDE DEF others
<1>3. ConnFree
  <2>1. Cardinality(conn) <= Cardinality(others)
    BY <1>0, <1>2, ConnFinite, FS_Subset
  <2> QED
    BY <1>0, <1>2, <2>1, ConnFinite, PoolAssumption DEF ConnFree
<1>4. \A r \in Request : pc[r] \in {"queued", "between", "closing", "done"}
  BY <1>1, <1>3, StuckStages DEF Waiting
<1>5. LoopFree /\ Threads = {}
  BY <1>4 DEF LoopFree, Threads, Request
<1>6. ThreadFree
  BY <1>5, FS_EmptySet, PoolAssumption DEF ThreadFree
<1> QED
  BY <1>4, <1>5, <1>6 DEF Stuck, CanMove

\* Under a light load some request can always go on without a timeout.
THEOREM PoolSpecNoWedge == PoolSpec => []NoWedge
<1>1. PoolOK => NoWedge
  <2> SUFFICES ASSUME PoolOK, Stuck PROVE ~LightLoad
    BY DEF NoWedge, Stuck
  <2>1. InFlight \subseteq Request
    BY DEF InFlight
  <2> QED
    BY <2>1, StuckLoad, StuckOthers, ConnFinite, PoolAssumption DEF LightLoad
<1> QED
  BY <1>1, PoolSpecOK, PTL
=============================================================================
