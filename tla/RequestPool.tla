---------------------------- MODULE RequestPool -----------------------------
(***************************************************************************)
(* How requests share the process: the event loop, which starts every      *)
(* stage of a request; the threads current_actor and the handlers run in;  *)
(* and the connections of the engine's pool.  A session takes a connection *)
(* at its first statement and gives it back when it commits or is closed.  *)
(* login is a coroutine: its statements wait on the event loop itself.     *)
(***************************************************************************)
EXTENDS Naturals, FiniteSets

CONSTANTS
  Reader,              \* requests whose handler only reads
  Writer,              \* requests whose handler commits
  Login,               \* requests to /api/login
  NThreads,            \* tokens of the thread pool: 40
  NConns               \* connections of the pool, overflow included: 15

Request == Reader \cup Writer \cup Login

ASSUME PoolAssumption ==
  /\ IsFiniteSet(Request)
  /\ Login \cap (Reader \cup Writer) = {}
  /\ NThreads \in Nat \ {0}
  /\ NConns \in Nat \ {0}

(* queued: not started; wait: its first statement waits for a connection;   *)
(* lookup: current_actor, or a login's body; between: the actor is known    *)
(* and the handler waits for a thread; handler; rewait: the commit in       *)
(* login's except branch waits for a connection; closing: the session is    *)
(* about to be closed; done.                                                *)
Stage == {"queued", "wait", "lookup", "between", "handler", "rewait", "closing", "done"}

VARIABLES
  pc,   \* Request -> Stage
  conn  \* the requests whose session holds a connection

PoolTypeOK ==
  /\ pc \in [Request -> Stage]
  /\ conn \subseteq Request
  /\ Cardinality(conn) <= NConns
-----------------------------------------------------------------------------
LoopFree == \A l \in Login : pc[l] \notin {"wait", "lookup", "rewait"}

Threads == {r \in Reader \cup Writer : pc[r] \in {"wait", "lookup", "handler"}}

ThreadFree == Cardinality(Threads) < NThreads

ConnFree == Cardinality(conn) < NConns

Move(r, from, to) == pc[r] = from /\ pc' = [pc EXCEPT ![r] = to]

Waiting(r) == pc[r] \in {"wait", "rewait"}

(* The event loop starts current_actor in a thread, or a login's body.      *)
Begin(r) ==
  /\ LoopFree
  /\ r \in Login \/ ThreadFree
  /\ Move(r, "queued", "wait")
  /\ UNCHANGED conn

\* Mutant: the pool has no limit.
CheckoutUnbounded(r) ==
  /\ Move(r, "wait", "lookup")
  /\ conn' = conn \cup {r}

(* The first statement of a session checks a connection out.                *)
Checkout(r) ==
  /\ ConnFree
  /\ Move(r, "wait", "lookup")
  /\ conn' = conn \cup {r}

\* Mutant: a statement that got no connection in time just tries again.
PoolTimeoutRetries(r) ==
  /\ ~ConnFree
  /\ Waiting(r)
  /\ UNCHANGED <<pc, conn>>

(* After pool_timeout the checkout raises.  login's except branch then      *)
(* commits its audit event, which needs a connection again.                 *)
PoolTimeout(r) ==
  /\ ~ConnFree
  /\ Waiting(r)
  /\ pc' = [pc EXCEPT ![r] =
       IF r \in Login /\ pc[r] = "wait" THEN "rewait" ELSE "closing"]
  /\ UNCHANGED conn

(* The commit of the except branch: out and back.                           *)
LateCommit(r) ==
  /\ ConnFree
  /\ Move(r, "rewait", "closing")
  /\ UNCHANGED conn

(* current_actor returns; its thread is free, its connection is not.  A     *)
(* refused actor goes no further.  A login commits, right or wrong.         *)
EndLookup(r) ==
  \/ /\ r \notin Login
     /\ Move(r, "lookup", "between") \/ Move(r, "lookup", "closing")
     /\ UNCHANGED conn
  \/ /\ r \in Login
     /\ Move(r, "lookup", "closing")
     /\ conn' = conn \ {r}

(* The event loop starts the handler in a thread.                           *)
BeginHandler(r) ==
  /\ LoopFree
  /\ ThreadFree
  /\ Move(r, "between", "handler")
  /\ UNCHANGED conn

(* The handler returns or raises: a commit gave the connection back.        *)
EndHandler(r) ==
  /\ Move(r, "handler", "closing")
  /\ conn' = IF r \in Writer THEN conn \ {r} ELSE conn

\* Mutant: get_db without its finally.
CloseLeaks(r) ==
  /\ LoopFree
  /\ Move(r, "closing", "done")
  /\ UNCHANGED conn

(* get_db's finally: the event loop leaves the dependency (in a thread of a *)
(* limiter of its own), and the session is closed.                          *)
Close(r) ==
  /\ LoopFree
  /\ Move(r, "closing", "done")
  /\ conn' = conn \ {r}

\* Everything a request may do without anything timing out.
Progress(r) ==
  \/ Begin(r) \/ Checkout(r) \/ EndLookup(r) \/ BeginHandler(r) \/ EndHandler(r)
  \/ LateCommit(r) \/ Close(r)

AllDone == (\A r \in Request : pc[r] = "done") /\ UNCHANGED <<pc, conn>>

PoolInit ==
  /\ pc = [r \in Request |-> "queued"]
  /\ conn = {}

PoolNext == (\E r \in Request : Progress(r) \/ PoolTimeout(r)) \/ AllDone

PoolSpec == PoolInit /\ [][PoolNext]_<<pc, conn>>

\* Threads and the event loop run whenever they can, and SQLAlchemy's
\* pool_timeout bounds the wait for a connection.
PoolFairness ==
  \A r \in Request : WF_<<pc, conn>>(Progress(r)) /\ WF_<<pc, conn>>(PoolTimeout(r))

FairPoolSpec == PoolSpec /\ PoolFairness
-----------------------------------------------------------------------------
\* Every request is answered, also when all threads wait for connections whose
\* holders wait for a thread, or the event loop itself does.
EveryRequestDone == \A r \in Request : <>(pc[r] = "done")

\* A request that can go on by itself: one of its steps only needs what is free.
CanMove(r) ==
  \/ pc[r] = "queued" /\ LoopFree /\ (r \in Login \/ ThreadFree)
  \/ Waiting(r) /\ ConnFree
  \/ pc[r] \in {"lookup", "handler"}
  \/ pc[r] = "between" /\ LoopFree /\ ThreadFree
  \/ pc[r] = "closing" /\ LoopFree

InFlight == {r \in Request : pc[r] \notin {"queued", "done"}}

\* A load the pools carry: no login and fewer requests under way than threads
\* and connections together, or any login and fewer others than connections.
LightLoad ==
  \/ InFlight \cap Login = {} /\ Cardinality(InFlight) < NThreads + NConns
  \/ Cardinality(InFlight \ Login) < NConns

\* Under such a load, whatever is queued, the process never stands still until a timeout: some request
\* can always go on.  (get_db gives back what current_actor took, whatever the
\* handler did, and login's commit what it took before it leaves the event loop.)
NoWedge ==
  LightLoad =>
    (\A r \in Request : pc[r] = "done") \/ \E r \in Request : CanMove(r)
=============================================================================
