# Verification of keyjack

TLA+ models, TLC model-checking runs and TLAPS proofs for keyjack, the parts
desk of the fictional Ninebark Field Services (`src/keyjack`).  The program is a
FastAPI application over SQLite, in a secure variant and contrast variants that
share its workflow.  This project states what the parts desk is supposed to do
with orders, pickup codes, stock and the audit trail, and checks it against what
the handlers do when they interleave, fail, time out or are killed.  Paths below
are relative to the repository; line numbers are those of its one commit.

## 1. The system

### 1.1 Components

| Component | Where | State it keeps | Operations |
|---|---|---|---|
| Domain decisions | `domain.py`, `models.py:20-30` | none | `compute_authorization`, `route_state` |
| Workflow handlers | `apps/common.py:304-404` | rows of `orders`, `pickup_codes`, `parts.stock`, `audit_events` | `approve_order`, `reject_order`, `pickup` |
| Secure order creation | `apps/secure.py` | rows of `orders`, `pickup_codes` | `create_order` from server-held facts |
| Body-trusting order creation | `apps/bodytrusting.py`, `signing.py` | the same tables | `create_order` from a signed body, client-minted codes |
| Audit trail | `audit.py` | `audit_events`, the `keyjack.audit` log | `emit_audit` |
| Sessions and login | `apps/common.py:81-103, 222-261` | `sessions` | `login`, `logout`, `current_actor` |
| Reads | `apps/common.py:264-301` | none | catalog, work orders, order queue, order detail |
| Database wiring | `db.py`, `get_db` | engine, connection pool, SQLite's lock | one session per request, closed in `finally` |
| Startup and seeding | `build_app`, `fixtures.py`, `config.py` | the whole database | drop, create, seed, or only create |
| Browser clients | `web/static/*/client*.js` | `me`, `catalog`, the page | sign-in and sign-out, which refresh; order form, console and pickup form, which render some elements again |
| Attack demonstration tooling | `attacker/` | none of the system's | drives the HTTP interface of the contrast variants |
| Pages, styles, packaging, harness | `web/templates`, compose files | none | |

### 1.2 How they interact

* A request to a `def` handler runs in a thread of Starlette's pool with a
  session of its own (`get_db`).  The handlers share no Python state: they meet in
  the database.
* The engine uses Python's `sqlite3` driver in its default mode.  A `SELECT` that
  comes before any write is not in a transaction: each one reads the rows
  committed at that moment.  `BEGIN` is sent with the first `INSERT` or `UPDATE`
  that the session flushes; from then until `COMMIT` the thread is the only writer,
  and other writers wait for at most the driver's busy timeout, after which they
  raise "database is locked".
* SQLAlchemy's identity map returns the objects of the earlier reads, and a flush
  updates the changed columns of a row by its primary key with no condition on
  the old values.  What a handler read may therefore be out of date when it is
  written.
* The order of statements matters.  `approve_order` assigns `order.state`, then
  reads `order.pickup_code`: the lazy load autoflushes the assignment first, so
  the read happens with the write lock held (`common.py:337-342`).  `emit_audit` logs its line
  as soon as it is called, and its row is written by the commit (`audit.py:39-65`).
* If a handler raises, `get_db` closes the session, which rolls back.

### 1.3 What is hard

Stale reads before an unconditional write (`pickup`, `approve_order`,
`reject_order`), one lock for all writers, a log line that precedes its commit,
failures and kills between the two, restarts over the same file with
`KEYJACK_RESEED=0`, expiry at the boundary, sessions that end under requests they
authenticated, the startup's many transactions, the thread pool against the
connection pool with a blocking coroutine between them, bodies signed by one program
and rebuilt by another, and overlapping functions of the browser page.
`PROJECT.json` lists each at its line under `hazards`, with the properties that
cover it.

### 1.4 What makes each component correct

* Workflow and order creation: a code belongs to one order and its owner, exists
  exactly for released orders, is used exactly when the order is collected, and
  within its lifetime; nothing is collected without authority; an order follows its
  life cycle and is handed out at most once; the stock follows the hand-outs.
* Audit: an event for every change, in the log and in the table.
* Database wiring: every lock is released, every request answered.
  No load a small number of requests makes needs a timeout to end.
* Sessions: nothing is done in the name of an account whose password nobody
  presented; an answered logout is final; no 401 goes out without its audit event.
* Reads: an owner who is shown a released order is shown its code, nobody else is.
* Body-trusting creation: what is on the desk is what was signed.  (That it should
  not be trusted is what the variants demonstrate.)
* Startup: whatever a crash leaves, the next start serves every table, fresh or old,
  and with its index if it reseeds.
* Clients: the page shows codes of one person, at rest those of the user it names.

## 2. The modules

| Module | What it is |
|---|---|
| `Domain` | enumerations, `ComputeAuthorization`, `RouteState` |
| `Workflow` | the tables, the threads, SQLite's lock; approve, reject, pickup; the unit of work of order creation; failures, crashes, the clock |
| `WorkflowProperties` | what the workflow promises whichever `create_order` feeds it |
| `WorkflowInvariants`, `WorkflowProofs` | what makes it so, step by step, for both applications: the lock, the audit trail, the shelf, one request at a time |
| `SecureApp` | `Workflow` with the secure `create_order`; specification, properties |
| `PartsDesk` | what the desk promises, with no threads, codes or clock |
| `SecureRefinement` | the mapping of `SecureApp` to `PartsDesk`, and the invariant `Routed` behind it |
| `SecureInvariants`, `SecureAppProofs` | the inductive invariant `Consistent`; the theorems about concurrent requests |
| `SerialProofs` | the theorems for one request at a time, the refinement among them |
| `KeyjackApp` | `SecureApp` behind its door: login, logout, sessions, `current_actor`, the reads |
| `KeyjackInvariants`, `KeyjackProofs` | its inductive invariants and theorems |
| `Signing` | the canonical text of a body, as server and client write it |
| `BodyTrustingApp` | `Workflow` with the signed-body `create_order` of the contrast variants |
| `BodyRefinement` | its mapping to `PartsDesk`: what is ordered is a signed body |
| `BodyTrustingProofs` | its inductive invariant and theorems |
| `RequestPool`, `RequestPoolProofs` | event loop, threads and pooled connections; its theorems |
| `Startup`, `StartupProofs` | `build_app` over an existing file, with deaths and restarts; its theorems |
| `ClientPage`, `ClientPageProofs` | the secure client in one browser against the server's answers; its theorems |
| `MCSecureApp`, `MCKeyjackApp`, `MCBodyTrustingApp`, `MCClientPage` | small instances for TLC |

`SecureApp` and `BodyTrustingApp` extend the same `Workflow`, as both applications
call `register_workflow`; the lemmas of `WorkflowProofs` are about `Workflow`'s actions
and are cited by the proofs of both.  `KeyjackApp` extends `SecureApp` and supplies its requests;
that it implements it (`ImplementsSecureApp`) makes every theorem about `SecureApp`
one about the whole.  `RequestPool`, `Startup` and `ClientPage` look at the same
program from other sides and share no variable with it.

### 2.1 Workflow and SecureApp

| Variable | Code |
|---|---|
| `orders`, `codes` | the tables, as functions from the ids inserted so far to rows |
| `stock` | `parts.stock` |
| `audit`, `log` | rows of `audit_events`, lines of the `keyjack.audit` logger, counted by reason code |
| `writer` | the thread whose transaction holds SQLite's write lock |
| `task` | per thread: where its handler is and what it remembers of its reads |
| `now`, `served` | `utcnow()` in ticks; requests received, for the bound |
| `handed` | history: how often a committed unit of work handed the order's parts out |

Accounts, parts (but for the stock) and work orders are seeded and never change:
they are constants.  `pickup` tolerates a missing part (`if part is not None`);
parts are never deleted, so that branch is not reachable and is left out.

A handler is cut where another thread may see or change the database in between.

| Code | Actions |
|---|---|
| `create_order` (secure) up to `db.commit()` | `CreateOrder` (through `StageOrder`), `CreateForbidden` |
| `approve_order` up to `order.approved_by = actor.id` | `ApproveOrder`, `DecisionForbidden` |
| its lazy load of `order.pickup_code`, `emit_audit` | `Flush` |
| `reject_order` up to `db.commit()` | `RejectOrder`, `DecisionForbidden` |
| `pickup`: clock, code row | `PresentCode`, `PresentBadCode` |
| its `db.get(Order, ...)` | `ReadOrder`, `ReadUncollectable` |
| its `db.get(Part, ...)`, assignments, `emit_audit` | `ReadPart` |
| the flush inside `db.commit()`: `BEGIN`, the lock | `Flush` |
| `COMMIT` | `CommitCreate`, `CommitApprove`, `CommitReject`, `CommitCollect`, `CommitRefuse` |
| "database is locked" | `BusyTimeout` |
| any other exception after the first read; `get_db`'s `finally` | `Fail` |
| the process killed, started again with `KEYJACK_RESEED=0` | `Crash` |

What is merged, and why nothing is lost:

* `create_order` reads only rows that never change, so its reads, its clock and its
  staging are one step.
* The id of a new row is chosen when it is committed.  Ids are random and never
  repeat, and nobody can name an id before it is committed.
* A server-issued code is random as well: the key of its row stands for its
  value, and nobody presents one before it exists.  `pickup` takes the time just before
  it reads the code row; whether the row exists, to whom it belongs and when it expires is
  then the same at both moments, and a used code stays used, so an accepting
  handler may be taken to have done both at the earlier moment, a refusing one at
  the later.  A client-minted code is known before its row is committed; there
  (`BodyTrustingApp!OtherRequest`) the time is any up to the read.
* `approve_order` reads its clock between the order and the flush: `Flush` chooses any
  moment from the one to the other.
* Reads of committed rows wait for nobody.  A commit that has to wait for a reader
  and gives up is an outcome of `Fail`.

Refusals before anything is pending (403) only use up a request.  Wording,
correlation ids, routes and timestamps that nothing reads are left out.

`AtBound` (elsewhere `Quiet`, `AllDone`) is not code: it is the stutter that keeps
TLC's deadlock check meaningful when the bounds are used up.  Deadlock is checked
in every run.

### 2.2 KeyjackApp

| Variable | Code |
|---|---|
| `sessions` | the `sessions` table, from tokens to account and expiry |
| `entry` | per thread, what it knows before its handler has started anything: its actor, the row a `logout` read, the order whose code `get_order` is about to read |
| `login` | the login on the event loop |
| `failed` | `login_failed` events: lines, rows, 401 answers |
| `issued`, `ended`, `proven`, `shown` | history: tokens handed out, tokens logged out, accounts whose password was presented, what `get_order` showed |

| Code | Actions |
|---|---|
| `_lookup_actor`, `current_actor` | `CurrentActor` |
| an authenticated request to a handler of `SecureApp` | `Handle` |
| `me`, `catalog`, `work_orders`, `list_orders`, `get_order` of another's order | `Browse` |
| `get_order` of one's own released order: the order; its code | `GetOrder`; `GetOrderCode` |
| `logout`: the SELECT; the DELETE and its commit | `Logout`; `LogoutCommit` |
| `login` up to its commit; its commit, right or wrong; the 401 | `LoginBody`; `LoginOpen`, `LoginRefuse`; `LoginAnswer` |
| an exception in any of these | `EntryFail`, `LoginFails` |

`login` is a coroutine that awaits nothing once the body is parsed, so it occupies
the event loop: at most one is under way, beside the threads.  A refusal is a line, then a committed
row, then a 401; the commit may raise, and the process may die between any two of the three.  The one row that
`login` and `logout` write is flushed and committed at once, so these steps only
wait until nobody holds the lock.  A request of an account acts on the session as it
was when it was looked up; the model lets it end, expire, or be logged out twice
in between.  A password is named by the account it belongs to; PBKDF2 and the
decoy verification of unknown accounts are reduced to their verdict.

### 2.3 Signing and BodyTrustingApp

A form is what a client posts, from field names to JSON values; a body is what the schema
makes of it (`Parsed`): a field that is not sent and a null are both `None`, and pydantic converts
what it can (`Loose`, `Converted`: `"false"` for a flag, `"02"` or `1e21` for a number).  A text is the
sequence of its lines.  `ClientCanonical` translates `canonicalOrder` of the vulnerable client: six lines
and one for each optional field that is not `undefined`, a null one included, and of each value what
JavaScript writes of it (`Said`).  `CanonicalOrderString` is the server's: a line for each optional field that
is not `None`.  `Stated` is the order that a client's text states.  A signature stands for
the text it was made for (the HMAC key is public in these variants).  Neither side escapes
line breaks; the model takes values to be single lines, and everything said of
signatures is said of such forms.

`CreateOrder` of `BodyTrustingApp` is `create_order` of `apps/bodytrusting.py`:
checks, verdict (posted in full, or computed from posted facts), creation time,
client-minted or server-drawn code.  Orders posted from one body under the signature
of another are among its inputs.  `basis` is a history: the order that the text an
order's client signed states.  The two contrast variants differ, in what is modelled here, in
`EnforcePickupOwner` alone; the run takes the vulnerable one (`FALSE`), in which
more can happen.

### 2.4 RequestPool

A request is `queued`, waits for a connection at its first statement, is in its
look-up, between look-up and handler, in its handler, about to be closed, `done`.
`conn` is the set of sessions that hold a connection.  A `def` request needs a thread
for the look-up and again for the handler and keeps the connection in between; each
stage is started by the event loop; a login waits, works and commits on the event loop itself,
and if it got no connection in time its except branch waits once more (`rewait`).
FastAPI's thread limit, SQLAlchemy's pool of 5 with an overflow of 10, and its timeout of 30 s
are external; the code uses their defaults.

### 2.5 Startup

`drop_all` and `create_all` commit table by table (in the order the foreign keys
dictate; any such order is allowed), `seed` once.  One table has an index beside its key
(`models.py:97`): `CREATE INDEX` is a statement and a commit of its own (`CreateIndex`), which
`create_all` sends only after a table it created itself.  `Die` may come between any two
steps; each start reads `KEYJACK_RESEED` (`Flag`) and the opt-in anew.  Of a table it is kept
whether it is empty, holds the fixtures, or rows that requests wrote.

### 2.6 ClientPage

One browser, its cookie, the page's `me` and the `my-pickups` element, and up to
two functions of `client.js` under way: a load, sign-in, sign-out, the order form, the console, the
pickup form.  A function is the request it awaits and what it does after the lists (`tail`): all of
`refresh`, `renderMyPickups` alone, or nothing.  The server answers requests in any order, with the
cookie each was sent with; the answer arrives at any later time, or never (`Lost`, in which the header
with the cookie may have arrived).  An answer is what was asked for (`ok`), a refusal, whose JSON object
has no `map` and no `filter` (`refused`), or has no rows (`bare`): an empty list, or the 500 of a handler
that raised, whose text body `api` makes `null` of, so that `|| []` goes on.  What `refresh` and
`renderMyPickups` read after an `await` (`me`, the cookie) they read in the step that the answer
triggers, as the code does.  The catalogue, the work orders and the queue's table show no codes: their
requests are one (`lists`).  Roles are left out: the console, which a refresh that was cut short may leave
to another user, is anybody's here, and what it decides is any order of another's.  `Elsewhere` and
`Expire` are the other browsers.

## 3. The runs

| Run | Question | Bounds | Result |
|---|---|---|---|
| `secure_concurrent` | what holds however two threads interleave, fail or are killed | 2 threads, 5 requests, 2 orders, 2 codes, 2 ticks | holds |
| `secure_serial` | with one request at a time, failures and crashes included: is an order handed out once, is the stock exact, does the application implement `PartsDesk` | 1 thread, 5 requests, 2 orders, 2 parts | holds |
| `secure_liveness` | is every request answered, does the lock always come back | 2 threads, 3 requests, 1 tick | holds |
| `break_single_use`, `break_stock_exact`, `break_rejected`, `break_audit_exact` | do the promises of the comments survive two threads or a failure | 2 threads, 4 requests | violated |
| `keyjack_site` | sessions that end under requests, logins beside writers, restarts | 2 threads, 2 tokens, 3 requests, 2 logins, 1 order, 1 tick | holds |
| `vulnerable_concurrent` | what holds of orders taken from signed bodies, of the shelf and of the audit trail behind them | 2 threads, 4 requests, 2 orders, 5 forms, one minted code, 2 ticks | holds |
| `pool` | is every request answered; does a light load ever wait for a timeout | 3 readers, a writer, 2 logins; 2 threads, 2 connections | holds |
| `startup` | what does a start serve, whatever the last process left | all 7 tables, any number of starts and deaths | holds |
| `page` | whose codes does the page show | 2 people, 2 orders, 2 functions at once, 2 logins, 6 actions (3 if somebody does not wait) | holds |

### 3.1 The properties of the passing runs

* `OneCodePerOrder`: two approvals of one order do not give it two codes, because
  the second looks for a code with the lock held.
* `CodeFollowsRelease`: a code is bound to its order and owner, exists for every
  collectable order and for no waiting one.
* `UsedIffCollected`: code and order change in one commit or not at all; also
  where two orders share a minted code.
* `ReleaseAuthorised`: nothing is collected that was neither within the technician's
  own authority nor decided by a supervisor.
* `CollectedInTime`: the recorded time of every collection lies in the lifetime of its
  code, also when the commit comes after the expiry.
* `StockNeverOverCounted`: lost decrements leave the count too high, never below the
  exact one, and the last hand-out is always counted; whoever states an order's facts.
* `AuditAccountsForTables`: every order, decision and collection in the tables has its
  audit row, and every row its log line; in both applications.
* `SingleUse`, `StockExact`, `OrderLifecycle`, `ImplementsDesk`: with one thread,
  also when the shelf count goes below zero.
* `LockReleased`, `EveryRequestAnswered`: the write lock always comes back and every request
  is answered, without a timeout or a failure to help.
* `OnlySignedInAct`, `LoggedOutStaysOut`, `FailedLoginsAudited`, `OwnerSeesCode`:
  sections 1.4 and 2.2; `ImplementsSecureApp`: the door changes nothing behind it.
* `FailedLoginsAudited` in particular: no 401 without a committed row, no row without a
  line, whatever fails in between; a refusal whose commit raises is a 500 with a line and no row.
* `ClientAgreesWithServer`: an untouched form is refused for its own client's signature only if
  it has a null or a value the schema converts.
  `StoredAsSigned`, `ReleasedAsSigned`, `ReleasedHasCode`: what is on the desk, what it
  was released on, and its code follow from what the client signed, through
  approval and collection.  `CollectedBeforeExpiry`: a lifetime that starts at a time
  the client chose still bounds the collection.
* `NoWedge`: with no login and fewer requests under way than threads and
  connections together, or with any logins and fewer other requests than connections,
  something can always go on without a timeout.  `EveryRequestDone`: under any load
  every request ends, because the wait for a connection is bounded.
* `ReseedIsFresh`, `ServesWholeSchema`, `RestartKeepsRows`: section 1.4.
* `OnePersonsCodes`: whatever overlaps, the codes of two people are never on the page
  together.  `SettledShowsOwn`: if users wait for the page to come to rest, each rest
  shows the user of its cookie and only their codes, whatever forms were used and however they
  ended, unless a load, sign-in or sign-out was cut short and no refresh has ended since.

### 3.2 What the violations show

Four sentences of the code do not survive concurrency or failure; each is a
finding in `PROJECT.json` with the line it quotes.

1. "Attach a fresh single-use ... pickup code" (`common.py:109`): two pickups with the
   same code, both past the read of `row.used` before either commits, are both
   answered 200.
2. "decrement exactly once on collection" (`common.py:397`): two pickups of one part
   that both read the stock first write the same kind of difference; one
   decrement is lost.
3. `COLLECTABLE_STATES` (`common.py:61`): an approval and a rejection that both read
   the waiting order both commit.  A pickup that read the order between them hands out the parts of an
   order whose rejection is committed.
4. "Persist and log exactly one audit event" (`audit.py:39`): when the flush or the commit fails
   after the log line, the event was logged and never persisted.

The first three need two threads: `secure_serial` checks that they disappear with one, and
section 4 proves it, for the contrast applications as well.

Observations the properties leave room for, without a run of their own:

* `bodytrusting.py:89` takes an epoch of 0 for an absent one, while the canonical text
  (`signing.py:62`) counts it as present: `StoredAsSigned` excepts it.
* With `KEYJACK_RESEED=0` over a new file, or one whose reseeding start died before its commit,
  the application serves whole but empty tables (`common.py:150-153`); `ReseedIsFresh` and
  `RestartKeepsRows` are what it does promise.
* `signing.py:42` says that client and server "compute identically", and the vulnerable client that
  its text "Must match the server" (`client.js:35`).  They differ for a form the schema accepts: of
  a null optional field `canonicalOrder` writes a line (`!== undefined`, `client.js:46-55`) and the server
  none (`is not None`, `signing.py:56-63`), and of a value that pydantic converts the client signs
  its own spelling.  Such a request is refused, which is the safe side, and the order form of the client
  sends none: `ClientAgreesWithServer` says that these are the only ones.
* A process that dies between `CREATE TABLE pickup_codes` and its `CREATE INDEX`, started again with
  `KEYJACK_RESEED=0`, serves without the index for good: `create_all` looks for tables.
  Nothing but speed depends on it.
* `client.js:49-102` shows the application as soon as `me` has arrived and replaces
  the codes several answers later; until then, or if users do not wait, an
  earlier user's codes may stay.  That is why `SettledShowsOwn` speaks of rest, and of
  users who wait.
* The order form (`client.js:151-165`) and the console (`client.js:167-179`) render the queue
  and never the codes.  After a sign-out and a sign-in that was cut short once `me` had arrived, the former
  user's codes are in the element under the new user's name, and stay there although an
  order form after it ends normally, until a refresh ends or the pickup form is used; the comment
  at `client.js:85` says the element is "for the signed-in owner's approved orders".  That is why
  `SettledShowsOwn` excepts what follows such a cut, and nothing else.
* `db.py:15` speaks of a single connection; a SQLite file gets a pool of them.

### 3.3 Why the bounds are enough

The secure instance has two technicians, of whom one owns the work order, and a
supervisor; a wrench at 10 cents against a limit of 10, so that one piece is exactly
at the limit and two need a supervisor; where two parts are used, also a restricted
one; two of each on the shelf, fewer than two orders can ask for.

Five requests are what the longest story needs on one order: create, approve and
reject, and two pickups.  Two threads are what every race above needs; a third
would have to conflict with both at once, and writers are serialised by the lock.
Two orders let two rows meet in one part's stock.  With `PickupTTL = 1` and
two ticks a code is presented before, at and after its expiry, and a commit comes after the
expiry that was checked.  The liveness run has three requests and one tick: create, and
two handlers that meet at the lock, without symmetry, which is not sound for liveness.
Worker, order and code ids are interchangeable, and symmetry uses that in the
safety runs.

`keyjack_site`: two logins and two tokens give a session that ends while another
of the same or another account is in use; with `SessionTTL = 0` a session is good
in its own tick and expired in the next; three requests create, decide and collect
one order.  `vulnerable_concurrent`: the five forms cover a body without a verdict, with one, with half of
one, with a minted code, and with an epoch of zero; both minted codes are one string, and two
orders may carry it.  With `PickupTTL = 0` a code minted for tick 1 is presented before, in
and after it.  `pool`: two threads and two connections can be filled by the
readers with a request left over, and two logins meet on the event loop; the six
requests include loads on both sides of each bound in `LightLoad`.  `startup` has no bound.
`page`: six actions after the first load let both people sign in, one after the other, with
a sign-out between and forms or reloads after each, while they wait; once somebody does not, three
actions are enough to let every two functions overlap, and a third begin in the middle of what they leave.

### 3.4 Fairness

`FairSpec` adds weak fairness of `Proceed(w)` for each thread: what a thread does by itself
while nothing goes wrong.  The operating system runs every thread, and a thread that waits for
the lock takes it if it stays free.  Requests, the clock, failures, crashes and the busy timeout are not
fair: they may never happen, so nothing is answered only because an exception ended a wait.  The run
has finitely many requests; an endless stream of other writers could keep a thread from the
lock, and in the program the busy timeout then ends its wait.

`PoolFairness` is weak fairness of each request's own steps (threads and the event
loop run) and of `PoolTimeout` (SQLAlchemy's `pool_timeout`).  The queues are not
assumed to be first come, first served; finitely many requests make that
unnecessary.

### 3.5 Mutants

Each property of a passing run has a mutant, an operator defined beside the one it replaces that
changes it the way a plausible bug would: the expiry not looked at, the
role not checked, a code issued without looking for one, an audit row
forgotten, or saved over a session of its own that waits for the handler's lock, a session that
keeps its lock or its connection, an answer that does not wait for its commit, a verdict of "no" taken for no verdict, tables that `drop_all` forgets, a
sign-out without a refresh.  TLC finds the property violated in each.

## 4. The proofs

Every theorem holds for every value of the constants: any number of threads,
orders, codes, tokens, accounts, parts, requests, connections.

| Theorem | Property |
|---|---|
| `SecureAppProofs!SpecConsistent` | `Spec => []Consistent` |
| `SpecTypeOK`, `SpecOneCodePerOrder`, `SpecCodeFollowsRelease`, `SpecUsedIffCollected`, `SpecReleaseAuthorised`, `SpecCollectedInTime` | the invariants they name |
| `SpecAuditAccountsForTables` | `AuditAccountsForTables` |
| `SpecStockOK`, `SpecStockNeverOverCounted` | `StockOK`, `StockNeverOverCounted` |
| `SerialProofs!SerialSpec` | one thread: `Spec => [](Consistent /\ Serial)` |
| `SerialSingleUse`, `SerialOrderLifecycle`, `SerialStockExact`, `SerialImplementsDesk` | one thread: `SingleUse`, `OrderLifecycle`, `StockExact`, `ImplementsDesk` |
| `KeyjackProofs!SiteSpecConsistent`, `SiteSpecTypeOK` | `SiteConsistent`, `SiteTypeOK` |
| `SiteImplementsSecureApp` | `SiteSpec => Spec` |
| `SiteImplementsDesk` | one thread: `SiteSpec => ImplementsDesk` |
| `SiteOnlySignedInAct`, `SiteLoggedOutStaysOut`, `SiteFailedLoginsAudited`, `SiteOwnerSeesCode` | the invariants they name |
| `BodyTrustingProofs!SignatureBindsBody` | a body passes exactly under the signatures of texts that state it |
| `BodySpecInvariant` | `BodySpec => [](Sound /\ Bound)` |
| `BodySpecTypeOK`, `BodyClientAgrees`, `BodyStoredAsSigned`, `BodyReleasedAsSigned`, `BodyReleasedHasCode`, `BodyUsedIffCollected`, `BodyCollectedBeforeExpiry`, `BodyOneCodePerOrder` | `BodyTypeOK`, `ClientAgreesWithServer`, and the invariants they name |
| `BodyAuditAccountsForTables`, `BodyStockNeverOverCounted` | `AuditAccountsForTables`, `StockNeverOverCounted` of `BodySpec` |
| `BodySerialSingleUse`, `BodySerialOrderLifecycle`, `BodySerialStockExact`, `BodySerialImplementsDesk` | one thread: `SingleUse`, `OrderLifecycle`, `StockExact`, `ImplementsSignedDesk` of `BodySpec` |
| `ClientPageProofs!PageAnswered`, `PageSettles` | `PageSpec => []Answered`, `PageSpec => []Settles` |
| `PageTypes`, `PageOnePersonsCodes`, `PageSettledShowsOwn` | `PageTypeOK`, `OnePersonsCodes`, `SettledShowsOwn` |
| `RequestPoolProofs!PoolSpecOK`, `PoolSpecTypeOK`, `PoolSpecNoWedge` | `PoolOK`, `PoolTypeOK`, `NoWedge` |
| `StartupProofs!StartupSpecInvariant` | `StartupSpec => []StartupInv` |
| `StartupSpecTypeOK`, `StartupReseedIsFresh`, `StartupServesWholeSchema`, `StartupRestartKeepsRows` | the invariants they name |

Assumptions: those the modules state on their constants (`AccountsAssumption`,
`TablesAssumption`, `CatalogAssumption`, `FormsAssumption`, `SessionsAssumption`,
`PoolAssumption`, `PageAssumption`).  They
give the constants their types and keep `None` and `Fresh` apart from values; `FormsAssumption`
says what the schema of a signed body lets through, nulls and converted values included; TLC evaluates them
in the runs.  The theorems marked "one thread" assume `SingleThread`.

**Concurrent requests.**  The properties are about the tables and none is inductive: a thread that is about to
commit may have read anything.  `Consistent` adds what such a thread still
knows.  `TaskOK` says that what it remembers cannot have been made wrong by
another thread's commit: rows are never deleted (so the row it read is there), a code's order,
owner and lifetime never change, a supervisor stays one, and whether an
approval brings a code (`IssueOK`) was read under the lock, so no
other thread has issued one since.  `LockOK` says that exactly the holder of the lock is
between flush and commit; without it `IssueOK` would not survive another
thread's `CommitApprove`.  `TablesOK` adds that every order with a code is authorised
(`Authorised`), which is what makes a stale pickup harmless for
`ReleaseAuthorised`: it may write a second time, never a first time without authority.  What a
stale thread does not know, that the code is still unused or the stock still the same, is not in
the invariant, and is what the violated runs break.

The proof has one lemma per action.  `StageStep`, `PendingStep`, `QuietStep`, and the
lemmas about the record sets carry what the actions have in common.

**Both applications at once.**  The audit trail, the shelf and the one-thread argument do not depend
on who states an order's facts.  `WorkflowInvariants` says what they do depend on, `Known`: rows that
are remembered are there, a draft is untouched.  `Consistent` implies it (`ConsistentKnown`), and so does
the `Sound` of the contrast applications (`SoundKnown`).  `WorkflowProofs` takes it from there, for
`Accounted`, `StockOK` and, with one thread, `Serial` and `StockExact`: one lemma for the requests of
`register_workflow` (`RequestAccounted`, `RequestStock`, `RequestSerial`), one for what `create_order`
does once it has a draft (`StageAccounted`, `StageStock`, `StageSerial`), one for everything after the
request (`StepAccounted`, `StepStock`, `StepSerial`, `StepExact`).  Each application only puts them together.

**The audit trail.**  That no row lacks its line is not inductive: a commit adds a row, and
nothing says that its line is out.  `LinesOK` counts, for each kind of event, the threads whose
line is out and whose row is not yet there (`Pending`): rows and pending threads together are no
more than the lines.  A log line adds a thread, a commit turns one into a row, a rollback or a
crash only takes some away.  An approval logs with the lock held, the other handlers before they ask for
it, which is why `LineOut` treats it apart.  `RowsOK` states the counts of the
tables: two approvals of one order add two rows and at most one decided order, so decisions and
collections are bounded by their rows and only creations are equal to them; that an
order starts undecided and uncollected comes from `Known`.

**One request at a time.**  `Serial` adds exactly what a stale thread does not know:
the order a pickup or a decision read is still in the state it read, the stock it
will write is the present one less the quantity, and `handed` is 1 for the
collected orders and 0 for the others.  It is inductive because no other thread commits between a
read and its commit: every commit leaves the only thread idle.  A step of a thread that is current is
a `Turn` (it places an order, decides on a waiting one, or hands a released one out) or leaves `orders` and
`stock` alone (`CommitCreateSerial`, `DecisionSerial`, `CommitCollectSerial`, `StepSerial`); the life cycle
follows from that.  Each kind of `Turn` is one step of `PartsDesk` (`PlaceDesk`, `DecideDesk`,
`HandOutDesk`).  Only the first needs the application: `Routed` says that a draft is an item of the
desk and released at once exactly if it may be, which no other thread can change, so it holds of any
number of them (`SpecRouted`).  Behind the door the same desk stands: `SiteImplementsDesk` is
`SiteImplementsSecureApp` and `SerialImplementsDesk`.

**A desk that takes its clients' word.**  `BodyRefinement` maps the contrast applications to the
same `PartsDesk`, whose items are now the signed bodies (`SignedItems`); those that need nobody's
approval are the ones whose verdict, or whose facts, say so (`ReleasedItems`).  `DraftsTrusted` takes the
place of `Routed`.  So the contrast applications differ from the secure one in what is ordered and who
decides that it may be, and in nothing that `PartsDesk` sees of it afterwards (who presents the
code is not the desk's business).  `ImplementsSignedDesk` is proved; TLC
agreed on the instance of `vulnerable_concurrent` with one thread, which is not kept as a run.

**The door.**  `SiteStepIsStep` shows that each step of `KeyjackApp` is a step of `SecureApp` or
leaves its variables alone, so `Consistent` comes for free.  `SignedIn` follows an account from the
password to the session, to the request's actor, to the unit of work, to the row: each can only be
copied from the one before.  `LoginsOK` counts the refusal under way twice: until its commit a line is
ahead of the rows (the commit may never come), and until the 401 a row is ahead of the answers; `DetailOK` says that an owner's
half-answered request is about an order that has a code, which no commit takes away (`Kept`).

**The pool.**  `HoldOK` says which stages hold a connection.  `NoWedge` is a counting argument: if
nothing can go on (`Stuck`), every request under way holds a thread while it waits, or
a connection; the waiting ones exhaust the connections and the held ones the threads, so there are at
least as many as both.

**The shelf.**  `HandedOut(p)` is a sum over the orders of a part, and the library's folds come
without usable induction.  `WorkflowProofs` proves the laws it needs itself (`SumType`, `SumTake`, `SumSame`,
`SumZero`): `SumIsChosen` gives the sum as the fold's chosen function, `SumExists` and `SumUnique` show, by induction over
cardinalities (`SetInduction`, which takes a set where the library's theorem takes a predicate, from the
well-founded order on `Nat`), that there is one table of partial sums.
`StockNeverOverCounted` is not inductive: the count a pickup will write was read before
others committed.  `ShelfOK` says of that count that it leaves out at least the pickup's own order
(hence a last hand-out is always counted), and that it leaves out no more than what was handed out
so far and the order itself.  Both stay true while others hand out more, because the sum only grows (`ShelfGrows`).  With
one thread the count that was read is the present one (`Serial`), and each commit keeps the
equation `StockExact`.

**Signed bodies.**  `SignatureBindsBody` compares two texts by the set of their lines: each begins with its field's
name, so the sets are equal only if the same fields are there with the same values (`TextIsOrder`).  A client's text
is the server's text of the order it states (`ClientStates`), where a null field has a value of its own.  So the body
that is let through is what the signed text says, and a form without nulls and converted values is
let through (`UntouchedPasses`), as its body is then what it states.
`Sound` is what remains of `Consistent` when the facts of an order are its
client's: no role of `Authorised`, no owner of a code, but the same reasoning about the lock and about rows that
are never deleted.  A minted code may be in two rows, so a pickup is followed by the row it
read.  `Bound` ties an order to its body at each stage: the draft of a thread
that passed the check (`DraftSigned`), the row (`TablesSigned`), the pickup that read a released
order while a supervisor rejects it (`PickupEntitled`).  Its steps rest on `Follows`: what an order was
placed with never changes, and a supervisor's decision is never forgotten.

**The page.**  `Answered` says of each request under way that the codes it has collected are those of
the person of the cookie it was sent with, who never changes; `pickups` is replaced by
one request's codes at a time, so what overlaps does not matter.  `SettledShowsOwn` needs
`Orderly`: while users wait at most one function runs, its cookie is the browser's, and what refresh
has learnt of its user is still so (`InStep`).  A form runs over a page that the last refresh left
with its user's codes (`Alone`), and keeps it so: it changes no cookie and no `me`, and the codes it renders, if
any, are of that cookie.  A load, sign-in or sign-out that does not get that far is remembered by `cut`.

**Startup.**  Every start begins at an arbitrary file: what a death left.  `StartupInv` says, phase by
phase, what is already certain: only a reseeding start drops or seeds, after the drops every row and the index is
gone, what it creates is empty and indexed in the next statement, both the fixtures and the serving wait for all the tables, and until a
request writes the file holds what was left in it, or the fixtures.

Only model-checked: liveness, which is out of the prover's reach (`LockReleased`,
`EveryRequestAnswered`, `EveryRequestDone`).  Every other property of a passing
run is a theorem.

## 5. Not modelled

* Attack demonstration tooling, pages, styles, packaging: no state of the system.
* Password hashing, the digest credential of the vulnerable application, HMAC:
  external functions, of which only the outcome is modelled.
* Of the clients: elements without codes (what the order form and the console render), who is a
  supervisor, and the minified client.
* Of the schemas, the responses: they copy columns.  Of the audit trail, actor, route
  and correlation id.
* The in-memory or other databases that `KEYJACK_DB_URL` could name: the model is
  of the default, a SQLite file and one process.
* Power loss: SQLite's journal is taken to work.

## 6. The plan

Done: every component of section 1.1 that keeps state is modelled, and every
property of a passing run but the three of liveness is a theorem.  Left: a
composition of `RequestPool` with the write lock, in which a writer waits for both.
