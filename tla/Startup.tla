------------------------------ MODULE Startup -------------------------------
(***************************************************************************)
(* Starting, serving and dying: build_app over a database file that keeps  *)
(* what earlier processes left in it.  pysqlite commits each DROP, CREATE  *)
(* TABLE and CREATE INDEX by itself; the seed is one transaction.  The     *)
(* process may die between any two steps, and each start chooses           *)
(* KEYJACK_RESEED anew.                                                    *)
(***************************************************************************)
EXTENDS Naturals

\* The tables of models.py, each with those its foreign keys name.
References ==
  [accounts |-> {}, parts |-> {}, audit_events |-> {},
   work_orders |-> {"accounts"}, sessions |-> {"accounts"},
   orders |-> {"accounts", "parts", "work_orders"},
   pickup_codes |-> {"accounts", "orders"}]

Table == DOMAIN References

\* The one table with an index beside its key: PickupCode.code.
Indexed == "pickup_codes"

\* The tables seed fills.
Seeded == {"accounts", "parts", "work_orders"}

\* What a table holds: nothing, the seed, or rows requests wrote.
Content == {"empty", "seed", "used"}

Fresh == [t \in Table |-> IF t \in Seeded THEN "seed" ELSE "empty"]

VARIABLES
  exists,  \* tables in the file
  index,   \* whether the index of Indexed is in the file
  rows,    \* Table -> Content; "empty" for those that do not exist
  phase,   \* how far the process is: down, drop, create, index, seed, serve
  reseed,  \* settings.reseed_on_startup of this process
  served,  \* whether this process wrote anything for a request
  left     \* history: what the last process that served left, less what was dropped

vars == <<exists, index, rows, phase, reseed, served, left>>

Phase == {"down", "drop", "create", "index", "seed", "serve"}

StartupTypeOK ==
  /\ exists \subseteq Table
  /\ index \in BOOLEAN
  /\ index => Indexed \in exists
  /\ rows \in [Table -> Content]
  /\ \A t \in Table \ exists : rows[t] = "empty"
  /\ phase \in Phase
  /\ reseed \in BOOLEAN
  /\ served \in BOOLEAN
  /\ left \in [Table -> Content]
-----------------------------------------------------------------------------
\* require_optin: the contrast applications need the acknowledgement, before
\* anything else.
MayStart(secure, acknowledged) == secure \/ acknowledged

\* What KEYJACK_RESEED may hold, and _flag's reading of it: on unless it is set
\* to something that is not a yes.
Setting == {"unset", "1", "yes", "0", "never"}

Flag(raw, default) == IF raw = "unset" THEN default ELSE raw \in {"1", "true", "yes", "on"}

\* Mutant: the fixtures are seeded without making the tables.
StartSeedsAtOnce ==
  /\ phase = "down"
  /\ \E secure, acknowledged \in BOOLEAN, raw \in Setting :
       /\ MayStart(secure, acknowledged)
       /\ reseed' = Flag(raw, TRUE)
       /\ phase' = IF Flag(raw, TRUE) THEN "seed" ELSE "create"
  /\ served' = FALSE
  /\ UNCHANGED <<exists, index, rows, left>>

(* The process starts.                                                      *)
Start ==
  /\ phase = "down"
  /\ \E secure, acknowledged \in BOOLEAN, raw \in Setting :
       /\ MayStart(secure, acknowledged)
       /\ reseed' = Flag(raw, TRUE)
       /\ phase' = IF Flag(raw, TRUE) THEN "drop" ELSE "create"
  /\ served' = FALSE
  /\ UNCHANGED <<exists, index, rows, left>>

\* Mutant: drop_all forgets the tables no other table refers to.
DropTableReferenced ==
  /\ phase = "drop"
  /\ \/ \E t \in exists :
          /\ \A u \in exists : t \notin References[u]
          /\ References[t] # {}
          /\ exists' = exists \ {t}
          /\ index' = (index /\ t # Indexed)
          /\ rows' = [rows EXCEPT ![t] = "empty"]
          /\ left' = [left EXCEPT ![t] = "empty"]
          /\ UNCHANGED phase
     \/ /\ \A t \in exists : References[t] = {}
        /\ phase' = "create"
        /\ UNCHANGED <<exists, index, rows, left>>
  /\ UNCHANGED <<reseed, served>>

(* drop_all: each table after those that refer to it, its index with it.    *)
DropTable ==
  /\ phase = "drop"
  /\ \/ \E t \in exists :
          /\ \A u \in exists : t \notin References[u]
          /\ exists' = exists \ {t}
          /\ index' = (index /\ t # Indexed)
          /\ rows' = [rows EXCEPT ![t] = "empty"]
          /\ left' = [left EXCEPT ![t] = "empty"]
          /\ UNCHANGED phase
     \/ /\ exists = {}
        /\ phase' = "create"
        /\ UNCHANGED <<exists, index, rows, left>>
  /\ UNCHANGED <<reseed, served>>

\* Mutants: create_all is content with any table; or empties the tables it
\* finds.
CreateTableAny ==
  /\ phase = "create"
  /\ exists' = IF exists = {} THEN Table ELSE exists
  /\ index' = (index \/ exists = {})
  /\ phase' = IF reseed THEN "seed" ELSE "serve"
  /\ UNCHANGED <<rows, reseed, served, left>>

CreateTableAnew ==
  /\ phase = "create"
  /\ exists' = Table
  /\ index' = TRUE
  /\ rows' = [t \in Table |-> "empty"]
  /\ phase' = IF reseed THEN "seed" ELSE "serve"
  /\ UNCHANGED <<reseed, served, left>>

(* create_all: the tables that are missing, each after those it refers to.  *)
CreateTable ==
  /\ phase = "create"
  /\ \/ \E t \in Table \ exists :
          /\ References[t] \subseteq exists
          /\ exists' = exists \cup {t}
          /\ phase' = IF t = Indexed THEN "index" ELSE "create"
     \/ /\ exists = Table
        /\ phase' = IF reseed THEN "seed" ELSE "serve"
        /\ UNCHANGED exists
  /\ UNCHANGED <<index, rows, reseed, served, left>>

(* The index of a table that was just created; one that was found does not  *)
(* get it.                                                                  *)
CreateIndex ==
  /\ phase = "index"
  /\ index' = TRUE
  /\ phase' = "create"
  /\ UNCHANGED <<exists, rows, reseed, served, left>>

(* seed: accounts, parts and work orders in one commit.                     *)
Seed ==
  /\ phase = "seed"
  /\ rows' = [t \in Table |-> IF t \in Seeded THEN "seed" ELSE rows[t]]
  /\ phase' = "serve"
  /\ UNCHANGED <<exists, index, reseed, served, left>>

\* Requests write sessions and orders, codes, stock and audit rows; all but the
\* audit rows of refusals need the seeded rows.
Serve ==
  /\ phase = "serve"
  /\ \E t \in Table \ {"accounts", "work_orders"} :
       /\ t = "audit_events" \/ \A s \in Seeded : rows[s] # "empty"
       /\ rows' = [rows EXCEPT ![t] = "used"]
  /\ served' = TRUE
  /\ UNCHANGED <<exists, index, phase, reseed, left>>

(* The process dies.  Uncommitted rows vanish, the rest stays in the file.  *)
Die ==
  /\ phase # "down"
  /\ phase' = "down"
  /\ left' = IF phase = "serve" THEN rows ELSE left
  /\ UNCHANGED <<exists, index, rows, reseed, served>>

StartupInit ==
  /\ exists = {}
  /\ index = FALSE
  /\ rows = [t \in Table |-> "empty"]
  /\ phase = "down"
  /\ reseed = FALSE
  /\ served = FALSE
  /\ left = [t \in Table |-> "empty"]

StartupStep == DropTable \/ CreateTable \/ CreateIndex \/ Seed

StartupNext == Start \/ StartupStep \/ Serve \/ Die

StartupSpec == StartupInit /\ [][StartupNext]_vars
-----------------------------------------------------------------------------
\* A reseeding start serves exactly the fixtures and nothing else, whatever an
\* earlier process left: also one that died between two tables or before the
\* seed was committed (reset_and_seed).
ReseedIsFresh ==
  phase = "serve" /\ reseed /\ ~served => rows = Fresh

\* No request meets a missing table, whichever tables a dying process left; and
\* after a reseeding start none meets a table without its index.  A start that
\* does not reseed promises no more than the tables: a process that died between
\* a table and its index has left one that create_all never indexes.
ServesWholeSchema == phase = "serve" => exists = Table /\ (reseed => index)

\* A start without reseeding serves what the last serving process had committed,
\* all of it that no reseeding start has dropped since (create_all leaves the
\* tables it finds alone).
RestartKeepsRows == phase = "serve" /\ ~reseed /\ ~served => rows = left
=============================================================================
