---------------------------- MODULE StartupProofs ---------------------------
(***************************************************************************)
(* Proofs about starting over whatever a dying process left in the file,   *)
(* for any number of starts and deaths and any settings: what is served    *)
(* after a reseeding start, and after one that keeps the rows.             *)
(***************************************************************************)
EXTENDS Startup, TLAPS

Empty == [t \in Table |-> "empty"]

(***************************************************************************)
(* The inductive invariant, phase by phase.  Only a reseeding start drops  *)
(* and seeds; what it creates, and seeds, is empty; it creates every table *)
(* itself, so none of them is there without its index but the one it is    *)
(* about to index; and as long as no request or seed has written, the file *)
(* holds what was left in it.                                              *)
(***************************************************************************)
StartupInv ==
  /\ StartupTypeOK
  /\ phase \in {"seed", "serve"} => exists = Table
  /\ phase = "index" => Indexed \in exists
  /\ phase \in {"create", "seed", "serve"} /\ reseed => (Indexed \in exists => index)
  /\ phase \in {"drop", "seed"} => reseed
  /\ phase \in {"drop", "create", "index", "seed"} => ~served
  /\ phase \in {"create", "index", "seed"} /\ reseed => rows = Empty
  /\ phase = "serve" /\ reseed /\ ~served => rows = Fresh
  /\ phase # "serve" \/ (~reseed /\ ~served) => rows = left
-----------------------------------------------------------------------------
LEMMA InitStartup == StartupInit => StartupInv
BY DEF StartupInit, StartupInv, StartupTypeOK, Content, Phase

LEMMA StartStartup ==
  ASSUME StartupInv, Start
  PROVE  StartupInv'
<1>1. PICK raw \in Setting : /\ reseed' = Flag(raw, TRUE)
                             /\ phase' = IF Flag(raw, TRUE) THEN "drop" ELSE "create"
  BY DEF Start
<1>2. Flag(raw, TRUE) \in BOOLEAN
  <2>1. CASE raw = "unset" \/ raw \in {"1", "true", "yes", "on"}
    <3>1. Flag(raw, TRUE) = TRUE
      BY <2>1, Zenon DEF Flag
    <3> QED
      BY <3>1
  <2>2. CASE raw # "unset" /\ raw \notin {"1", "true", "yes", "on"}
    <3>1. Flag(raw, TRUE) = (raw \in {"1", "true", "yes", "on"})
      BY <2>2, Zenon DEF Flag
    <3>2. (raw \in {"1", "true", "yes", "on"}) = FALSE
      BY <2>2
    <3>3. Flag(raw, TRUE) = FALSE
      BY <3>1, <3>2, Zenon
    <3> QED
      BY <3>3
  <2> QED
    BY <2>1, <2>2
<1>3. phase = "down" /\ served' = FALSE /\ UNCHANGED <<exists, index, rows, left>>
  BY DEF Start
<1> QED
  BY <1>1, <1>2, <1>3 DEF StartupInv, StartupTypeOK, Phase

LEMMA DropTableStartup ==
  ASSUME StartupInv, DropTable
  PROVE  StartupInv'
<1> USE DEF StartupInv, StartupTypeOK
<1>1. phase = "drop" /\ UNCHANGED <<reseed, served>>
  BY DEF DropTable
<1>2. ASSUME NEW t \in exists,
             exists' = exists \ {t}, index' = (index /\ t # Indexed),
             rows' = [rows EXCEPT ![t] = "empty"],
             left' = [left EXCEPT ![t] = "empty"], UNCHANGED phase
      PROVE  StartupInv'
  <2>1. \A u \in Table \ exists' : rows'[u] = "empty"
    BY <1>2
  <2>2. rows' \in [Table -> Content] /\ left' \in [Table -> Content] /\ rows' = left'
    BY <1>1, <1>2 DEF Content
  <2> QED
    BY <1>1, <1>2, <2>1, <2>2
<1>3. ASSUME exists = {}, phase' = "create", UNCHANGED <<exists, index, rows, left>>
      PROVE  StartupInv'
  <2>1. rows = Empty
    BY <1>3 DEF Empty
  <2> QED
    BY <1>1, <1>3, <2>1 DEF Phase, Empty
<1> QED
  BY <1>2, <1>3 DEF DropTable

LEMMA CreateTableStartup ==
  ASSUME StartupInv, CreateTable
  PROVE  StartupInv'
<1>1. phase = "create" /\ UNCHANGED <<index, rows, reseed, served, left>>
  BY DEF CreateTable
<1>2. ASSUME NEW t \in Table \ exists, exists' = exists \cup {t},
             phase' = IF t = Indexed THEN "index" ELSE "create"
      PROVE  StartupInv'
  BY <1>1, <1>2 DEF StartupInv, StartupTypeOK, Phase, Empty
<1>3. ASSUME exists = Table, phase' = IF reseed THEN "seed" ELSE "serve", UNCHANGED exists
      PROVE  StartupInv'
  BY <1>1, <1>3 DEF StartupInv, StartupTypeOK, Phase, Empty
<1> QED
  BY <1>2, <1>3 DEF CreateTable

LEMMA CreateIndexStartup ==
  ASSUME StartupInv, CreateIndex
  PROVE  StartupInv'
BY DEF CreateIndex, StartupInv, StartupTypeOK, Phase

LEMMA SeedStartup ==
  ASSUME StartupInv, Seed
  PROVE  StartupInv'
<1>1. rows' = Fresh
  BY DEF Seed, StartupInv, Empty, Fresh
<1>2. Fresh \in [Table -> Content]
  BY DEF Fresh, Content
<1> QED
  BY <1>1, <1>2 DEF Seed, StartupInv, StartupTypeOK, Phase

LEMMA ServeStartup ==
  ASSUME StartupInv, Serve
  PROVE  StartupInv'
<1>1. rows' \in [Table -> Content]
  BY DEF Serve, StartupInv, StartupTypeOK, Content
<1> QED
  BY <1>1 DEF Serve, StartupInv, StartupTypeOK

LEMMA DieStartup ==
  ASSUME StartupInv, Die
  PROVE  StartupInv'
BY DEF Die, StartupInv, StartupTypeOK, Phase

LEMMA NextStartup ==
  ASSUME StartupInv, [StartupNext]_vars
  PROVE  StartupInv'
<1>1. CASE UNCHANGED vars
  BY <1>1 DEF vars, StartupInv, StartupTypeOK
<1> QED
  BY <1>1, StartStartup, DropTableStartup, CreateTableStartup, CreateIndexStartup,
     SeedStartup, ServeStartup, DieStartup DEF StartupNext, StartupStep

\* The invariant the others follow from: what the file holds in each phase of a
\* start, whatever the processes before it left.
THEOREM StartupSpecInvariant == StartupSpec => []StartupInv
<1>1. StartupInv /\ [StartupNext]_vars => StartupInv'
  BY NextStartup
<1> QED
  BY <1>1, InitStartup, PTL DEF StartupSpec

\* The file and the process keep their types; a table that is not there has no
\* rows.
THEOREM StartupSpecTypeOK == StartupSpec => []StartupTypeOK
<1>1. StartupInv => StartupTypeOK
  BY DEF StartupInv
<1> QED
  BY <1>1, StartupSpecInvariant, PTL

\* After a reseeding start, however many starts died before it and between which
\* two statements, the desk opens with the fixtures and nothing else.
THEOREM StartupReseedIsFresh == StartupSpec => []ReseedIsFresh
<1>1. StartupInv => ReseedIsFresh
  BY DEF StartupInv, ReseedIsFresh
<1> QED
  BY <1>1, StartupSpecInvariant, PTL

\* No request is ever served over a missing table, nor after a reseeding start
\* over one without its index.
THEOREM StartupServesWholeSchema == StartupSpec => []ServesWholeSchema
<1>1. StartupInv => ServesWholeSchema
  BY DEF StartupInv, ServesWholeSchema, Indexed, Table, References
<1> QED
  BY <1>1, StartupSpecInvariant, PTL

\* A start without reseeding finds what the last process that served left, less
\* what a reseeding start has dropped since, however many starts died in between.
THEOREM StartupRestartKeepsRows == StartupSpec => []RestartKeepsRows
<1>1. StartupInv => RestartKeepsRows
  BY DEF StartupInv, RestartKeepsRows
<1> QED
  BY <1>1, StartupSpecInvariant, PTL
=============================================================================
