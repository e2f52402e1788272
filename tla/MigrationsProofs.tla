-------------------------- MODULE MigrationsProofs --------------------------
(***************************************************************************)
(* The safety of Migrations for any number of processes and any catalog.   *)
(* IInv is inductive: a step of one process is seen by another only        *)
(* through rows, schema and lock, and all three are written under the lock.*)
(***************************************************************************)
EXTENDS Migrations, TLAPS

\* What the provers need to know of a catalog.
LEMMA CatalogFacts ==
    /\ Len(Catalog) \in Nat
    /\ \A v \in Versions : Len(Catalog[v]) \in Nat \ {0}
    /\ \A v \in Versions, k \in Nat : k \in 1 .. Len(Catalog[v]) => <<v, k>> \in Statements
  <1>1. Len(Catalog) \in Nat
    BY CatalogAssumption
  <1>2. ASSUME NEW v \in Versions PROVE Len(Catalog[v]) \in Nat \ {0}
    <2>1. Catalog[v] \in Seq(Kinds) \ {<<>>}
      BY CatalogAssumption DEF Versions
    <2> QED
      BY <2>1
  <1>3. ASSUME NEW v \in Versions, NEW k \in 1 .. Len(Catalog[v]) PROVE <<v, k>> \in Statements
    <2>1. <<v, k>> \in {v} \X (1 .. Len(Catalog[v]))
      OBVIOUS
    <2> QED
      BY <2>1 DEF Statements
  <1> QED
    BY <1>1, <1>2, <1>3

\* A build's metadata is never the absence of a row.
LEMMA MetadataFacts ==
    \A b \in Builds, v \in Versions : Metadata(b, v) \in {"released", "edited"} /\ Metadata(b, v) # None
  BY CatalogAssumption DEF Metadata

LEMMA BuildFacts ==
    \A b \in Builds : b.latest \in Versions
  BY DEF Builds

ProcType == [pc : Steps, build : Builds \cup {None}, seen : SUBSET Versions, v : 0 .. Len(Catalog) + 1, k : Nat]

LEMMA StoppedType == Stopped \in ProcType
  BY CatalogFacts DEF Stopped, ProcType, Steps

\* The empty database, and processes that have not started.
LEMMA InitIInv == Init => IInv
  <1> SUFFICES ASSUME Init PROVE IInv
    OBVIOUS
  <1>1. proc \in [Procs -> ProcType]
    BY StoppedType DEF Init
  <1>2. TypeOK
    BY Zenon, <1>1 DEF Init, TypeOK, ProcType
  <1>3. RecordedMeansApplied
    BY DEF Init, RecordedMeansApplied, Recorded
  <1>4. ASSUME NEW p \in Procs PROVE proc[p].pc = "stopped" /\ proc[p] = Stopped
    BY DEF Init, Stopped
  <1>5. LookIsFresh /\ \A p \in Procs : Progress(p)
    BY <1>4 DEF LookIsFresh, Progress, Inside, Busy
  <1> QED
    BY <1>2, <1>3, <1>5 DEF IInv

\* A row that is there stays as it is.
RowsKept == \A v \in Versions : rows[v] # None => rows'[v] = rows[v]

\* What a step of p leaves of the invariant to another process q.
LEMMA Others ==
    ASSUME IInv, RowsKept, NEW p \in Procs, NEW q \in Procs \ {p}, proc'[q] = proc[q],
           (rows' = rows /\ schema' = schema) \/ lock = p, lock = q => lock' = q
    PROVE  Progress(q)' /\ (proc[q].pc = "alter" => <<proc[q].v, proc[q].k>> \notin schema')
  <1>1. Progress(q) /\ (proc[q].pc = "alter" => <<proc[q].v, proc[q].k>> \notin schema)
    BY DEF IInv, LookIsFresh
  <1>2. CASE rows' = rows /\ schema' = schema
    BY <1>1, <1>2 DEF Progress, Inside, Busy
  <1>3. CASE lock = p
    <2>1. ~Inside(q)
      BY <1>1, <1>3 DEF Progress
    <2>2. proc[q].pc = "serving" => \A u \in 1 .. proc[q].build.latest : rows'[u] = Metadata(proc[q].build, u)
      <3> SUFFICES ASSUME proc[q].pc = "serving", NEW u \in 1 .. proc[q].build.latest
                   PROVE rows'[u] = Metadata(proc[q].build, u)
        OBVIOUS
      <3>1. proc[q].build \in Builds /\ rows[u] = Metadata(proc[q].build, u)
        BY <1>1 DEF Progress
      <3>2. u \in Versions
        BY <3>1, BuildFacts, CatalogFacts DEF Versions
      <3> QED
        BY <3>1, <3>2, MetadataFacts DEF RowsKept
    <2> QED
      BY <1>1, <2>1, <2>2 DEF Progress, Inside, Busy
  <1> QED
    BY <1>2, <1>3

\* A step of p, put together: what is left to show of it is about p alone.
LEMMA Together ==
    ASSUME IInv, RowsKept, NEW p \in Procs, NEW new \in ProcType, proc' = [proc EXCEPT ![p] = new],
           (rows' = rows /\ schema' = schema) \/ lock = p, \A q \in Procs \ {p} : lock = q => lock' = q,
           rows' \in [Versions -> {"released", "edited", None}], schema' \subseteq Statements, dup' \in BOOLEAN,
           lock' \in Procs \cup {None},
           RecordedMeansApplied', Progress(p)',
           new.pc = "alter" => <<new.v, new.k>> \notin schema'
    PROVE  IInv'
  <1>0. proc \in [Procs -> ProcType]
    BY DEF IInv, TypeOK, ProcType
  <1>1. proc' \in [Procs -> ProcType] /\ proc'[p] = new
    BY <1>0
  <1>2. TypeOK'
    BY <1>1 DEF TypeOK, ProcType
  <1>3. \A q \in Procs \ {p} : proc'[q] = proc[q]
    BY <1>0
  <1>4. \A q \in Procs \ {p} : Progress(q)' /\ (proc[q].pc = "alter" => <<proc[q].v, proc[q].k>> \notin schema')
    BY <1>3, Others
  <1>5. LookIsFresh'
    BY <1>1, <1>3, <1>4 DEF LookIsFresh
  <1>6. \A q \in Procs : Progress(q)'
    BY Zenon, <1>4
  <1> QED
    BY <1>2, <1>5, <1>6 DEF IInv

\* Where p is, as the record of p says it.
LEMMA Mine ==
    ASSUME IInv, NEW p \in Procs
    PROVE  /\ proc \in [Procs -> ProcType] /\ proc[p] \in ProcType
           /\ Progress(p) /\ RecordedMeansApplied
           /\ rows \in [Versions -> {"released", "edited", None}] /\ schema \subseteq Statements
           /\ dup \in BOOLEAN /\ lock \in Procs \cup {None}
  BY DEF IInv, TypeOK, ProcType

\* Steps that only move p on, to a place that claims no progress.
LEMMA MoveIInv ==
    ASSUME IInv, NEW p \in Procs, NEW new \in ProcType, proc' = [proc EXCEPT ![p] = new],
           UNCHANGED <<rows, schema, dup>>, \A q \in Procs \ {p} : lock = q => lock' = q,
           lock' \in Procs \cup {None},
           \/ new.pc = "stopped"
           \/ new.pc = "locking" /\ new.build \in Builds
           \/ new.pc \in {"history", "abort"} /\ new.build \in Builds /\ lock' = p
           \/ new.pc = "serving" /\ proc[p].pc = "finish" /\ new.build = proc[p].build
    PROVE  IInv'
  <1>1. RowsKept /\ RecordedMeansApplied'
    BY Mine DEF RowsKept, RecordedMeansApplied, Recorded
  <1>2. proc'[p] = new
    BY Mine
  <1>3. Progress(p)'
    BY Zenon, <1>2, Mine DEF Progress, Inside, Busy
  <1> QED
    BY Zenon, <1>1, <1>3, Mine, Together

\* The steps outside the catalog.
LEMMA OutsideIInv ==
    ASSUME IInv, NEW p \in Procs,
           \/ \E b \in Builds : Start(p, b)
           \/ GetLock(p) \/ LockTimeout(p) \/ StatementFails(p) \/ Release(p) \/ ReleaseFails(p) \/ Abort(p)
           \/ Crash(p)
    PROVE  IInv'
  <1> USE Mine
  <1>1. ASSUME NEW b \in Builds, Start(p, b) PROVE IInv'
    <2> DEFINE new == [Stopped EXCEPT !.pc = "locking", !.build = b]
    <2>1. new \in ProcType /\ new.pc = "locking" /\ new.build = b
      BY Zenon, StoppedType DEF ProcType, Stopped, Steps
    <2> HIDE DEF new
    <2> QED
      BY Zenon, <1>1, <2>1, MoveIInv DEF Start, new
  <1>2. ASSUME GetLock(p) PROVE IInv'
    <2> DEFINE new == [proc[p] EXCEPT !.pc = "history"]
    <2>1. new \in ProcType /\ new.pc = "history" /\ new.build = proc[p].build
      BY Zenon DEF ProcType, Steps
    <2>2. proc' = [proc EXCEPT ![p] = new] /\ proc[p].build \in Builds
      BY Zenon, <1>2 DEF GetLock, Go, Progress
    <2> HIDE DEF new
    <2> QED
      BY Zenon, <1>2, <2>1, <2>2, CatalogAssumption, MoveIInv DEF GetLock
  <1>3. ASSUME LockTimeout(p) \/ Abort(p) \/ Crash(p) PROVE IInv'
    <2>1. Stopped.pc = "stopped"
      BY DEF Stopped
    <2>2. \A q \in Procs \ {p} : lock = q => lock' = q
      BY <1>3, CatalogAssumption DEF LockTimeout, Abort, Crash
    <2> QED
      BY <1>3, <2>1, <2>2, StoppedType, MoveIInv DEF LockTimeout, Abort, Crash, Stop
  <1>4. ASSUME StatementFails(p) PROVE IInv'
    <2> DEFINE new == [proc[p] EXCEPT !.pc = "abort"]
    <2>1. new \in ProcType /\ new.pc = "abort" /\ new.build = proc[p].build
      BY Zenon DEF ProcType, Steps
    <2>2. proc' = [proc EXCEPT ![p] = new] /\ proc[p].build \in Builds /\ lock' = p
      BY Zenon, <1>4 DEF StatementFails, Go, Progress, Inside
    <2> HIDE DEF new
    <2> QED
      BY Zenon, <1>4, <2>1, <2>2, MoveIInv DEF StatementFails
  <1>5. ASSUME Release(p) \/ ReleaseFails(p) PROVE IInv'
    <2> DEFINE new == [proc[p] EXCEPT !.pc = "serving"]
    <2>1. new \in ProcType /\ new.pc = "serving" /\ new.build = proc[p].build
      BY Zenon DEF ProcType, Steps
    <2>2. proc' = [proc EXCEPT ![p] = new] /\ proc[p].pc = "finish"
      BY <1>5 DEF Release, ReleaseFails, Go
    <2>3. \A q \in Procs \ {p} : lock = q => lock' = q
      BY <1>5 DEF Release, ReleaseFails
    <2> HIDE DEF new
    <2> QED
      BY Zenon, <1>5, <2>1, <2>2, <2>3, MoveIInv DEF Release, ReleaseFails
  <1> QED
    BY <1>1, <1>2, <1>3, <1>4, <1>5

\* The history is read and accepted, or the start is given up.
LEMMA ReadHistoryIInv ==
    ASSUME IInv, NEW p \in Procs, ReadHistory(p)
    PROVE  IInv'
  <1> DEFINE b == proc[p].build
             new == [proc[p] EXCEPT !.pc = "next", !.v = 1, !.seen = Recorded]
             bad == [proc[p] EXCEPT !.pc = "abort"]
  <1>1. b \in Builds /\ lock = p /\ b.latest \in Versions
    BY Zenon, Mine, BuildFacts DEF ReadHistory, Progress, Inside
  <1>2. CASE ~Compatible(b)
    <2>1. bad \in ProcType /\ bad.pc = "abort" /\ bad.build = b
      BY Zenon, Mine DEF ProcType, Steps
    <2>2. proc' = [proc EXCEPT ![p] = bad] /\ UNCHANGED <<rows, schema, dup, lock>>
      BY <1>2 DEF ReadHistory, Go
    <2> HIDE DEF bad, b
    <2> QED
      BY Zenon, <1>1, <2>1, <2>2, Mine, MoveIInv
  <1>3. CASE Compatible(b)
    <2>0. 1 \in 0 .. Len(Catalog) + 1 /\ Recorded \in SUBSET Versions
      BY CatalogFacts DEF Recorded
    <2>1. new \in ProcType /\ new.pc = "next" /\ new.build = b /\ new.v = 1 /\ new.seen = Recorded
      BY Zenon, <2>0, Mine DEF ProcType, Steps
    <2>2. proc' = [proc EXCEPT ![p] = new] /\ UNCHANGED <<rows, schema, dup, lock>>
      BY Zenon, <1>3 DEF ReadHistory
    <2>3. RowsKept /\ RecordedMeansApplied'
      BY <2>2, Mine DEF RowsKept, RecordedMeansApplied, Recorded
    <2>4. proc'[p] = new
      BY Zenon, <2>2, Mine
    <2>5. \A u \in Versions : u >= 1 => IF u \in new.seen THEN rows'[u] = Metadata(b, u) ELSE rows'[u] = None
      BY <1>3, <2>1, <2>2 DEF Compatible, Recorded
    <2>6. 1 \in 1 .. b.latest + 1
      BY <1>1, CatalogFacts DEF Versions
    <2> HIDE DEF new, b
    <2>7. Progress(p)'
      BY <1>1, <2>1, <2>2, <2>4, <2>5, <2>6 DEF Progress, Inside, Busy
    <2> QED
      BY Zenon, <1>1, <2>1, <2>2, <2>3, <2>7, Mine, Together
  <1> QED
    BY <1>2, <1>3

\* The loop over the catalog: done, passed over, or begun.
LEMMA NextMigrationIInv ==
    ASSUME IInv, NEW p \in Procs, NextMigration(p)
    PROVE  IInv'
  <1> DEFINE b == proc[p].build
             v == proc[p].v
             new == CASE v > b.latest -> [Stopped EXCEPT !.pc = "finish", !.build = b]
                      [] v <= b.latest /\ v \in proc[p].seen -> [proc[p] EXCEPT !.v = v + 1]
                      [] OTHER -> [proc[p] EXCEPT !.pc = "look", !.k = 1]
  <1>1. /\ proc[p].pc = "next" /\ b \in Builds /\ lock = p /\ b.latest \in Versions
        /\ v \in 1 .. b.latest + 1
        /\ \A u \in 1 .. v - 1 : rows[u] = Metadata(b, u)
        /\ \A u \in Versions : u >= v => IF u \in proc[p].seen THEN rows[u] = Metadata(b, u) ELSE rows[u] = None
    BY Zenon, Mine, BuildFacts DEF NextMigration, Progress, Inside
  <1>2. proc' = [proc EXCEPT ![p] = new] /\ UNCHANGED <<rows, schema, dup, lock>>
    BY DEF NextMigration
  <1>3. RowsKept /\ RecordedMeansApplied'
    BY <1>2, Mine DEF RowsKept, RecordedMeansApplied, Recorded
  <1>4. b.latest \in Nat /\ b.latest <= Len(Catalog) /\ v \in Nat
    BY <1>1, CatalogFacts DEF Versions
  <1>5. CASE v > b.latest
    <2>1. new = [Stopped EXCEPT !.pc = "finish", !.build = b]
      BY <1>4, <1>5
    <2> HIDE DEF new
    <2>2. new \in ProcType /\ new.pc = "finish" /\ new.build = b
      BY Zenon, <1>1, <2>1, StoppedType DEF ProcType, Stopped, Steps
    <2>3. proc'[p] = new
      BY <1>2, Mine
    <2>4. \A u \in 1 .. b.latest : rows'[u] = Metadata(b, u)
      BY <1>1, <1>2, <1>4, <1>5
    <2> HIDE DEF b, v
    <2>5. Progress(p)'
      BY <1>1, <1>2, <2>2, <2>3, <2>4 DEF Progress, Inside, Busy
    <2> QED
      BY Zenon, <1>1, <1>2, <1>3, <2>2, <2>5, Mine, Together
  <1>6. CASE v <= b.latest /\ v \in proc[p].seen
    <2>1. new = [proc[p] EXCEPT !.v = v + 1]
      BY <1>4, <1>6
    <2>2. new \in ProcType /\ new.pc = "next" /\ new.build = b /\ new.v = v + 1 /\ new.seen = proc[p].seen
      BY <1>1, <1>4, <1>6, <2>1, Mine, CatalogFacts DEF ProcType
    <2>3. proc'[p] = new
      BY Zenon, <1>2, Mine
    <2>4. \A u \in 1 .. v : rows'[u] = Metadata(b, u)
      <3>1. v \in Versions
        BY <1>1, <1>4, <1>6, CatalogFacts DEF Versions
      <3>2. rows[v] = Metadata(b, v)
        BY <1>1, <1>4, <1>6, <3>1
      <3> QED
        BY <1>1, <1>2, <1>4, <3>2
    <2> HIDE DEF new, b, v
    <2>5. \A u \in 1 .. (v + 1) - 1 : rows'[u] = Metadata(b, u)
      BY <1>4, <2>4
    <2>6. \A u \in Versions : u >= v + 1 =>
             IF u \in proc[p].seen THEN rows'[u] = Metadata(b, u) ELSE rows'[u] = None
      BY <1>1, <1>2, <1>4, CatalogFacts DEF Versions
    <2>7. v + 1 \in 1 .. b.latest + 1
      BY <1>4, <1>6
    <2>8. Progress(p)'
      BY <1>1, <1>2, <2>2, <2>3, <2>5, <2>6, <2>7 DEF Progress, Inside, Busy
    <2> QED
      BY Zenon, <1>1, <1>2, <1>3, <2>2, <2>8, Mine, Together
  <1>7. CASE v <= b.latest /\ v \notin proc[p].seen
    <2>1. new = [proc[p] EXCEPT !.pc = "look", !.k = 1]
      BY <1>4, <1>7
    <2> HIDE DEF new
    <2>2. /\ new \in ProcType /\ new.pc = "look" /\ new.build = b /\ new.v = v /\ new.seen = proc[p].seen
          /\ new.k = 1
      BY Zenon, <2>1, Mine DEF ProcType, Steps
    <2>3. proc'[p] = new
      BY <1>2, Mine
    <2>4. 1 \in 1 .. Len(Catalog[v])
      BY <1>1, <1>4, <1>7, CatalogFacts DEF Versions
    <2> HIDE DEF b, v
    <2>5. Progress(p)'
      BY <1>1, <1>2, <1>4, <1>7, <2>2, <2>3, <2>4 DEF Progress, Inside, Busy
    <2> QED
      BY Zenon, <1>1, <1>2, <1>3, <2>2, <2>5, Mine, Together
  <1> QED
    BY <1>4, <1>5, <1>6, <1>7

\* Where a process is that runs a statement or records a migration.
LEMMA BusyFacts ==
    ASSUME IInv, NEW p \in Procs, Busy(p)
    PROVE  /\ proc[p].build \in Builds /\ lock = p
           /\ proc[p].v \in Versions /\ proc[p].v <= proc[p].build.latest /\ proc[p].v \notin proc[p].seen
           /\ proc[p].k \in 1 .. Len(Catalog[proc[p].v]) /\ <<proc[p].v, proc[p].k>> \in Statements
           /\ Len(Catalog[proc[p].v]) \in Nat
           /\ rows[proc[p].v] = None
  <1>1. /\ proc[p].build \in Builds /\ lock = p /\ proc[p].v \in 1 .. proc[p].build.latest + 1
        /\ proc[p].v <= proc[p].build.latest /\ proc[p].v \notin proc[p].seen
        /\ proc[p].k \in 1 .. Len(Catalog[proc[p].v])
        /\ \A u \in Versions : u >= proc[p].v =>
              IF u \in proc[p].seen THEN rows[u] = Metadata(proc[p].build, u) ELSE rows[u] = None
    BY Zenon, Mine DEF Progress, Inside, Busy
  <1>2. proc[p].v \in Versions
    BY <1>1, BuildFacts, CatalogFacts DEF Versions
  <1>3. rows[proc[p].v] = None
    BY <1>1, <1>2, CatalogFacts DEF Versions
  <1> QED
    BY <1>1, <1>2, <1>3, CatalogFacts

\* A statement took effect, or its effect was there: p follows on.
LEMMA FollowIInv ==
    ASSUME IInv, NEW p \in Procs, Busy(p), Follow(p), schema' = schema \cup {<<proc[p].v, proc[p].k>>},
           UNCHANGED <<rows, dup, lock>>
    PROVE  IInv'
  <1> DEFINE v == proc[p].v
             k == proc[p].k
             new == IF k = Len(Catalog[v]) THEN [proc[p] EXCEPT !.pc = "record"]
                    ELSE [proc[p] EXCEPT !.pc = "look", !.k = k + 1]
  <1>1. proc' = [proc EXCEPT ![p] = new]
    BY DEF Follow
  <1>2. /\ lock = p /\ schema' \subseteq Statements /\ Len(Catalog[v]) \in Nat /\ k \in 1 .. Len(Catalog[v])
    <2>1. lock = p /\ <<v, k>> \in Statements /\ Len(Catalog[v]) \in Nat /\ k \in 1 .. Len(Catalog[v])
      BY BusyFacts
    <2>2. schema \subseteq Statements /\ schema' = schema \cup {<<v, k>>}
      BY Mine
    <2> HIDE DEF v, k
    <2> QED
      BY <2>1, <2>2
  <1>3. RowsKept /\ RecordedMeansApplied'
    BY Mine DEF RowsKept, RecordedMeansApplied, Recorded
  <1>4. \A j \in 1 .. k : <<v, j>> \in schema'
    <2>1. \A j \in 1 .. k - 1 : <<v, j>> \in schema
      BY Zenon, Mine DEF Progress
    <2>2. schema' = schema \cup {<<v, k>>}
      OBVIOUS
    <2> HIDE DEF v, k
    <2> QED
      BY <1>2, <2>1, <2>2
  <1>5. /\ new \in ProcType /\ new.build = proc[p].build /\ new.v = v /\ new.seen = proc[p].seen
        /\ \/ new.pc = "record" /\ new.k = k /\ k = Len(Catalog[v])
           \/ new.pc = "look" /\ new.k = k + 1 /\ k # Len(Catalog[v])
    <2>1. CASE k = Len(Catalog[v])
      BY Zenon, <2>1, Mine DEF ProcType, Steps
    <2>2. CASE k # Len(Catalog[v])
      <3>1. new = [proc[p] EXCEPT !.pc = "look", !.k = k + 1]
        BY <2>2
      <3>2. k + 1 \in Nat
        BY <1>2
      <3> HIDE DEF new
      <3> QED
        BY Zenon, <2>2, <3>1, <3>2, Mine DEF ProcType, Steps
    <2> QED
      BY <2>1, <2>2
  <1>6. proc'[p] = new
    BY Zenon, <1>1, Mine
  <1>7. /\ new.k \in 1 .. Len(Catalog[v])
        /\ \A j \in 1 .. new.k - 1 : <<v, j>> \in schema'
        /\ new.pc = "record" => new.k = Len(Catalog[v]) /\ <<v, new.k>> \in schema'
    BY <1>2, <1>4, <1>5
  <1> HIDE DEF new, v, k
  <1>8. Progress(p)'
    <2>1. Progress(p)
      BY Mine
    <2> QED
      BY <1>2, <1>5, <1>6, <1>7, <2>1 DEF Progress, Inside, Busy, v, k
  <1> QED
    BY Zenon, <1>1, <1>2, <1>3, <1>5, <1>8, Mine, Together

\* A statement is refused.
LEMMA RefusedIInv ==
    ASSUME IInv, NEW p \in Procs, Busy(p), Go(p, "abort"), UNCHANGED <<rows, schema, dup, lock>>
    PROVE  IInv'
  <1> DEFINE new == [proc[p] EXCEPT !.pc = "abort"]
  <1>1. new \in ProcType /\ new.pc = "abort" /\ new.build = proc[p].build
    BY Mine DEF ProcType, Steps
  <1>2. proc' = [proc EXCEPT ![p] = new] /\ proc[p].build \in Builds /\ lock' = p
    BY Zenon, BusyFacts DEF Go
  <1> HIDE DEF new
  <1> QED
    BY Zenon, <1>1, <1>2, Mine, MoveIInv

\* The two halves of a statement that looks before it alters.
LEMMA LookIInv ==
    ASSUME IInv, NEW p \in Procs, Look(p)
    PROVE  IInv'
  <1> DEFINE s == <<proc[p].v, proc[p].k>>
             new == [proc[p] EXCEPT !.pc = "alter"]
  <1>1. Busy(p) /\ lock = p
    BY BusyFacts DEF Look, Busy
  <1>2. CASE Follow(p) /\ schema' = schema \cup {s}
    BY <1>1, <1>2, FollowIInv DEF Look
  <1>3. CASE Follow(p) /\ s \in schema /\ UNCHANGED schema
    <2>1. schema' = schema \cup {s}
      BY <1>3
    <2> QED
      BY <1>1, <1>3, <2>1, FollowIInv DEF Look
  <1>4. CASE Go(p, "abort") /\ UNCHANGED schema
    BY <1>1, <1>4, RefusedIInv DEF Look
  <1>5. CASE Go(p, "alter") /\ s \notin schema /\ UNCHANGED schema
    <2>1. proc' = [proc EXCEPT ![p] = new] /\ UNCHANGED <<rows, schema, dup, lock>>
      BY <1>5 DEF Look, Go
    <2>2. /\ new \in ProcType /\ new.pc = "alter" /\ new.build = proc[p].build /\ new.v = proc[p].v
          /\ new.seen = proc[p].seen /\ new.k = proc[p].k
      BY Zenon, Mine DEF ProcType, Steps
    <2>3. RowsKept /\ RecordedMeansApplied'
      BY <2>1, Mine DEF RowsKept, RecordedMeansApplied, Recorded
    <2>4. proc'[p] = new
      BY <2>1, Mine
    <2> HIDE DEF new
    <2>5. Progress(p)'
      <3>1. Progress(p)
        BY Mine
      <3> QED
        BY <1>1, <2>1, <2>2, <2>4, <3>1 DEF Progress, Inside, Busy
    <2> QED
      BY Zenon, <1>1, <1>5, <2>1, <2>2, <2>3, <2>5, Mine, Together
  <1> QED
    BY <1>2, <1>3, <1>4, <1>5 DEF Look

LEMMA AlterIInv ==
    ASSUME IInv, NEW p \in Procs, Alter(p)
    PROVE  IInv'
  <1>1. Busy(p)
    BY DEF Alter, Busy
  <1>2. CASE Go(p, "abort") /\ UNCHANGED schema
    BY <1>1, <1>2, RefusedIInv DEF Alter
  <1>3. CASE Follow(p) /\ schema' = schema \cup {<<proc[p].v, proc[p].k>>}
    BY <1>1, <1>3, FollowIInv DEF Alter
  <1> QED
    BY <1>2, <1>3 DEF Alter

\* The row of a migration whose statements are all in place.
LEMMA RecordIInv ==
    ASSUME IInv, NEW p \in Procs, Record(p)
    PROVE  IInv'
  <1> DEFINE b == proc[p].build
             v == proc[p].v
             new == [proc[p] EXCEPT !.pc = "next", !.v = v + 1, !.k = 0]
  <1>1. Busy(p) /\ proc[p].pc = "record" /\ rows[v] = None
    BY Zenon, BusyFacts DEF Record, Busy
  <1>2. /\ b \in Builds /\ lock = p /\ v \in Versions /\ v <= b.latest /\ v \notin proc[p].seen
        /\ b.latest \in Versions /\ Metadata(b, v) \in {"released", "edited"}
    BY Zenon, <1>1, BusyFacts, BuildFacts, MetadataFacts
  <1>3. proc' = [proc EXCEPT ![p] = new] /\ rows' = [rows EXCEPT ![v] = Metadata(b, v)]
        /\ UNCHANGED <<schema, dup, lock>>
    BY Zenon, <1>1 DEF Record
  <1>4. rows' \in [Versions -> {"released", "edited", None}] /\ RowsKept
    BY <1>1, <1>2, <1>3, Mine DEF RowsKept
  <1>5. v \in Nat /\ b.latest \in Nat /\ b.latest <= Len(Catalog) /\ v >= 1
    BY <1>2, CatalogFacts DEF Versions
  <1>6. /\ new \in ProcType /\ new.pc = "next" /\ new.build = b /\ new.v = v + 1
        /\ new.seen = proc[p].seen
    <2>1. v + 1 \in 0 .. Len(Catalog) + 1
      BY <1>2, <1>5, CatalogFacts
    <2> QED
      BY Zenon, <2>1, Mine DEF ProcType, Steps
  <1>7. proc'[p] = new
    BY Zenon, <1>3, Mine
  <1>8. \A u \in 1 .. v - 1 : rows[u] = Metadata(b, u)
    BY Zenon, <1>1, Mine DEF Progress
  <1>9. \A u \in Versions : u >= v =>
           IF u \in proc[p].seen THEN rows[u] = Metadata(b, u) ELSE rows[u] = None
    BY Zenon, <1>1, Mine DEF Progress
  <1>10. \A u \in 1 .. (v + 1) - 1 : rows'[u] = Metadata(b, u)
    <2> SUFFICES ASSUME NEW u \in 1 .. (v + 1) - 1 PROVE rows'[u] = Metadata(b, u)
      OBVIOUS
    <2>1. u \in Versions /\ (u = v \/ u \in 1 .. v - 1)
      BY <1>2, <1>5, CatalogFacts DEF Versions
    <2> QED
      BY <1>2, <1>3, <1>8, <2>1, Mine
  <1>11. \A u \in Versions : u >= v + 1 =>
            IF u \in proc[p].seen THEN rows'[u] = Metadata(b, u) ELSE rows'[u] = None
    BY <1>2, <1>3, <1>5, <1>9, Mine, CatalogFacts DEF Versions
  <1>12. v + 1 \in 1 .. b.latest + 1
    BY <1>2, <1>5
  <1>13. RecordedMeansApplied'
    <2> SUFFICES ASSUME NEW w \in Versions, rows'[w] # None
                 PROVE  /\ \A j \in 1 .. Len(Catalog[w]) : <<w, j>> \in schema'
                        /\ \A u \in Versions : u < w => rows'[u] # None
      BY DEF RecordedMeansApplied, Recorded
    <2>1. CASE w = v
      <3>1. \A j \in 1 .. Len(Catalog[v]) : <<v, j>> \in schema
        <4>1. /\ proc[p].k = Len(Catalog[v]) /\ <<v, proc[p].k>> \in schema
              /\ \A j \in 1 .. proc[p].k - 1 : <<v, j>> \in schema
          BY <1>1, Mine DEF Progress
        <4>2. Len(Catalog[v]) \in Nat
          BY <1>2, CatalogFacts
        <4> QED
          BY <4>1, <4>2
      <3>2. \A u \in Versions : u < v => u \in 1 .. (v + 1) - 1
        BY <1>5, CatalogFacts DEF Versions
      <3>3. \A u \in Versions : u < v => rows'[u] # None
        BY <1>2, <1>10, <3>2, MetadataFacts
      <3> QED
        BY <1>3, <2>1, <3>1, <3>3
    <2>2. CASE w # v
      <3>1. rows[w] # None
        BY <1>3, <2>2, Mine
      <3>2. /\ \A j \in 1 .. Len(Catalog[w]) : <<w, j>> \in schema
            /\ \A u \in Versions : u < w => rows[u] # None
        BY <3>1, Mine DEF RecordedMeansApplied, Recorded
      <3> QED
        BY <1>3, <1>4, <3>2 DEF RowsKept
    <2> QED
      BY <2>1, <2>2
  <1> HIDE DEF new, b, v
  <1>14. Progress(p)'
    BY <1>2, <1>3, <1>6, <1>7, <1>10, <1>11, <1>12 DEF Progress, Inside, Busy
  <1> QED
    BY Zenon, <1>2, <1>3, <1>4, <1>6, <1>13, <1>14, Mine, Together

\* Sessions and rows that change without a process taking a step.
LEMMA ElsewhereIInv ==
    ASSUME IInv, UNCHANGED <<rows, schema, proc>>, dup' \in BOOLEAN,
           lock' = lock \/ (\E p \in Procs : proc[p].pc = "serving" /\ lock = p /\ lock' = None)
    PROVE  IInv'
  <1>1. TypeOK' /\ RecordedMeansApplied' /\ LookIsFresh'
    BY DEF IInv, TypeOK, RecordedMeansApplied, Recorded, LookIsFresh
  <1>2. ASSUME NEW q \in Procs PROVE Progress(q)'
    <2>1. Progress(q)
      BY DEF IInv
    <2>2. Inside(q) => lock' = q
      BY <2>1 DEF Progress, Inside
    <2> QED
      BY <2>1, <2>2 DEF Progress, Inside, Busy
  <1> QED
    BY <1>1, <1>2 DEF IInv

LEMMA NextIInv == IInv /\ [Next]_vars => IInv'
  <1> SUFFICES ASSUME IInv, [Next]_vars PROVE IInv'
    OBVIOUS
  <1>1. CASE UNCHANGED vars
    BY <1>1, ElsewhereIInv DEF vars, IInv, TypeOK
  <1>2. ASSUME NEW p \in Procs, Step(p) \/ Crash(p) \/ \E b \in Builds : Start(p, b) PROVE IInv'
    BY <1>2, OutsideIInv, ReadHistoryIInv, NextMigrationIInv, LookIInv, AlterIInv, RecordIInv DEF Step
  <1>3. ASSUME NEW p \in Procs, SessionCloses(p) PROVE IInv'
    BY <1>3, ElsewhereIInv DEF SessionCloses, IInv, TypeOK
  <1>4. ASSUME WriteDuplicate \/ Reconcile PROVE IInv'
    BY Zenon, <1>4, ElsewhereIInv DEF WriteDuplicate, Reconcile
  <1> QED
    BY <1>1, <1>2, <1>3, <1>4 DEF Next

-----------------------------------------------------------------------------
\* The inductive invariant holds of every catalog and any number of processes.
THEOREM Inductive == Spec => []IInv
  BY InitIInv, NextIInv, PTL DEF Spec

\* A row of schema_migrations means an applied migration, after any sequence of
\* crashes, failed statements and concurrent starts (runDatabaseMigrations).
THEOREM RecordedTheorem == Spec => []RecordedMeansApplied
  <1>1. IInv => RecordedMeansApplied
    BY DEF IInv
  <1> QED
    BY <1>1, Inductive, PTL

\* A process that serves has the schema of its build (runDatabaseMigrations).
THEOREM ServingTheorem == Spec => []ServingFits
  <1>1. IInv => ServingFits
    BY Zenon DEF IInv, ServingFits, Progress
  <1> QED
    BY <1>1, Inductive, PTL

\* Looking at information_schema and altering is atomic for all practical
\* purposes (MIGRATION_LOCK, ensureColumn, ensureIndex).
THEOREM FreshTheorem == Spec => []LookIsFresh
  <1>1. IInv => LookIsFresh
    BY DEF IInv
  <1> QED
    BY <1>1, Inductive, PTL
=============================================================================
