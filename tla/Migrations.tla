----------------------------- MODULE Migrations -----------------------------
(***************************************************************************)
(* The schema migrations that every Control Plane process runs when it     *)
(* starts (db/migrations.ts, db/*.migration.ts, db/database.ts): several   *)
(* processes, of older, newer and altered builds, start, crash and start   *)
(* again on one database.  MySQL commits each DDL statement by itself, so  *)
(* a crash may fall between any two statements, and between a migration    *)
(* and its row in schema_migrations.                                       *)
(*                                                                         *)
(*   rows    schema_migrations: the name and checksum of each version      *)
(*   schema  the statements whose effect is there, as <<version, index>>   *)
(*   dup     some operation has two rows in maintenance_dispatches         *)
(*   lock    the session that holds docklane:schema-migrations             *)
(*   proc    the processes                                                 *)
(***************************************************************************)
EXTENDS Naturals, Sequences

CONSTANTS Procs,
          Catalog,    \* the kinds of the statements of each migration
          None

\* A statement that may be run again: CREATE TABLE IF NOT EXISTS, MODIFY
\* COLUMN, a backfill; one that is run after a look at information_schema
\* (ensureColumn, ensureIndex); the unique index of migration 8.
Kinds == {"repeatable", "ensure", "unique"}
Versions == 1 .. Len(Catalog)

ASSUME CatalogAssumption ==
    /\ Catalog \in Seq(Seq(Kinds) \ {<<>>}) /\ Catalog # <<>>
    /\ None \notin Procs \cup {"released", "edited"}

VARIABLES rows, schema, dup, lock, proc

vars == <<rows, schema, dup, lock, proc>>

-----------------------------------------------------------------------------
\* A build knows the migrations up to its latest; in an altered build the
\* definition of one of them was edited (0: of none).
Builds == {b \in [latest : Versions, edited : 0 .. Len(Catalog)] : b.edited <= b.latest}

\* name and migrationChecksum: version, name and signature.
Metadata(b, v) == IF v = b.edited THEN "edited" ELSE "released"

Statements == UNION {{v} \X (1 .. Len(Catalog[v])) : v \in Versions}
Unique == {s \in Statements : Catalog[s[1]][s[2]] = "unique"}

Recorded == {v \in Versions : rows[v] # None}

Stopped == [pc |-> "stopped", build |-> None, seen |-> {}, v |-> 0, k |-> 0]
Steps == {"stopped", "locking", "history", "next", "look", "alter", "record", "finish", "abort", "serving"}

TypeOK ==
    /\ rows \in [Versions -> {"released", "edited", None}]
    /\ schema \subseteq Statements
    /\ dup \in BOOLEAN
    /\ lock \in Procs \cup {None}
    /\ proc \in [Procs -> [pc : Steps, build : Builds \cup {None}, seen : SUBSET Versions,
                           v : 0 .. Len(Catalog) + 1, k : Nat]]

Init ==
    /\ rows = [v \in Versions |-> None]
    /\ schema = {}
    /\ dup = FALSE
    /\ lock = None
    /\ proc = [p \in Procs |-> Stopped]

-----------------------------------------------------------------------------
Go(p, pc) == proc' = [proc EXCEPT ![p].pc = pc]
Stop(p) == proc' = [proc EXCEPT ![p] = Stopped]

\* onModuleInit; the catalog is contiguous by construction.
Start(p, b) ==
    /\ proc[p].pc = "stopped"
    /\ proc' = [proc EXCEPT ![p] = [Stopped EXCEPT !.pc = "locking", !.build = b]]
    /\ UNCHANGED <<rows, schema, dup, lock>>

\* GET_LOCK returns 1.
GetLock(p) ==
    /\ proc[p].pc = "locking" /\ lock = None
    /\ lock' = p
    /\ Go(p, "history")
    /\ UNCHANGED <<rows, schema, dup>>

\* Mutant: the result of GET_LOCK is not looked at.
LockTimeoutIgnored(p) ==
    /\ proc[p].pc = "locking" /\ lock # None
    /\ Go(p, "history")
    /\ UNCHANGED <<rows, schema, dup, lock>>

\* Mutant: no timeout (GET_LOCK with a negative one).
LockWaits(p) == FALSE /\ UNCHANGED <<rows, schema, dup, lock, proc>>

\* GET_LOCK returns 0 after thirty seconds: this start fails.
LockTimeout(p) ==
    /\ proc[p].pc = "locking" /\ lock # None
    /\ Stop(p)
    /\ UNCHANGED <<rows, schema, dup, lock>>

\* Every row is of a migration that this build knows, and knows as it was.
Compatible(b) == \A v \in Versions : rows[v] # None => v <= b.latest /\ rows[v] = Metadata(b, v)

\* Mutant: versions are compared, checksums are not.
ReadHistoryVersions(p) ==
    LET b == proc[p].build IN
    /\ proc[p].pc = "history"
    /\ IF \A v \in Versions : rows[v] # None => v <= b.latest
       THEN proc' = [proc EXCEPT ![p].pc = "next", ![p].v = 1, ![p].seen = Recorded] ELSE Go(p, "abort")
    /\ UNCHANGED <<rows, schema, dup, lock>>

\* schema_migrations is created if need be, and read once.
ReadHistory(p) ==
    LET b == proc[p].build IN
    /\ proc[p].pc = "history"
    /\ IF Compatible(b) THEN proc' = [proc EXCEPT ![p].pc = "next", ![p].v = 1, ![p].seen = Recorded]
       ELSE Go(p, "abort")
    /\ UNCHANGED <<rows, schema, dup, lock>>

\* The next migration of the catalog: one that has a row is passed over.
NextMigration(p) ==
    LET b == proc[p].build  v == proc[p].v IN
    /\ proc[p].pc = "next"
    /\ proc' = [proc EXCEPT ![p] = CASE v > b.latest -> [Stopped EXCEPT !.pc = "finish", !.build = b]
                                     [] v <= b.latest /\ v \in proc[p].seen -> [@ EXCEPT !.v = v + 1]
                                     [] OTHER -> [@ EXCEPT !.pc = "look", !.k = 1]]
    /\ UNCHANGED <<rows, schema, dup, lock>>

\* Mutant: the statements are not awaited.
FollowUnawaited(p) == proc' = [proc EXCEPT ![p].pc = "record"]

\* The statement after <<v, k>>, or the row.
Follow(p) ==
    LET k == proc[p].k IN
    proc' = [proc EXCEPT ![p] = IF k = Len(Catalog[proc[p].v]) THEN [@ EXCEPT !.pc = "record"]
                                ELSE [@ EXCEPT !.pc = "look", !.k = k + 1]]

\* What is there already is left alone; migration 8 refuses duplicates first.
Look(p) ==
    LET s == <<proc[p].v, proc[p].k>> IN
    /\ proc[p].pc = "look"
    /\ IF Catalog[s[1]][s[2]] = "repeatable" THEN schema' = schema \cup {s} /\ Follow(p)
       ELSE /\ UNCHANGED schema
            /\ IF Catalog[s[1]][s[2]] = "unique" /\ dup THEN Go(p, "abort")
               ELSE IF s \in schema THEN Follow(p) ELSE Go(p, "alter")
    /\ UNCHANGED <<rows, dup, lock>>

\* ALTER TABLE; MySQL refuses a unique index over duplicates, and a column or
\* an index that exists.
Alter(p) ==
    LET s == <<proc[p].v, proc[p].k>> IN
    /\ proc[p].pc = "alter"
    /\ IF s \in schema \/ (Catalog[s[1]][s[2]] = "unique" /\ dup)
       THEN Go(p, "abort") /\ UNCHANGED schema
       ELSE schema' = schema \cup {s} /\ Follow(p)
    /\ UNCHANGED <<rows, dup, lock>>

\* A statement fails for some other reason.
StatementFails(p) ==
    /\ proc[p].pc \in {"history", "look", "alter", "record"}
    /\ Go(p, "abort")
    /\ UNCHANGED <<rows, schema, dup, lock>>

\* INSERT INTO schema_migrations; the version is the primary key.
Record(p) ==
    LET v == proc[p].v IN
    /\ proc[p].pc = "record"
    /\ IF rows[v] = None
       THEN /\ rows' = [rows EXCEPT ![v] = Metadata(proc[p].build, v)]
            /\ proc' = [proc EXCEPT ![p].pc = "next", ![p].v = v + 1, ![p].k = 0]
       ELSE Go(p, "abort") /\ UNCHANGED rows
    /\ UNCHANGED <<schema, dup, lock>>

\* RELEASE_LOCK, and the connection goes back to the pool.
Release(p) ==
    /\ proc[p].pc = "finish"
    /\ lock' = IF lock = p THEN None ELSE lock
    /\ Go(p, "serving")
    /\ UNCHANGED <<rows, schema, dup>>

\* RELEASE_LOCK fails, which is ignored: the session lives on in the pool, and
\* has the lock.
ReleaseFails(p) ==
    /\ proc[p].pc = "finish"
    /\ Go(p, "serving")
    /\ UNCHANGED <<rows, schema, dup, lock>>

\* The pool closes the session.
SessionCloses(p) ==
    /\ proc[p].pc = "serving" /\ lock = p
    /\ lock' = None
    /\ UNCHANGED <<rows, schema, dup, proc>>

\* The start fails and the process ends, and with it its sessions.
Abort(p) ==
    /\ proc[p].pc = "abort"
    /\ lock' = IF lock = p THEN None ELSE lock
    /\ Stop(p)
    /\ UNCHANGED <<rows, schema, dup>>

\* A crash or a shutdown at any time; a statement under way may or may not
\* have taken effect.
Crash(p) ==
    /\ proc[p].pc # "stopped"
    /\ lock' = IF lock = p THEN None ELSE lock
    /\ Stop(p)
    /\ UNCHANGED <<rows, schema, dup>>

\* A process that serves writes a second dispatch of an operation, while no
\* unique index forbids it; an operator reconciles the rows.
WriteDuplicate ==
    /\ \E p \in Procs : proc[p].pc = "serving"
    /\ Unique # {} /\ schema \cap Unique = {} /\ ~dup
    /\ dup' = TRUE
    /\ UNCHANGED <<rows, schema, lock, proc>>

Reconcile ==
    /\ dup /\ dup' = FALSE
    /\ UNCHANGED <<rows, schema, lock, proc>>

-----------------------------------------------------------------------------
Step(p) ==
    \/ GetLock(p) \/ LockTimeout(p) \/ ReadHistory(p) \/ NextMigration(p) \/ Look(p) \/ Alter(p)
    \/ StatementFails(p) \/ Record(p) \/ Release(p) \/ ReleaseFails(p) \/ Abort(p)

Next ==
    \/ \E p \in Procs : Step(p) \/ SessionCloses(p) \/ Crash(p) \/ \E b \in Builds : Start(p, b)
    \/ WriteDuplicate \/ Reconcile

Spec == Init /\ [][Next]_vars

\* MySQL answers every statement; that it grants or refuses the lock within
\* thirty seconds is part of it.
FairSpec == Spec /\ \A p \in Procs : WF_vars(Step(p))

-----------------------------------------------------------------------------
\* A row means that all of its migration is in place and that all earlier ones
\* have their rows, through any sequence of crashes, failures and starts
\* (runDatabaseMigrations records a migration after it ran).
RecordedMeansApplied ==
    \A v \in Recorded :
        /\ \A k \in 1 .. Len(Catalog[v]) : <<v, k>> \in schema
        /\ \A u \in Versions : u < v => u \in Recorded

\* A process that serves finds every migration of its build in place as its
\* build defines it, whatever other builds have done since.
ServingFits ==
    \A p \in Procs : proc[p].pc = "serving" =>
        \A v \in 1 .. proc[p].build.latest : rows[v] = Metadata(proc[p].build, v)

\* What a migration found missing is still missing when it comes to add it:
\* between a look at information_schema and the ALTER TABLE nobody else alters
\* (MIGRATION_LOCK).
LookIsFresh ==
    \A p \in Procs : proc[p].pc = "alter" => <<proc[p].v, proc[p].k>> \notin schema

Inside(p) == proc[p].pc \in {"history", "next", "look", "alter", "record", "finish", "abort"}
Busy(p) == proc[p].pc \in {"look", "alter", "record"}

\* What makes the three inductive: only the holder of the lock is inside, it
\* has come as far as its position in the catalog says, and nothing it did not
\* read was recorded but by itself.
Progress(p) ==
    LET b == proc[p].build  v == proc[p].v  k == proc[p].k IN
    /\ proc[p].pc # "stopped" => b \in Builds
    /\ Inside(p) => lock = p
    /\ proc[p].pc = "next" \/ Busy(p) =>
          /\ v \in 1 .. b.latest + 1
          /\ \A u \in 1 .. v - 1 : rows[u] = Metadata(b, u)
          /\ \A u \in Versions : u >= v => IF u \in proc[p].seen THEN rows[u] = Metadata(b, u) ELSE rows[u] = None
    /\ Busy(p) => v <= b.latest /\ v \notin proc[p].seen /\ k \in 1 .. Len(Catalog[v])
    /\ Busy(p) => \A j \in 1 .. k - 1 : <<v, j>> \in schema
    /\ proc[p].pc = "record" => k = Len(Catalog[v]) /\ <<v, k>> \in schema
    /\ proc[p].pc \in {"finish", "serving"} => \A u \in 1 .. b.latest : rows[u] = Metadata(b, u)

IInv == TypeOK /\ RecordedMeansApplied /\ LookIsFresh /\ \A p \in Procs : Progress(p)

\* Every start ends, serving or stopped, even when the lock is held by a process
\* that serves and will not give it back.
StartEnds ==
    \A p \in Procs : proc[p].pc = "locking" ~> proc[p].pc \in {"serving", "stopped"}
=============================================================================
