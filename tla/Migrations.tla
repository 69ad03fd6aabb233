----------------------------- MODULE Migrations -----------------------------
(***************************************************************************)
(* Upgrading the database file: server starts that snapshot and migrate it, *)
(* crashes anywhere in that, the operator's recovery commands, and servers  *)
(* that write user data.  The lock of the migrator lives in one process, so *)
(* two starts on one file run side by side.                                *)
(*                                                                         *)
(* The body of a migration runs in one transaction, and so does each change *)
(* of the version row; the two are separate.  A body fits the schema that   *)
(* the bodies before it made, and no other.                                *)
(***************************************************************************)
EXTENDS Naturals, FiniteSets

CONSTANTS
    Procs,         \* server starts and operator commands
    MaxVersion,    \* the last migration of the newest binary
    Releases,      \* the last migration of each binary
    Floor,         \* SupportedUpgradeFloorVersion
    Nil,           \* no temporary file
    MaxWrites,     \* bound: changes of the user data
    MaxMishaps     \* bound: reads of the version that fail, and what the operator
                   \* forces, rolls back and restores

ASSUME ReleaseAssumption == /\ MaxVersion \in Nat \ {0}
                            /\ Releases \subseteq 1 .. MaxVersion
                            /\ Floor \in 1 .. MaxVersion

ASSUME BoundAssumption == MaxWrites \in Nat /\ MaxMishaps \in Nat

VARIABLES
    bridge,        \* ALLOW_SUB_FLOOR_MIGRATION
    db,            \* the database file
    snapshots,     \* pre-migration snapshots under their final names
    proc,          \* how far each process has come
    overlap,       \* two processes were on the file together
    blind,         \* the operator forced a version the schema does not have
    mishaps,       \* how often a read failed or the operator stepped in
    outdated       \* names of snapshots after which other data can have come
                   \* to be at the version they were taken of

migrationVars == <<bridge, db, snapshots, proc, overlap, blind, mishaps, outdated>>

Versions == 1 .. MaxVersion

(* Version 0: the version table has no row.  The schema is the set of
   migrations whose body was committed. *)
Files == [version : 0 .. MaxVersion, dirty : BOOLEAN, schema : SUBSET Versions,
          data : 0 .. MaxWrites]

Snapshots == [from : Versions, to : Versions, file : Files, whole : BOOLEAN]

Steps == {"off", "probed", "backup", "copied", "preflight", "start",
          "up", "marked", "applied", "unmarked", "serving"}

Processes == [step : Steps,
              binary : 0 .. MaxVersion,        \* its latest migration
              serves : BOOLEAN,                \* a server, not a command
              was : 0 .. MaxVersion,           \* version of the file then, 0 if it
                                               \* had no tables
              from : 0 .. MaxVersion,          \* version read for the backup
              cur : 0 .. MaxVersion,           \* version it has got to
              temp : Files \cup {Nil}]         \* its temporary snapshot

MigrationTypeOK ==
    /\ bridge \in BOOLEAN /\ overlap \in BOOLEAN /\ blind \in BOOLEAN
    /\ db \in Files
    /\ snapshots \subseteq Snapshots
    /\ proc \in [Procs -> Processes]
    /\ mishaps \in 0 .. MaxMishaps
    /\ outdated \subseteq Versions \X Versions

Off == [step |-> "off", binary |-> 0, serves |-> FALSE,
        was |-> 0, from |-> 0, cur |-> 0, temp |-> Nil]

-----------------------------------------------------------------------------
(* A fresh file, one that an earlier release left, or one that lost its
   version row. *)
MigrationInit ==
    /\ bridge \in BOOLEAN
    /\ \E n \in 0 .. MaxVersion : \E v \in {0, n} :
          db = [version |-> v, dirty |-> FALSE, schema |-> 1 .. n, data |-> 0]
    /\ snapshots = {}
    /\ proc = [p \in Procs |-> Off]
    /\ overlap = FALSE /\ blind = FALSE /\ mishaps = 0 /\ outdated = {}

At(p, s) == proc[p].step = s

Goto(p, s) == proc' = [proc EXCEPT ![p].step = s]

Quiet == \A p \in Procs : At(p, "off")

Started(p, record) == proc' = [proc EXCEPT ![p] = record]

(* InitDB, or the command "migrate up", with a binary whose latest migration is
   b.  The operator does not start one while a command of his is running. *)
Boot(p, b, serves) ==
    /\ At(p, "off")
    /\ \A q \in Procs : At(q, "off") \/ proc[q].serves
    /\ Started(p, [Off EXCEPT !.step = "probed", !.binary = b, !.serves = serves])
    /\ overlap' = (overlap \/ ~Quiet)
    /\ UNCHANGED <<bridge, db, snapshots, blind, outdated, mishaps>>

(* Below the floor only over the bridge. *)
Supported(version) == version >= Floor \/ bridge

Mishap == mishaps < MaxMishaps /\ mishaps' = mishaps + 1

(* Version of the driver: a read of the version row that fails is taken for a
   table without a row. *)
Actual == [version |-> db.version, dirty |-> db.dirty]
NilVersion == [version |-> 0, dirty |-> FALSE]
Readings == {Actual, NilVersion}

Reads(seen) == \/ seen = Actual /\ UNCHANGED mishaps
               \/ seen = NilVersion /\ Mishap

(* shouldTakePreMigrationBackup *)
NeedsBackup(p, seen) == /\ seen.version # 0 /\ ~seen.dirty
                        /\ seen.version < proc[p].binary
                        /\ Supported(seen.version)

(* MigrationVersion *)
ReadVersion(p) ==
    /\ At(p, "probed")
    /\ \E seen \in Readings :
          /\ Reads(seen)
          /\ proc' = [proc EXCEPT
                        ![p].was = IF db.schema = {} THEN 0 ELSE db.version,
                        ![p].from = seen.version,
                        ![p].step = IF NeedsBackup(p, seen) THEN "backup" ELSE "preflight"]
    /\ UNCHANGED <<bridge, db, snapshots, overlap, blind, outdated>>

(* findReusablePreMigrationBackup: a snapshot of that name that passes the
   integrity check. *)
Reusable(p) == {s \in snapshots : s.from = proc[p].from /\ s.to = proc[p].binary /\ s.whole}

Reuse(p) == /\ At(p, "backup")
            /\ Reusable(p) # {}
            /\ Goto(p, "preflight")
            /\ UNCHANGED <<bridge, db, snapshots, overlap, blind, outdated, mishaps>>

(* Mutant: VACUUM INTO the final name; a crash leaves part of the file there. *)
Placed(p) == {[from |-> proc[p].from, to |-> proc[p].binary, file |-> db, whole |-> FALSE]}

(* What VACUUM INTO puts under a final name: nothing. *)
Unplaced(p) == {}

(* BackupSnapshot: VACUUM INTO a temporary file. *)
Copy(p) == /\ At(p, "backup")
           /\ Reusable(p) = {}
           /\ proc' = [proc EXCEPT ![p].step = "copied", ![p].temp = db]
           /\ snapshots' = snapshots \cup Unplaced(p)
           /\ UNCHANGED <<bridge, db, overlap, blind, outdated, mishaps>>

(* The copy passes the integrity check and is linked to its name. *)
Place(p) ==
    /\ At(p, "copied")
    /\ snapshots' = snapshots \cup {[from |-> proc[p].from, to |-> proc[p].binary,
                                     file |-> proc[p].temp, whole |-> TRUE]}
    /\ proc' = [proc EXCEPT ![p].step = "preflight", ![p].temp = Nil]
    /\ UNCHANGED <<bridge, db, overlap, blind, outdated, mishaps>>

(* Mutant: a dirty database may go on. *)
AdmittedDirty(p, seen) == seen.version <= proc[p].binary

(* checkMigrationPreflight, and the refusal of a populated database without a
   version. *)
Admitted(p, seen) == /\ seen.version = 0 => db.schema = {}
                     /\ ~seen.dirty
                     /\ seen.version <= proc[p].binary
                     /\ seen.version = 0 \/ Supported(seen.version)

Preflight(p) == /\ At(p, "preflight")
                /\ \E seen \in Readings : Reads(seen) /\ Admitted(p, seen)
                /\ Goto(p, "start")
                /\ UNCHANGED <<bridge, db, snapshots, overlap, blind, outdated>>

(* m.Up() reads the version once more, and knows no version but the binary's. *)
Startable(p, seen) == ~seen.dirty /\ seen.version <= proc[p].binary

StartUp(p) == /\ At(p, "start")
              /\ \E seen \in Readings :
                    /\ Reads(seen) /\ Startable(p, seen)
                    /\ proc' = [proc EXCEPT ![p].step = "up", ![p].cur = seen.version]
              /\ UNCHANGED <<bridge, db, snapshots, overlap, blind, outdated>>

(* The names of snapshots that need not hold the data any more with which their
   version is reached again from this one. *)
Outdated(version, held) ==
    outdated \cup {<<s.from, s.to>> : s \in {t \in held : t.from >= version}}

(* SetVersion(next, dirty): a start that took the file for a fresh one marks the
   first version. *)
Mark(p) == LET next == proc[p].cur + 1
           IN  /\ At(p, "up") /\ next <= proc[p].binary
               /\ db' = [db EXCEPT !.version = next, !.dirty = TRUE]
               /\ proc' = [proc EXCEPT ![p].step = "marked", ![p].cur = next]
               /\ outdated' = IF next < db.version THEN Outdated(next, snapshots) ELSE outdated
               /\ UNCHANGED <<bridge, snapshots, overlap, blind, mishaps>>

(* The body of the migration. *)
Apply(p) == /\ At(p, "marked")
            /\ db.schema = 1 .. proc[p].cur - 1
            /\ db' = [db EXCEPT !.schema = @ \cup {proc[p].cur}]
            /\ Goto(p, "applied")
            /\ UNCHANGED <<bridge, snapshots, overlap, blind, outdated, mishaps>>

(* SetVersion(cur, clean) *)
Clean(p) == /\ At(p, "applied")
            /\ db' = [db EXCEPT !.version = proc[p].cur, !.dirty = FALSE]
            /\ Goto(p, "up")
            /\ UNCHANGED <<bridge, snapshots, overlap, blind, outdated, mishaps>>

Finish(p) == /\ At(p, "up") /\ proc[p].cur = proc[p].binary
             /\ Started(p, IF proc[p].serves
                           THEN [Off EXCEPT !.step = "serving", !.serves = TRUE,
                                            !.binary = proc[p].binary]
                           ELSE Off)
             /\ UNCHANGED <<bridge, db, snapshots, overlap, blind, outdated, mishaps>>

(* A step refuses or fails, or the process dies or is stopped: what it wrote
   stays, its temporary file is never looked at again. *)
End(p) == /\ ~At(p, "off")
          /\ Started(p, Off)
          /\ UNCHANGED <<bridge, db, snapshots, overlap, blind, outdated, mishaps>>

-----------------------------------------------------------------------------
(* A request changes the data. *)
Write(p) == /\ At(p, "serving")
            /\ db.data < MaxWrites
            /\ db' = [db EXCEPT !.data = @ + 1]
            /\ outdated' = Outdated(db.version, snapshots)
            /\ UNCHANGED <<bridge, snapshots, proc, overlap, blind, mishaps>>

(* The operator steps in, with nothing running on the file. *)
Repair == Quiet /\ Mishap

(* "migrate force": the version is taken for applied, and the rest is run, without
   a snapshot.  The operator may have looked at the schema, or not. *)
MigrateForce(p, b) ==
    /\ Repair
    /\ db.version # 0 /\ db.dirty /\ db.version <= b
    /\ db' = [db EXCEPT !.dirty = FALSE]
    /\ blind' = (blind \/ db.schema # 1 .. db.version)
    /\ Started(p, [Off EXCEPT !.step = "start", !.binary = b])
    /\ UNCHANGED <<bridge, snapshots, overlap, outdated>>

(* MigrateDown: one version, in the same three steps; the first migration is
   never rolled back here. *)
Unmark(p) == /\ Repair
             /\ db.version > 1 /\ ~db.dirty
             /\ db' = [db EXCEPT !.version = @ - 1, !.dirty = TRUE]
             /\ Started(p, [Off EXCEPT !.step = "unmarked", !.binary = db.version - 1,
                                       !.cur = db.version - 1])
             /\ outdated' = Outdated(db.version - 1, snapshots)
             /\ UNCHANGED <<bridge, snapshots, overlap, blind>>

Unapply(p) == /\ At(p, "unmarked")
              /\ db.schema = 1 .. proc[p].cur + 1
              /\ db' = [db EXCEPT !.schema = @ \ {proc[p].cur + 1}]
              /\ Goto(p, "applied")
              /\ UNCHANGED <<bridge, snapshots, overlap, blind, outdated, mishaps>>

(* The operator puts a snapshot in place of the file. *)
Restore(s) == /\ Repair
              /\ s.whole
              /\ db' = s.file
              /\ outdated' = Outdated(s.file.version, snapshots \ {s})
              /\ UNCHANGED <<bridge, snapshots, proc, overlap, blind>>

ProcStep(p) == \/ \E b \in Releases : MigrateForce(p, b) \/ \E serves \in BOOLEAN : Boot(p, b, serves)
               \/ ReadVersion(p) \/ Reuse(p) \/ Copy(p) \/ Place(p) \/ Preflight(p)
               \/ StartUp(p) \/ Mark(p) \/ Apply(p) \/ Clean(p) \/ Finish(p) \/ End(p)
               \/ Write(p) \/ Unmark(p) \/ Unapply(p)

MigrationNext ==
    \/ \E p \in Procs : ProcStep(p)
    \/ \E s \in snapshots : Restore(s)

MigrationSpec == MigrationInit /\ [][MigrationNext]_migrationVars

-----------------------------------------------------------------------------
(* A server starts to serve on a schema that has every migration of its binary,
   and none besides: neither a crash, nor a failed body, nor a rollback, nor
   starts on the same file that cross make it serve a half-made one.  Only an
   operator who forces a version unseen can, and a start of a newer binary can
   add to the schema in between. *)
ServedIsComplete ==
    [][\A p \in Procs : ~At(p, "serving") /\ proc'[p].step = "serving" /\ ~blind =>
          /\ 1 .. proc[p].binary \subseteq db.schema
          /\ db.schema = 1 .. proc[p].binary \/ overlap]_migrationVars

(* The read for the backup failed: the file went for a fresh one. *)
TakenForFresh(p) == proc[p].from = 0 /\ proc[p].was # 0

(* There is a snapshot of the database as it was read for the backup, under the
   name that says so.  It holds the data too, unless it was taken before the data
   of that version changed. *)
Undoable(p) ==
    \E s \in Reusable(p) :
        /\ s.file.version = s.from /\ ~s.file.dirty
        /\ s.file.data = db.data \/ <<s.from, s.to>> \in outdated

(* What a start is about to do, or doing, to the database of an earlier release
   can be undone: crashes, rollbacks, restores and later reads that fail leave
   the snapshot.  A start whose first read failed took none. *)
RollbackPoint ==
    \A p \in Procs :
        /\ proc[p].step \in {"start", "up", "marked", "applied"} /\ ~overlap
        /\ proc[p].was \in 1 .. proc[p].binary - 1
        => TakenForFresh(p) \/ Undoable(p)

(* "The mandatory pre-migration backup is never silently skipped": so every start
   that goes on to migrate an earlier release has the snapshot. *)
EveryUpgradeIsSecured ==
    \A p \in Procs :
        /\ proc[p].step \in {"start", "up", "marked", "applied"} /\ ~overlap
        /\ proc[p].was \in 1 .. proc[p].binary - 1
        => Undoable(p)

(* What is under the name of a snapshot is all of a database that was clean, at
   the version the name gives, unless two starts crossed. *)
SnapshotsAreWhole ==
    \A s \in snapshots :
        /\ s.whole
        /\ ~overlap => s.file.version = s.from /\ ~s.file.dirty
        /\ ~overlap /\ ~blind => s.file.schema = 1 .. s.from

(* "install N, restore the snapshot taken before the N -> N+1 upgrade.  You lose
   the data written while N+1 was up": so the snapshot an upgrade relies on
   holds the data as it was before the upgrade. *)
OnlyNewDataIsLost ==
    \A p \in Procs :
        At(p, "marked") /\ proc[p].from \in 1 .. proc[p].binary - 1 /\ ~overlap
        => \E s \in Reusable(p) : s.file.data = db.data
=============================================================================
