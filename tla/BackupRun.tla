----------------------------- MODULE BackupRun ------------------------------
(***************************************************************************)
(* One full backup to Drive (runBackup), the lock and lease around it      *)
(* (runFullBackup) and the retention of recovery points after it.          *)
(*                                                                         *)
(* A run writes a recovery point of its own under history/, then the files *)
(* of current/ in place, in both with the manifest last; it reads current/ *)
(* back, and a run that reports success prunes the oldest points.  Drive   *)
(* has no transaction: each write may take effect, fail, or take effect    *)
(* with its answer lost, which the client does not send again; the process *)
(* may stop between any two of them.  A file is the number of the run that *)
(* wrote it, 0 when it is absent; snapshot gives what that run had read.   *)
(* The mirror and the key vault that the same run brings up to date are    *)
(* the subject of CurrentMirror.                                           *)
(***************************************************************************)
EXTENDS Naturals, FiniteSets, FiniteSetsExt

CONSTANTS
    Source,       \* trees of source files a deployment may have
    Content,      \* fingerprints of the database
    Keep,         \* DR_RETENTION_KEEP
    Protected,    \* ids retention never deletes
    MaxRuns,      \* bound on the runs
    MaxRestarts   \* bound on the restarts

Runs == 1 .. MaxRuns
Id   == 1 .. MaxRuns

\* The files of a backup in the order they are written: source bundle, database,
\* secrets, manifest.
Part     == 1 .. 4
Bundle   == 1
Manifest == 4
Folder   == [Part -> 0 .. MaxRuns]
Empty    == [k \in Part |-> 0]

Stage == {"idle", "begun", "point", "current", "written", "prune", "delete"}
Idle  == [stage |-> "idle", id |-> 0, part |-> 1, plan |-> {}]

VARIABLES
    source,      \* the tree of the running deployment
    content,     \* the database
    runs,        \* runs begun; the number of the latest
    snapshot,    \* what each run read
    folders,     \* folders under history/
    point,       \* their files
    current,     \* the files of current/
    doomed,      \* points whose deletion has begun
    run,         \* the run in progress
    success,     \* the run driveBackup names as the last success
    outcome,     \* what the latest run reported
    lease,       \* driveLease in memory: free, own, or foreign (an older life's)
    savedLease,  \* whether the saved state holds a lease
    restarts

drive == <<folders, point, current, doomed>>
world == <<source, content>>
vars  == <<world, runs, snapshot, drive, run, success, outcome, lease, savedLease,
           restarts>>

TypeOK ==
    /\ source \in Source /\ content \in Content
    /\ runs \in 0 .. MaxRuns
    /\ snapshot \in [Runs -> Source \X Content]
    /\ folders \subseteq Id
    /\ point \in [Id -> Folder]
    /\ current \in Folder
    /\ doomed \subseteq Id
    /\ run \in [stage : Stage, id : 0 .. MaxRuns, part : Part, plan : SUBSET Id]
    /\ success \in 0 .. MaxRuns
    /\ outcome \in {"none", "failed", "backed_up", "no_change"}
    /\ lease \in {"free", "own", "foreign"}
    /\ savedLease \in BOOLEAN
    /\ restarts \in 0 .. MaxRestarts

Init ==
    /\ source \in Source /\ content \in Content
    /\ runs = 0
    /\ snapshot = [n \in Runs |-> <<source, content>>]
    /\ folders = {} /\ point = [id \in Id |-> Empty]
    /\ current = Empty
    /\ doomed = {}
    /\ run = Idle
    /\ success = 0 /\ outcome = "none"
    /\ lease = "free" /\ savedLease = FALSE
    /\ restarts = 0

-----------------------------------------------------------------------------
(* Begin and end of a run.                                                 *)

Lease == <<lease, savedLease>>

\* persistControl writes later, or not at all: the saved lease may keep its value.
SaveLease(held) == savedLease' \in {held, savedLease}

\* Mutant of Ended: a finally block without the release.
EndedHeld(result) ==
    /\ run' = Idle
    /\ outcome' = result
    /\ UNCHANGED Lease

\* The finally block of runFullBackup gives the lease back on every way out;
\* only a verified new backup becomes the last success.
Ended(result) ==
    /\ run' = Idle
    /\ outcome' = result
    /\ lease' = "free" /\ SaveLease(FALSE)

Fails == Ended("failed") /\ UNCHANGED success

Proceed(next) == run' = next /\ UNCHANGED <<outcome, success, Lease>>

\* runFullBackup up to the dump: the lease of a life that is over refuses it.
Begin ==
    /\ run.stage = "idle" /\ lease # "foreign" /\ runs < MaxRuns
    /\ runs' = runs + 1
    /\ snapshot' = [snapshot EXCEPT ![runs'] = <<source, content>>]
    /\ run' = [Idle EXCEPT !.stage = "begun"]
    /\ lease' = "own" /\ SaveLease(TRUE)
    /\ UNCHANGED <<world, drive, success, outcome, restarts>>

Same(m) == m # 0 /\ snapshot[m] = snapshot[runs]

\* The dump and the packages may fail before anything is written.  Then
\* current/manifest.json is read (one that cannot be read is no manifest): for the
\* same source and database nothing is written, and that is a success.
Compare ==
    /\ run.stage = "begun"
    /\ \/ Fails
       \/ \E m \in {current[Manifest], 0} :
             /\ IF Same(m)
                THEN run' = [run EXCEPT !.stage = "prune"] /\ outcome' = "no_change"
                ELSE run' = [run EXCEPT !.stage = "point"] /\ UNCHANGED outcome
             /\ UNCHANGED <<success, Lease>>
    /\ UNCHANGED <<world, runs, snapshot, drive, restarts>>

-----------------------------------------------------------------------------
(* The recovery point and current/.                                        *)

\* nextRecoveryPointId: a list that cannot be read counts as empty.
NextIds == {1, Max(folders \union {0}) + 1} \intersect Id

\* A call that changes Drive: what it did and whether its answer came back.
Call == {"done", "unanswered", "failed"}

\* createVersionedRestorePoint: a folder that exists is never written to.
Create ==
    /\ run.stage = "point" /\ run.id = 0
    /\ \E id \in NextIds, call \in Call :
          /\ folders' = IF call = "failed" THEN folders ELSE folders \union {id}
          /\ doomed' = doomed \ (folders' \ folders)
          /\ IF call = "done" /\ id \notin folders
             THEN Proceed([run EXCEPT !.id = id])
             ELSE Fails
    /\ UNCHANGED <<world, runs, snapshot, point, current, restarts>>

\* The next file, or the next stage once the manifest is written.
NextPart(stage) ==
    IF run.part = Manifest
    THEN [run EXCEPT !.stage = stage, !.part = 1]
    ELSE [run EXCEPT !.part = run.part + 1]

\* Mutant of WritePoint: a file that could not be written does not stop the point.
WritePointOn ==
    /\ run.stage = "point" /\ run.id # 0
    /\ \E call \in Call :
          /\ point' = IF call = "failed" THEN point
                      ELSE [point EXCEPT ![run.id][run.part] = runs]
          /\ IF call = "done" \/ run.part # Manifest
             THEN Proceed(NextPart("current"))
             ELSE Fails
    /\ UNCHANGED <<world, runs, snapshot, folders, current, doomed, restarts>>

WritePoint ==
    /\ run.stage = "point" /\ run.id # 0
    /\ \E call \in Call :
          /\ point' = IF call = "failed" THEN point
                      ELSE [point EXCEPT ![run.id][run.part] = runs]
          /\ IF call = "done" THEN Proceed(NextPart("current")) ELSE Fails
    /\ UNCHANGED <<world, runs, snapshot, folders, current, doomed, restarts>>

\* writeCurrentVersion: the files of current/ are overwritten one after the other.
WriteCurrent ==
    /\ run.stage = "current"
    /\ \E call \in Call :
          /\ current' = IF call = "failed" THEN current
                        ELSE [current EXCEPT ![run.part] = runs]
          /\ IF call = "done" THEN Proceed(NextPart("written")) ELSE Fails
    /\ UNCHANGED <<world, runs, snapshot, folders, point, doomed, restarts>>

\* The bundle is made of the source alone; the encrypted files differ in every run.
Matches(files, n) ==
    /\ files[Bundle] # 0 /\ snapshot[files[Bundle]][1] = snapshot[n][1]
    /\ \A k \in Part \ {Bundle} : files[k] = n

\* readBackCurrent and evaluateBackupVerification: each file is read again.
Verify ==
    /\ run.stage = "written"
    /\ \/ Fails
       \/ /\ Matches(current, runs)
          /\ run' = [run EXCEPT !.stage = "prune"]
          /\ outcome' = "backed_up" /\ success' = runs
          /\ UNCHANGED Lease
    /\ UNCHANGED <<world, runs, snapshot, drive, restarts>>

-----------------------------------------------------------------------------
(* Retention.                                                              *)

\* planRetention: of the complete points that are neither protected nor the newest,
\* all but the Keep - 1 latest.
Surplus(complete, newest) ==
    LET candidates == complete \ (Protected \union {newest})
    IN  {id \in candidates :
            Cardinality({later \in candidates : later > id}) >= Keep - 1}

\* pruneCompletedRestorePoints: complete are the points whose manifest is there and
\* could be read; without a new point the newest is the last folder of all.
Plan ==
    /\ run.stage = "prune"
    /\ \/ Ended(outcome) /\ UNCHANGED success
       \/ \E complete \in SUBSET {id \in folders : point[id][Manifest] # 0} :
             LET newest == IF run.id # 0 THEN run.id ELSE Max(folders \union {0})
             IN  Proceed([run EXCEPT !.stage = "delete", !.plan = Surplus(complete, newest)])
    /\ UNCHANGED <<world, runs, snapshot, drive, restarts>>

\* deleteFolderRecursive: the files in the order Drive lists them, then the folder; a
\* call that fails leaves the rest for the next time.
Delete ==
    /\ run.stage = "delete" /\ run.plan # {}
    /\ \E id \in {Min(run.plan)}, gone \in SUBSET Part, whole \in BOOLEAN :
          /\ point' = [point EXCEPT ![id] =
                          [k \in Part |-> IF whole \/ k \in gone THEN 0 ELSE @[k]]]
          /\ folders' = IF whole THEN folders \ {id} ELSE folders
          /\ doomed' = doomed \union {id}
          /\ Proceed([run EXCEPT !.plan = @ \ {id}])
    /\ UNCHANGED <<world, runs, snapshot, current, restarts>>

End ==
    /\ run.stage = "delete" /\ run.plan = {}
    /\ Ended(outcome) /\ UNCHANGED success
    /\ UNCHANGED <<world, runs, snapshot, drive, restarts>>

-----------------------------------------------------------------------------
(* The environment.                                                        *)

DataChanges ==
    /\ content' \in Content \ {content}
    /\ UNCHANGED <<source, runs, snapshot, drive, run, success, outcome, Lease, restarts>>

\* A restart, of the same deployment or another one, comes back with the saved state;
\* its owner name is new, so that a lease it finds there is another's.
Restart ==
    /\ restarts < MaxRestarts
    /\ restarts' = restarts + 1
    /\ source' \in Source
    /\ run' = Idle
    /\ lease' = IF savedLease THEN "foreign" ELSE "free"
    /\ UNCHANGED <<content, runs, snapshot, drive, success, outcome, savedLease>>

\* BACKUP_LEASE_TTL_MS after the run that took the lease.
LeaseExpires ==
    /\ lease = "foreign"
    /\ lease' = "free"
    /\ UNCHANGED <<world, runs, snapshot, drive, run, success, outcome, savedLease,
                   restarts>>

Step == Compare \/ Create \/ WritePoint \/ WriteCurrent \/ Verify \/ Plan \/ Delete \/ End
Next == Begin \/ Step \/ DataChanges \/ Restart \/ LeaseExpires

Spec == Init /\ [][Next]_vars

\* The calls of a run return (a timeout is an answer), and time passes.
Fairness ==
    /\ WF_vars(Step)
    /\ WF_vars(LeaseExpires)
FairSpec == Spec /\ Fairness

-----------------------------------------------------------------------------
(* Properties.                                                             *)

Complete(id) == point[id][Manifest] # 0

\* A recovery point that has its manifest has every file, all of one run, and keeps
\* them until retention deletes it: no failed write, no lost answer and no later run
\* leaves a point that looks complete and is not (drive-store.mjs, manifest last).
CompletePointsMatch ==
    \A id \in Id \ doomed :
        Complete(id) => \A k \in Part : point[id][k] = point[id][Manifest]

\* What a run reports as backed up can be restored from a point of its own until a later
\* run reports something else, whatever points retention is told to keep: no list that
\* cannot be read and no later run makes it the next id to write or the oldest to delete.
ReportedIsThere ==
    outcome = "backed_up" => \E id \in Id \ doomed : point[id][Manifest] = success

\* Once a backup has succeeded there is always a point to restore from that is as
\* late as that backup, whatever failed runs and retention did since (retention.mjs:
\* never the newest point, never an incomplete one in its place).  That is so when two
\* points or more are kept and the id that is taken for an unreadable list is protected,
\* as rp-002 is by default; with DR_RETENTION_KEEP=1 or without that id in
\* DR_RETENTION_PROTECTED_IDS a run that wrote nothing may delete the last good point.
SuccessStaysRecoverable ==
    Keep >= 2 /\ 1 \in Protected /\ success # 0
        => \E id \in Id \ doomed : point[id][Manifest] >= success

Leased == lease # "free"

\* The lease always comes back: a run that dies keeps backups out for its lifetime
\* and not for ever, and no way out of a run forgets it (runFullBackup, finally).
LeaseComesBack == Leased ~> ~Leased

\* The promise of backup.mjs that a run which reports success leaves in current/ the
\* files its manifest describes.  It does not hold: "no_change" compares manifests
\* only, and a promotion that failed between two files left the older manifest.
SuccessMeansIntact ==
    outcome \in {"backed_up", "no_change"} /\ run.stage = "idle"
        => Matches(current, current[Manifest])
=============================================================================
