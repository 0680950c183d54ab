---------------------------- MODULE CurrentMirror ---------------------------
(***************************************************************************)
(* The mirror of the source on Drive (runCurrentMirror).  Every version is *)
(* a folder of its own, v<N>; HEAD.json names the adopted one and is the   *)
(* only point of commitment.  A run stages v<N+1>, uploads every file,     *)
(* reads it back, writes the manifest, adopts the version and deletes the  *)
(* others.                                                                 *)
(*                                                                         *)
(* A call to Drive may fail, or take effect with its answer lost, a gate   *)
(* may turn a run away, and the process may stop between two calls.  All   *)
(* are faults and counted, so that the properties can say what happens     *)
(* once Drive answers and has room again.  A lock of the process keeps its *)
(* runs apart; two processes that overlap are left out.                    *)
(***************************************************************************)
EXTENDS Naturals

CONSTANTS
    Path,         \* paths of the mirror
    Tree,         \* trees of source: the content of each path, 0 where it has no file
    MaxVersion,   \* bound on version numbers
    MaxFaults,    \* bound on failed calls, runs turned away and stops of the process
    MaxChanges    \* bound on the deployments of another tree

Version == 1 .. MaxVersion
NoFiles == [p \in Path |-> 0]
Trees   == Tree \union {NoFiles}
NoHead  == [version |-> 0, tree |-> NoFiles, pending |-> FALSE]

Stage == {"idle", "upload", "verify", "manifest", "adopt", "list", "clean"}
Rest  == [stage |-> "idle", version |-> 0, doomed |-> {}, pending |-> FALSE,
          adopts |-> FALSE]

VARIABLES
    source,     \* the tree of the running process
    known,      \* driveMirror: the tree it last saw adopted
    run,        \* the run in progress; adopts: it has adopted a new version
    head,       \* HEAD.json
    dirs,       \* folders v<N>
    file,       \* the files in them
    manifest,   \* the tree that their manifest.json describes
    misread,    \* a run has taken an unreadable HEAD for none
    faults, changes

drive == <<head, dirs, file, manifest>>
vars  == <<source, known, run, drive, misread, faults, changes>>

TypeOK ==
    /\ source \in Tree /\ known \in Trees
    /\ run \in [stage : Stage, version : 0 .. MaxVersion, doomed : SUBSET Version,
                pending : BOOLEAN, adopts : BOOLEAN]
    /\ head \in [version : 0 .. MaxVersion, tree : Trees, pending : BOOLEAN]
    /\ dirs \subseteq Version
    /\ \A v \in Version : \A p \in Path : file[v][p] \in {0} \union {t[p] : t \in Tree}
    /\ manifest \in [Version -> Trees]
    /\ misread \in BOOLEAN
    /\ faults \in 0 .. MaxFaults
    /\ changes \in 0 .. MaxChanges

Init ==
    /\ source \in Tree /\ known = NoFiles
    /\ run = Rest
    /\ head = NoHead
    /\ dirs = {}
    /\ file = [v \in Version |-> NoFiles]
    /\ manifest = [v \in Version |-> NoFiles]
    /\ misread = FALSE
    /\ faults = 0 /\ changes = 0

Fault == faults < MaxFaults /\ faults' = faults + 1

\* What a call did: everything, everything but its answer is lost, or nothing.
Call == {"done", "unanswered", "failed"}
Counted(call) == IF call = "done" THEN UNCHANGED faults ELSE Fault

\* The run goes on after a call that was answered and gives up after any other.
GoesOn(call, stage) ==
    /\ run' = IF call = "done" THEN [run EXCEPT !.stage = stage] ELSE Rest
    /\ Counted(call)

-----------------------------------------------------------------------------
(* The run.                                                                *)

Paths(tree) == {p \in Path : tree[p] # 0}

\* The record of the process alone is asked.
UpToDateKnown(read) == read.version # 0 /\ known = source

\* The same tree in HEAD, and no difference from the files of driveMirror.
UpToDate(read) == read.version # 0 /\ read.tree = source /\ known = source

\* The scan for secrets, the folders of Drive or the space left turn the run away before it
\* writes anything.
Blocked ==
    /\ run = Rest /\ Fault
    /\ UNCHANGED <<source, known, run, drive, misread, changes>>

\* HEAD is read; one that cannot be read is taken for none.  Nothing to do, the rest
\* of an old cleaning to do, or the next version to build.
Start ==
    /\ run = Rest
    /\ \E read \in {head, NoHead} :
          /\ IF read = head THEN UNCHANGED <<faults, misread>>
                            ELSE Fault /\ misread' = TRUE
          /\ IF UpToDate(read)
             THEN /\ read.pending
                  /\ run' = [Rest EXCEPT !.stage = "list", !.version = read.version]
             ELSE /\ read.version < MaxVersion
                  /\ run' = [Rest EXCEPT !.stage = "upload", !.version = read.version + 1]
    /\ UNCHANGED <<source, known, drive, changes>>

\* upsertVersionFile for every path, several at a time: any of them may land before
\* one fails.  Files that the folder already has are overwritten or stay.
Upload ==
    /\ run.stage = "upload"
    /\ dirs' = dirs \union {run.version}
    /\ \E landed \in SUBSET Paths(source), call \in {"done", "failed"} :
          /\ call = "done" => landed = Paths(source)
          /\ file' = [file EXCEPT ![run.version] =
                         [p \in Path |-> IF p \in landed THEN source[p] ELSE @[p]]]
          /\ GoesOn(call, "verify")
    /\ UNCHANGED <<source, known, head, manifest, misread, changes>>

\* Holds(files, tree): every file of the tree is there with its content.
Holds(files, tree) == \A p \in Paths(tree) : files[p] = tree[p]

\* Every file that was uploaded is downloaded again and its hash compared.
Verify ==
    /\ run.stage = "verify"
    /\ \E call \in {"done", "failed"} :
          /\ call = "done" => Holds(file[run.version], source)
          /\ GoesOn(call, "manifest")
    /\ UNCHANGED <<source, known, drive, misread, changes>>

WriteManifest ==
    /\ run.stage = "manifest"
    /\ \E call \in Call :
          /\ manifest' = IF call = "failed" THEN manifest
                         ELSE [manifest EXCEPT ![run.version] = source]
          /\ GoesOn(call, "adopt")
    /\ UNCHANGED <<source, known, head, dirs, file, misread, changes>>

\* The only point of commitment.
Adopt ==
    /\ run.stage = "adopt"
    /\ \E call \in Call :
          /\ head' = IF call = "failed" THEN head
                     ELSE [version |-> run.version, tree |-> source, pending |-> FALSE]
          /\ run' = IF call = "done" THEN [run EXCEPT !.stage = "list", !.adopts = TRUE]
                                     ELSE Rest
          /\ Counted(call)
    /\ UNCHANGED <<source, known, dirs, file, manifest, misread, changes>>

\* The version to keep is not left out.
OthersAll == dirs

Others == dirs \ {run.version}

\* cleanupOldVersions: every version but the adopted one; a list that cannot be
\* read ends the cleaning with nothing pending.
List ==
    /\ run.stage = "list"
    /\ \E call \in {"done", "failed"} :
          /\ run' = [run EXCEPT !.stage = "clean",
                        !.doomed = IF call = "done" THEN Others ELSE {}]
          /\ Counted(call)
    /\ UNCHANGED <<source, known, drive, misread, changes>>

\* deleteVersionDir: file by file, then the folder; what fails is pending.
Delete(v) ==
    /\ run.stage = "clean" /\ v \in run.doomed
    /\ \A u \in run.doomed : v <= u
    /\ \E call \in Call, gone \in SUBSET Path, unread \in BOOLEAN :
          LET whole == call # "failed"
          IN  /\ file' = [file EXCEPT ![v] =
                             [p \in Path |-> IF whole \/ p \in gone THEN 0 ELSE @[p]]]
              /\ manifest' = IF whole \/ unread THEN [manifest EXCEPT ![v] = NoFiles]
                                                ELSE manifest
              /\ dirs' = IF whole THEN dirs \ {v} ELSE dirs
              /\ run' = [run EXCEPT !.doomed = @ \ {v},
                                    !.pending = @ \/ call # "done"]
              /\ Counted(call)
    /\ UNCHANGED <<source, known, head, misread, changes>>

\* HEAD is written again with what is pending, after an adoption only if something
\* is; a failure of this write is swallowed.
Finish ==
    /\ run.stage = "clean" /\ run.doomed = {}
    /\ IF run.adopts /\ ~run.pending
       THEN UNCHANGED <<head, faults>>
       ELSE \E call \in Call :
               /\ head' = IF call = "failed" THEN head
                          ELSE [version |-> run.version, tree |-> source,
                                pending |-> run.pending]
               /\ Counted(call)
    /\ known' = IF run.adopts THEN source ELSE known
    /\ run' = Rest
    /\ UNCHANGED <<source, dirs, file, manifest, misread, changes>>

-----------------------------------------------------------------------------
(* The environment.                                                        *)

\* The process stops at any point and comes back with the driveMirror that was
\* saved, which the latest may not have been.
Restarted ==
    /\ run' = Rest
    /\ known' \in {known, NoFiles}
    /\ UNCHANGED <<drive, misread>>

Crash  == Fault /\ Restarted /\ UNCHANGED <<source, changes>>
Deploy ==
    /\ changes < MaxChanges /\ changes' = changes + 1
    /\ source' \in Tree \ {source}
    /\ Restarted /\ UNCHANGED faults

Step == \/ Blocked \/ Start \/ Upload \/ Verify \/ WriteManifest \/ Adopt \/ List
        \/ \E v \in Version : Delete(v)
        \/ Finish
Next == Step \/ Crash \/ Deploy

Spec == Init /\ [][Next]_vars

\* Calls return, and the timers start a run again and again.
Fairness == WF_vars(Step)
FairSpec == Spec /\ Fairness

-----------------------------------------------------------------------------
(* Properties.                                                             *)

Intact == Holds(file[head.version], head.tree) /\ manifest[head.version] = head.tree

\* What HEAD names can be restored: the version has its manifest and every file with
\* the content of its tree, whatever failed in the run that adopted it and in every
\* later one, unless some run could not read HEAD (see AdoptedIntact).
IntactUnlessMisread == head.version # 0 /\ ~misread => Intact

CaughtUp == head.tree = source /\ (misread \/ Intact)

\* The mirror catches up with the source once Drive answers and no gate stays shut,
\* whatever half-built and half-deleted versions earlier failures left in its way.
CatchesUp == <>[]CaughtUp

\* The promise of current-mirror.mjs that an adopted version is never changed.  It
\* does not hold: a run that cannot read HEAD starts again at v1, in place.
AdoptedIntact == head.version # 0 => Intact
=============================================================================
