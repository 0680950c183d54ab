---------------------------- MODULE DriveProofs ----------------------------
(***************************************************************************)
(* Machine-checked theorems about what the server keeps on Drive, for      *)
(* every value of the constants: the schedule of the backups               *)
(* (BackupSchedule), the mirror of the source (CurrentMirror) and the      *)
(* recovery points with their retention (BackupRun).  One module for the   *)
(* three, each with an instance of its component; what belongs to one      *)
(* begins with the name of its instance.                                   *)
(***************************************************************************)
EXTENDS Naturals, FiniteSets, FiniteSetsExt, FiniteSetTheorems, WellFoundedInduction, TLAPS

CONSTANTS Interval, Retry, MaxDefer, Horizon, Path, Tree, MaxVersion, MaxFaults,
          MaxChanges, Source, Content, Keep, Protected, MaxRuns, MaxRestarts

VARIABLES up, runAge, successAge, result, inFlight, asked, excused, source, known, run,
          head, dirs, file, manifest, misread, faults, changes, content, runs, snapshot,
          folders, point, current, doomed, success, outcome, lease, savedLease, restarts

Schedule == INSTANCE BackupSchedule
Mirror == INSTANCE CurrentMirror
Backup == INSTANCE BackupRun

-----------------------------------------------------------------------------
(* The schedule of the backups (BackupSchedule).                           *)

\* The limit is positive and not shorter than the interval (24 h and 6 h in the code).
ScheduleParameters ==
    /\ Interval \in Nat /\ Retry \in Nat /\ MaxDefer \in Nat \ {0} /\ Horizon \in Nat
    /\ Interval <= MaxDefer

LEMMA ScheduleOlderType ==
    ASSUME ScheduleParameters, NEW age \in Schedule!Age
    PROVE  Schedule!Older(age) \in Schedule!Age
BY DEF ScheduleParameters, Schedule!Age, Schedule!Older

LEMMA ScheduleTypeInit == ASSUME ScheduleParameters, Schedule!Init PROVE Schedule!TypeOK
<1>1. Horizon \in Schedule!Age
  BY DEF ScheduleParameters, Schedule!Age
<1> QED BY <1>1, Zenon DEF Schedule!Init, Schedule!TypeOK

LEMMA ScheduleTypeStep ==
    ASSUME ScheduleParameters, Schedule!TypeOK, [Schedule!Next]_(Schedule!vars)
    PROVE  Schedule!TypeOK'
<1>1. CASE Schedule!Ask
  <2>1. inFlight' \in BOOLEAN
    <3>1. PICK pressure \in BOOLEAN : inFlight' = (inFlight \/ Schedule!Runs(TRUE, pressure))
      BY <1>1, Zenon DEF Schedule!Ask
    <3> QED BY <3>1
  <2> QED BY <1>1, <2>1 DEF Schedule!Ask, Schedule!TypeOK
<1>2. CASE Schedule!Request
  BY <1>2 DEF Schedule!Request, Schedule!TypeOK
<1>3. ASSUME NEW ok \in BOOLEAN, Schedule!Finish(ok) PROVE Schedule!TypeOK'
  <2>1. 0 \in Schedule!Age
    BY DEF Schedule!Age, ScheduleParameters
  <2>2. (~ok) \in BOOLEAN
    OBVIOUS
  <2>3. excused' \in BOOLEAN
    BY <1>3, <2>2, Zenon DEF Schedule!Finish
  <2> QED BY <1>3, <2>1, <2>3 DEF Schedule!Finish, Schedule!TypeOK
<1>4. CASE Schedule!Tick
  BY <1>4, ScheduleOlderType DEF Schedule!Tick, Schedule!TypeOK
<1>5. CASE Schedule!Stop
  BY <1>5 DEF Schedule!Stop, Schedule!TypeOK
<1>6. CASE Schedule!Boot
  BY <1>6 DEF Schedule!Boot, Schedule!TypeOK
<1>7. CASE UNCHANGED Schedule!vars
  BY <1>7 DEF Schedule!vars, Schedule!TypeOK
<1> QED BY <1>1, <1>2, <1>3, <1>4, <1>5, <1>6, <1>7 DEF Schedule!Next

\* The times of the runs and the record of the last one keep their types, through stops of
\* the process and runs that leave no record.
THEOREM ScheduleTypeCorrect ==
    ASSUME ScheduleParameters
    PROVE  Schedule!Spec => []Schedule!TypeOK
BY ScheduleTypeInit, ScheduleTypeStep, PTL DEF Schedule!Spec

-----------------------------------------------------------------------------
(* While nothing has failed since the last success, that success was the    *)
(* last run: the two ages are one, so the success that is too old is also a *)
(* run that is due, and at that age the guard is not heard.                 *)

ScheduleTogether ==
    /\ ~excused => runAge = successAge
    /\ ~up => ~asked

ScheduleInv == Schedule!TypeOK /\ ScheduleTogether /\ Schedule!StaleOnlyAfterFailure

\* A run that is due at an age no guard outweighs does begin.
LEMMA ScheduleDueRuns ==
    ASSUME ScheduleParameters, Schedule!TypeOK, ScheduleTogether, ~excused, successAge >= MaxDefer,
           NEW pressure \in BOOLEAN
    PROVE  Schedule!Runs(TRUE, pressure)
<1>1. runAge = successAge /\ successAge \in Nat
  BY DEF ScheduleTogether, Schedule!TypeOK, Schedule!Age
<1>2. runAge >= Interval
  BY <1>1 DEF ScheduleParameters
<1> QED BY <1>2 DEF Schedule!Runs, Schedule!Due

LEMMA ScheduleInit == ASSUME ScheduleParameters PROVE Schedule!Init => ScheduleInv
BY ScheduleTypeInit DEF Schedule!Init, ScheduleInv, ScheduleTogether,
   Schedule!StaleOnlyAfterFailure

LEMMA ScheduleStep ==
    ASSUME ScheduleParameters
    PROVE  ScheduleInv /\ [Schedule!Next]_(Schedule!vars) => ScheduleInv'
<1> SUFFICES ASSUME ScheduleInv, [Schedule!Next]_(Schedule!vars) PROVE ScheduleInv'
  OBVIOUS
<1>t. Schedule!TypeOK'
  BY ScheduleTypeStep DEF ScheduleInv
<1>1. CASE Schedule!Ask
  <2>1. PICK pressure \in BOOLEAN : inFlight' = (inFlight \/ Schedule!Runs(TRUE, pressure))
    BY <1>1, Zenon DEF Schedule!Ask
  <2>2. ScheduleTogether'
    BY <1>1 DEF Schedule!Ask, ScheduleInv, ScheduleTogether
  <2>3. ASSUME successAge >= MaxDefer, ~excused PROVE inFlight'
    BY <2>1, <2>3, ScheduleDueRuns DEF ScheduleInv
  <2> QED BY <1>1, <1>t, <2>2, <2>3 DEF Schedule!Ask, ScheduleInv,
             Schedule!StaleOnlyAfterFailure
<1>2. CASE Schedule!Request
  BY <1>2, <1>t DEF Schedule!Request, ScheduleInv, ScheduleTogether,
     Schedule!StaleOnlyAfterFailure
<1>3. ASSUME NEW ok \in BOOLEAN, Schedule!Finish(ok) PROVE ScheduleInv'
  <2>1. CASE ok
    <3>1. successAge' = 0 /\ runAge' = 0 /\ up' = up /\ asked' = asked
      BY <1>3, <2>1 DEF Schedule!Finish
    <3>2. ScheduleTogether'
      BY <3>1 DEF ScheduleInv, ScheduleTogether
    <3>3. Schedule!StaleOnlyAfterFailure'
      BY <3>1 DEF Schedule!StaleOnlyAfterFailure, ScheduleParameters
    <3> QED BY <1>t, <3>2, <3>3 DEF ScheduleInv
  <2>2. CASE ~ok
    BY <1>3, <1>t, <2>2 DEF Schedule!Finish, ScheduleInv, ScheduleTogether,
       Schedule!StaleOnlyAfterFailure
  <2> QED BY <2>1, <2>2
<1>4. CASE Schedule!Tick
  <2>1. ScheduleTogether'
    BY <1>4 DEF Schedule!Tick, ScheduleInv, ScheduleTogether
  <2> QED BY <1>4, <1>t, <2>1 DEF Schedule!Tick, ScheduleInv, Schedule!TypeOK,
             Schedule!StaleOnlyAfterFailure
<1>5. CASE Schedule!Stop
  BY <1>5, <1>t DEF Schedule!Stop, ScheduleInv, ScheduleTogether,
     Schedule!StaleOnlyAfterFailure
<1>6. CASE Schedule!Boot
  BY <1>6, <1>t DEF Schedule!Boot, ScheduleInv, ScheduleTogether,
     Schedule!StaleOnlyAfterFailure
<1>7. CASE UNCHANGED Schedule!vars
  BY <1>7, <1>t DEF Schedule!vars, ScheduleInv, ScheduleTogether,
     Schedule!StaleOnlyAfterFailure
<1> QED BY <1>1, <1>2, <1>3, <1>4, <1>5, <1>6, <1>7 DEF Schedule!Next

LEMMA ScheduleImplies ==
    ASSUME ScheduleParameters
    PROVE  ScheduleInv => Schedule!StaleOnlyAfterFailure
BY DEF ScheduleInv

\* A backup is older than the limit only while one runs, or after a run that failed or a
\* stop of the process: the guard and the early retries never add up to a gap.
THEOREM ScheduleNoSilentGap ==
    ASSUME ScheduleParameters
    PROVE  Schedule!Spec => []Schedule!StaleOnlyAfterFailure
BY ScheduleInit, ScheduleStep, ScheduleImplies, PTL DEF Schedule!Spec

-----------------------------------------------------------------------------
(* The mirror of the source (CurrentMirror).                               *)

MirrorParameters ==
    /\ MaxVersion \in Nat /\ MaxFaults \in Nat /\ MaxChanges \in Nat
    /\ Tree \subseteq [Path -> Nat]

MirrorFiles == file \in [Mirror!Version -> [Path -> Nat]]

\* As long as HEAD was never misread, a run works beside the adopted version until it
\* adopts, only what was verified gets a manifest, and the cleaning spares what HEAD names.
MirrorApart ==
    /\ run.stage # "idle" => run.version # 0
    /\ ~misread =>
          /\ run.stage \in {"upload", "verify", "manifest", "adopt"} =>
                run.version # head.version
          /\ run.stage \in {"manifest", "adopt"} => Mirror!Holds(file[run.version], source)
          /\ run.stage = "adopt" => manifest[run.version] = source
          /\ run.stage \in {"list", "clean"} =>
                run.version = head.version /\ head.tree = source
          /\ run.stage = "clean" => run.version \notin run.doomed

MirrorInv == Mirror!TypeOK /\ MirrorFiles /\ MirrorApart /\ Mirror!IntactUnlessMisread

MirrorRun == [stage : Mirror!Stage, version : 0 .. MaxVersion, doomed : SUBSET Mirror!Version,
              pending : BOOLEAN, adopts : BOOLEAN]
MirrorHead == [version : 0 .. MaxVersion, tree : Mirror!Trees, pending : BOOLEAN]
MirrorContents == {0} \union UNION {{t[p] : t \in Tree} : p \in Path}

LEMMA MirrorRestType == ASSUME MirrorParameters PROVE Mirror!Rest \in MirrorRun
BY DEF MirrorParameters, Mirror!Rest, MirrorRun, Mirror!Stage

LEMMA MirrorInit == ASSUME MirrorParameters PROVE Mirror!Init => MirrorInv
<1> SUFFICES ASSUME Mirror!Init PROVE MirrorInv
  OBVIOUS
<1>1. Mirror!NoFiles \in [Path -> Nat] /\ \A p \in Path : Mirror!NoFiles[p] = 0
  BY DEF Mirror!NoFiles
<1>2. Mirror!NoHead \in MirrorHead
  BY DEF MirrorParameters, Mirror!NoHead, MirrorHead, Mirror!Trees
<1>3. Mirror!TypeOK
  <2>1. Mirror!NoFiles \in Mirror!Trees
    BY DEF Mirror!Trees
  <2>2. faults \in 0 .. MaxFaults /\ changes \in 0 .. MaxChanges /\ misread = FALSE
    BY DEF MirrorParameters, Mirror!Init
  <2>3. manifest \in [Mirror!Version -> Mirror!Trees]
    BY <2>1 DEF Mirror!Init
  <2>4. \A v \in Mirror!Version : \A p \in Path : file[v][p] = 0
    BY <1>1 DEF Mirror!Init
  <2> QED BY <1>2, <2>1, <2>2, <2>3, <2>4, MirrorRestType
          DEF Mirror!Init, Mirror!TypeOK, MirrorRun, MirrorHead
<1>4. MirrorFiles
  BY <1>1 DEF Mirror!Init, MirrorFiles
<1>5. MirrorApart /\ Mirror!IntactUnlessMisread
  BY DEF Mirror!Init, MirrorApart, Mirror!IntactUnlessMisread, Mirror!Rest, Mirror!NoHead
<1> QED BY <1>3, <1>4, <1>5 DEF MirrorInv

LEMMA MirrorStep ==
    ASSUME MirrorParameters PROVE MirrorInv /\ [Mirror!Next]_(Mirror!vars) => MirrorInv'
<1> SUFFICES ASSUME MirrorInv, [Mirror!Next]_(Mirror!vars) PROVE MirrorInv'
  OBVIOUS
<1> USE MirrorParameters
<1> DEFINE Contents == \A v \in Mirror!Version : \A p \in Path :
                          file[v][p] \in {0} \union {t[p] : t \in Tree}
<1>t. /\ source \in Tree /\ known \in Mirror!Trees /\ run \in MirrorRun /\ head \in MirrorHead
      /\ dirs \subseteq Mirror!Version /\ manifest \in [Mirror!Version -> Mirror!Trees]
      /\ misread \in BOOLEAN /\ faults \in 0 .. MaxFaults /\ changes \in 0 .. MaxChanges
      /\ Contents /\ MirrorFiles /\ MirrorApart /\ Mirror!IntactUnlessMisread
  BY DEF MirrorInv, Mirror!TypeOK, MirrorRun, MirrorHead
<1>u. /\ source' \in Tree /\ known' \in Mirror!Trees /\ run' \in MirrorRun /\ head' \in MirrorHead
      /\ dirs' \subseteq Mirror!Version /\ manifest' \in [Mirror!Version -> Mirror!Trees]
      /\ misread' \in BOOLEAN /\ faults' \in 0 .. MaxFaults /\ changes' \in 0 .. MaxChanges
      /\ Contents' /\ MirrorFiles' /\ MirrorApart' /\ Mirror!IntactUnlessMisread'
      => MirrorInv'
  BY DEF MirrorInv, Mirror!TypeOK, MirrorRun, MirrorHead
<1>f. ASSUME NEW call, Mirror!Counted(call) PROVE faults' \in 0 .. MaxFaults
  BY <1>f, <1>t DEF Mirror!Counted, Mirror!Fault, MirrorParameters
<1>s. source \in [Path -> Nat] /\ source \in Mirror!Trees
  BY <1>t DEF MirrorParameters, Mirror!Trees
<1>v. run.stage # "idle" => run.version \in Mirror!Version
  BY <1>t DEF MirrorRun, MirrorApart, Mirror!Version, MirrorParameters
<1>r. run \in MirrorRun /\ run.stage \in Mirror!Stage
  BY <1>t DEF MirrorRun
\* A run that gives up is at rest.
<1>g. ASSUME NEW call, NEW stage \in Mirror!Stage, Mirror!GoesOn(call, stage)
      PROVE  /\ run' \in MirrorRun /\ faults' \in 0 .. MaxFaults
             /\ \/ run'.stage = "idle"
                \/ /\ call = "done" /\ run'.stage = stage
                   /\ run'.version = run.version /\ run'.doomed = run.doomed
  <2>1. CASE call = "done"
    BY <2>1, <1>g, <1>f, <1>r DEF Mirror!GoesOn, MirrorRun
  <2>2. CASE call # "done"
    BY <2>2, <1>g, <1>f, MirrorRestType DEF Mirror!GoesOn, Mirror!Rest
  <2> QED BY <2>1, <2>2
<1>1. CASE Mirror!Start
  <2>1. PICK read \in {head, Mirror!NoHead} :
          /\ IF read = head THEN UNCHANGED <<faults, misread>>
                            ELSE Mirror!Fault /\ misread' = TRUE
          /\ IF Mirror!UpToDate(read)
             THEN /\ read.pending
                  /\ run' = [Mirror!Rest EXCEPT !.stage = "list", !.version = read.version]
             ELSE /\ read.version < MaxVersion
                  /\ run' = [Mirror!Rest EXCEPT !.stage = "upload", !.version = read.version + 1]
    BY <1>1 DEF Mirror!Start
  <2>2. UNCHANGED <<source, known, head, dirs, file, manifest, changes>>
    BY <1>1 DEF Mirror!Start, Mirror!drive
  <2>3. faults' \in 0 .. MaxFaults /\ misread' \in BOOLEAN /\ (~misread' => read = head /\ ~misread)
    <3>1. CASE read = head
      BY <2>1, <3>1, <1>t
    <3>2. CASE read # head
      BY <2>1, <3>2, <1>t DEF Mirror!Fault, MirrorParameters
    <3> QED BY <3>1, <3>2
  <2>4. read.version \in 0 .. MaxVersion
    BY <1>t, <2>1 DEF MirrorHead, Mirror!NoHead, MirrorParameters
  <2>5. CASE Mirror!UpToDate(read)
    <3>1. /\ run' = [Mirror!Rest EXCEPT !.stage = "list", !.version = read.version]
          /\ read.version # 0 /\ read.tree = source
      BY <2>1, <2>5 DEF Mirror!UpToDate
    <3>2. run' \in MirrorRun /\ run'.stage = "list" /\ run'.version = read.version
      BY <3>1, <2>4 DEF Mirror!Rest, MirrorRun, Mirror!Stage
    <3>3. MirrorApart' /\ Mirror!IntactUnlessMisread'
      BY <3>1, <3>2, <2>2, <2>3, <1>t DEF MirrorApart, Mirror!IntactUnlessMisread,
         Mirror!Intact
    <3> QED BY <3>2, <3>3, <2>2, <2>3, <1>t, <1>u DEF MirrorFiles
  <2>6. CASE ~Mirror!UpToDate(read)
    <3>1. /\ run' = [Mirror!Rest EXCEPT !.stage = "upload", !.version = read.version + 1]
          /\ read.version < MaxVersion
      BY <2>1, <2>6
    <3>2. run' \in MirrorRun /\ run'.stage = "upload" /\ run'.version = read.version + 1
      <4>1. read.version + 1 \in 0 .. MaxVersion
        BY <3>1, <2>4 DEF MirrorParameters
      <4> QED BY <3>1, <4>1 DEF Mirror!Rest, MirrorRun, Mirror!Stage
    <3>3. MirrorApart' /\ Mirror!IntactUnlessMisread'
      BY <3>1, <3>2, <2>2, <2>3, <2>4, <1>t
         DEF MirrorApart, Mirror!IntactUnlessMisread, Mirror!Intact
    <3> QED BY <3>2, <3>3, <2>2, <2>3, <1>t, <1>u DEF MirrorFiles
  <2> QED BY <2>5, <2>6
<1>2. CASE Mirror!Upload
  <2>1. PICK landed \in SUBSET Mirror!Paths(source), call \in {"done", "failed"} :
          /\ file' = [file EXCEPT ![run.version] =
                         [p \in Path |-> IF p \in landed THEN source[p] ELSE @[p]]]
          /\ Mirror!GoesOn(call, "verify")
    BY <1>2 DEF Mirror!Upload
  <2>2. /\ run.stage = "upload" /\ dirs' = dirs \union {run.version}
        /\ UNCHANGED <<source, known, head, manifest, misread, changes>>
    BY <1>2 DEF Mirror!Upload
  <2>3. /\ run' \in MirrorRun /\ faults' \in 0 .. MaxFaults
        /\ run'.stage # "idle" => run'.stage = "verify" /\ run'.version = run.version
    BY <2>1, <1>g DEF Mirror!Stage
  <2>4. dirs' \subseteq Mirror!Version
    BY <2>2, <1>v, <1>t
  <2>5. /\ MirrorFiles' /\ Contents'
        /\ \A v \in Mirror!Version : v # run.version => file'[v] = file[v]
    BY <2>1, <1>t, <1>s, <1>v, <2>2 DEF MirrorFiles
  <2>6. MirrorApart'
    BY <2>2, <2>3, <1>t DEF MirrorApart
  <2>7. Mirror!IntactUnlessMisread'
    BY <2>2, <2>5, <1>t DEF MirrorApart, MirrorHead, Mirror!IntactUnlessMisread,
       Mirror!Intact,
                            Mirror!Version, MirrorParameters
  <2> QED BY <2>2, <2>3, <2>4, <2>5, <2>6, <2>7, <1>t, <1>u
<1>3. CASE Mirror!Verify
  <2>1. PICK call \in {"done", "failed"} :
          /\ call = "done" => Mirror!Holds(file[run.version], source)
          /\ Mirror!GoesOn(call, "manifest")
    BY <1>3 DEF Mirror!Verify
  <2>2. /\ run.stage = "verify"
        /\ UNCHANGED <<source, known, head, dirs, file, manifest, misread, changes>>
    BY <1>3 DEF Mirror!Verify, Mirror!drive
  <2>3. /\ run' \in MirrorRun /\ faults' \in 0 .. MaxFaults
        /\ run'.stage # "idle" =>
              call = "done" /\ run'.stage = "manifest" /\ run'.version = run.version
    BY <2>1, <1>g DEF Mirror!Stage
  <2>4. MirrorApart'
    BY <2>1, <2>2, <2>3, <1>t DEF MirrorApart, Mirror!Holds
  <2> QED BY <2>2, <2>3, <2>4, <1>t, <1>u
          DEF MirrorFiles, Mirror!IntactUnlessMisread, Mirror!Intact, Mirror!Holds
<1>4. CASE Mirror!WriteManifest
  <2>1. PICK call \in Mirror!Call :
          /\ manifest' = IF call = "failed" THEN manifest
                         ELSE [manifest EXCEPT ![run.version] = source]
          /\ Mirror!GoesOn(call, "adopt")
    BY <1>4 DEF Mirror!WriteManifest
  <2>2. /\ run.stage = "manifest"
        /\ UNCHANGED <<source, known, head, dirs, file, misread, changes>>
    BY <1>4 DEF Mirror!WriteManifest
  <2>3. /\ run' \in MirrorRun /\ faults' \in 0 .. MaxFaults
        /\ run'.stage # "idle" =>
              call = "done" /\ run'.stage = "adopt" /\ run'.version = run.version
    BY <2>1, <1>g DEF Mirror!Stage
  <2>4. /\ manifest' \in [Mirror!Version -> Mirror!Trees]
        /\ \A v \in Mirror!Version : v # run.version => manifest'[v] = manifest[v]
        /\ call = "done" => manifest'[run.version] = source
    BY <2>1, <2>2, <1>t, <1>s, <1>v
  <2>5. MirrorApart'
    BY <2>2, <2>3, <2>4, <1>t DEF MirrorApart, Mirror!Holds
  <2>6. Mirror!IntactUnlessMisread'
    BY <2>2, <2>4, <1>t DEF MirrorApart, MirrorHead, Mirror!IntactUnlessMisread,
       Mirror!Intact,
                            Mirror!Holds, Mirror!Version, MirrorParameters
  <2> QED BY <2>2, <2>3, <2>4, <2>5, <2>6, <1>t, <1>u DEF MirrorFiles
<1>5. CASE Mirror!Adopt
  <2>1. PICK call \in Mirror!Call :
          /\ head' = IF call = "failed" THEN head
                     ELSE [version |-> run.version, tree |-> source, pending |-> FALSE]
          /\ run' = IF call = "done" THEN [run EXCEPT !.stage = "list", !.adopts = TRUE]
                                     ELSE Mirror!Rest
          /\ Mirror!Counted(call)
    BY <1>5 DEF Mirror!Adopt
  <2>2. /\ run.stage = "adopt"
        /\ UNCHANGED <<source, known, dirs, file, manifest, misread, changes>>
    BY <1>5 DEF Mirror!Adopt
  <2>3. head' \in MirrorHead /\ faults' \in 0 .. MaxFaults
    BY <2>1, <1>t, <1>s, <1>f DEF MirrorHead, MirrorRun
  <2>4. run' \in MirrorRun
        /\ (run'.stage # "idle" =>
              call = "done" /\ run'.stage = "list" /\ run'.version = run.version)
    <3>1. CASE call = "done"
      BY <2>1, <3>1, <1>r DEF MirrorRun, Mirror!Stage
    <3>2. CASE call # "done"
      BY <2>1, <3>2, MirrorRestType DEF Mirror!Rest
    <3> QED BY <3>1, <3>2
  <2>5. MirrorApart'
    BY <2>1, <2>2, <2>4, <1>t DEF MirrorApart
  <2>6. Mirror!IntactUnlessMisread'
    BY <2>1, <2>2, <1>t DEF MirrorApart, Mirror!IntactUnlessMisread, Mirror!Intact,
       Mirror!Holds,
                            Mirror!Paths
  <2> QED BY <2>2, <2>3, <2>4, <2>5, <2>6, <1>t, <1>u DEF MirrorFiles
<1>6. CASE Mirror!List
  <2>1. PICK call \in {"done", "failed"} :
          /\ run' = [run EXCEPT !.stage = "clean",
                        !.doomed = IF call = "done" THEN Mirror!Others ELSE {}]
          /\ Mirror!Counted(call)
    BY <1>6 DEF Mirror!List
  <2>2. /\ run.stage = "list"
        /\ UNCHANGED <<source, known, head, dirs, file, manifest, misread, changes>>
    BY <1>6 DEF Mirror!List, Mirror!drive
  <2>3. /\ run' \in MirrorRun /\ run'.stage = "clean" /\ run'.version = run.version
        /\ run.version \notin run'.doomed
    BY <2>1, <1>t DEF MirrorRun, Mirror!Stage, Mirror!Others
  <2>4. MirrorApart'
    BY <2>2, <2>3, <1>t DEF MirrorApart
  <2> QED BY <2>1, <2>2, <2>3, <2>4, <1>f, <1>t, <1>u
          DEF MirrorFiles, Mirror!IntactUnlessMisread, Mirror!Intact, Mirror!Holds
<1>7. ASSUME NEW v \in Mirror!Version, Mirror!Delete(v) PROVE MirrorInv'
  <2>0. PICK call \in Mirror!Call, gone \in SUBSET Path, unread \in BOOLEAN :
          /\ file' = [file EXCEPT ![v] =
                         [p \in Path |-> IF call # "failed" \/ p \in gone THEN 0 ELSE @[p]]]
          /\ manifest' = IF call # "failed" \/ unread
                         THEN [manifest EXCEPT ![v] = Mirror!NoFiles] ELSE manifest
          /\ dirs' = IF call # "failed" THEN dirs \ {v} ELSE dirs
          /\ run' = [run EXCEPT !.doomed = @ \ {v}, !.pending = @ \/ call # "done"]
          /\ Mirror!Counted(call)
    BY <1>7 DEF Mirror!Delete
  <2>1. /\ run.stage = "clean" /\ v \in run.doomed
        /\ UNCHANGED <<source, known, head, misread, changes>>
    BY <1>7 DEF Mirror!Delete
  <2>2. MirrorFiles' /\ Contents' /\ \A u \in Mirror!Version : u # v => file'[u] = file[u]
    BY <2>0, <1>t DEF MirrorFiles
  <2>3. /\ manifest' \in [Mirror!Version -> Mirror!Trees]
        /\ \A u \in Mirror!Version : u # v => manifest'[u] = manifest[u]
        /\ dirs' \subseteq Mirror!Version
    BY <2>0, <1>t DEF Mirror!Trees
  <2>4. /\ run' \in MirrorRun /\ run'.stage = "clean" /\ run'.version = run.version
        /\ run'.doomed \subseteq run.doomed
    BY <2>0, <2>1, <1>t DEF MirrorRun
  <2>5. MirrorApart'
    BY <2>1, <2>4, <1>t DEF MirrorApart
  <2>6. Mirror!IntactUnlessMisread'
    BY <2>1, <2>2, <2>3, <1>t DEF MirrorApart, MirrorHead, Mirror!IntactUnlessMisread,
                                  Mirror!Intact, Mirror!Version, MirrorParameters
  <2> QED BY <2>0, <2>1, <2>2, <2>3, <2>4, <2>5, <2>6, <1>f, <1>t, <1>u
<1>8. CASE Mirror!Finish
  <2>1. /\ run.stage = "clean" /\ run' = Mirror!Rest
        /\ known' = IF run.adopts THEN source ELSE known
        /\ UNCHANGED <<source, dirs, file, manifest, misread, changes>>
    BY <1>8 DEF Mirror!Finish
  <2>2. /\ faults' \in 0 .. MaxFaults
        /\ \/ head' = head
           \/ head' = [version |-> run.version, tree |-> source, pending |-> run.pending]
    BY <1>8, <1>f, <1>t DEF Mirror!Finish
  <2>3. head' \in MirrorHead
    BY <2>2, <1>t, <1>s DEF MirrorHead, MirrorRun
  <2>4. run' \in MirrorRun /\ MirrorApart' /\ known' \in Mirror!Trees
    BY <2>1, MirrorRestType, <1>t, <1>s DEF MirrorApart, Mirror!Rest
  <2>5. Mirror!IntactUnlessMisread'
    BY <2>1, <2>2, <1>t DEF MirrorApart, Mirror!IntactUnlessMisread, Mirror!Intact
  <2> QED BY <2>1, <2>2, <2>3, <2>4, <2>5, <1>t, <1>u DEF MirrorFiles
<1>9. ASSUME Mirror!Restarted, source' \in Tree, faults' \in 0 .. MaxFaults,
             changes' \in 0 .. MaxChanges
      PROVE  MirrorInv'
  <2>1. /\ run' = Mirror!Rest /\ UNCHANGED <<head, dirs, file, manifest, misread>>
        /\ known' \in {known, Mirror!NoFiles}
    BY <1>9 DEF Mirror!Restarted, Mirror!drive
  <2>2. run' \in MirrorRun /\ MirrorApart' /\ known' \in Mirror!Trees
    BY <2>1, MirrorRestType, <1>t DEF MirrorApart, Mirror!Rest, Mirror!Trees
  <2> QED BY <1>9, <2>1, <2>2, <1>t, <1>u
          DEF MirrorFiles, Mirror!IntactUnlessMisread, Mirror!Intact, Mirror!Holds
<1>13. CASE Mirror!Blocked
  BY <1>13, <1>t, <1>u DEF Mirror!Blocked, Mirror!Fault, Mirror!drive, MirrorFiles, MirrorApart,
     Mirror!IntactUnlessMisread, Mirror!Intact, Mirror!Holds, MirrorParameters
<1>10. CASE Mirror!Crash
  BY <1>9, <1>10, <1>t DEF Mirror!Crash, Mirror!Fault, MirrorParameters
<1>11. CASE Mirror!Deploy
  BY <1>9, <1>11, <1>t DEF Mirror!Deploy, MirrorParameters
<1>12. CASE UNCHANGED Mirror!vars
  BY <1>12, <1>t, <1>u DEF Mirror!vars, Mirror!drive, MirrorFiles, MirrorApart,
                           Mirror!IntactUnlessMisread, Mirror!Intact, Mirror!Holds
<1> QED
  BY <1>1, <1>2, <1>3, <1>4, <1>5, <1>6, <1>7, <1>8, <1>10, <1>11, <1>12, <1>13
     DEF Mirror!Next, Mirror!Step

\* The version HEAD names keeps every file of the source it was made of, through uploads that
\* fail, crashes between any two calls to Drive and cleanings, unless HEAD was misread.
THEOREM MirrorStaysIntact ==
    ASSUME MirrorParameters
    PROVE  Mirror!Spec => [](Mirror!TypeOK /\ Mirror!IntactUnlessMisread)
BY MirrorInit, MirrorStep, PTL DEF Mirror!Spec, MirrorInv

-----------------------------------------------------------------------------
(* The recovery points (BackupRun).                                        *)

\* At least two points are kept, and the first id is protected (rp-002 is both the first
\* automatic id and among DEFAULT_PROTECTED_IDS).
BackupParameters == MaxRuns \in Nat /\ MaxRestarts \in Nat /\ Keep \in Nat \ {0}

\* What SuccessStaysRecoverable asks of the settings of retention.
BackupKeeps == Keep >= 2 /\ 1 \in Protected

BackupWriting == run.stage = "point" /\ run.id # 0

\* Folders: what was never created or is deleted is empty, and a protected first one is
\* never deleted.
BackupFolders ==
    /\ \A id \in Backup!Id \ folders : point[id] = Backup!Empty
    /\ BackupKeeps => (folders # {} => 1 \in folders)
    /\ doomed \union run.plan \subseteq Backup!Id \ Protected
    /\ run.stage # "delete" => run.plan = {}

\* The point of the run in progress: it is the latest folder, if the first is never
\* deleted, and written in order.
BackupOwn ==
    /\ run.stage # "idle" => runs # 0
    /\ BackupWriting =>
          /\ run.id \in folders \ doomed
          /\ BackupKeeps => \A id \in folders : id <= run.id
          /\ \A k \in Backup!Part :
                point[run.id][k] = IF k < run.part THEN runs ELSE 0
    /\ run.stage \in {"current", "written"} =>
          run.id \in Backup!Id \ doomed /\ point[run.id][4] = runs

\* Later points are of later runs.
BackupOrder ==
    /\ \A id \in Backup!Id : point[id][4] <= runs
    /\ run.stage \in {"begun", "point"} =>
          \A id \in Backup!Id : id # run.id => point[id][4] < runs
    /\ run.stage \in {"begun", "point"} /\ ~BackupWriting =>
          run.id = 0 /\ run.part = 1
    /\ BackupKeeps =>
          \A i, j \in Backup!Id :
             i < j /\ Backup!Complete(i) /\ Backup!Complete(j) => point[i][4] < point[j][4]

\* Above everything that retention deletes there is a complete point that it keeps.
BackupTop ==
    BackupKeeps /\ doomed \union run.plan # {} =>
       \E x \in Backup!Id \ doomed :
          Backup!Complete(x) /\ \A d \in doomed \union run.plan : d < x

\* The point of a run that was reported is not among those to delete.
BackupMade ==
    outcome = "backed_up" =>
       \E id \in Backup!Id \ doomed :
          /\ success # 0 /\ point[id][4] = success
          /\ id \notin run.plan
          /\ run.stage = "prune" => run.id = id

BackupInv ==
    /\ Backup!TypeOK /\ BackupFolders /\ BackupOwn /\ BackupOrder /\ BackupTop /\ BackupMade
    /\ Backup!CompletePointsMatch /\ Backup!SuccessStaysRecoverable

LEMMA Least ==
    ASSUME NEW S, S \subseteq Nat, S # {}
    PROVE  \E x \in S : \A y \in S : x <= y
<1>1. PICK x \in S : \A y \in S : <<y, x>> \notin OpToRel(<, Nat)
  <2>1. IsWellFoundedOn(OpToRel(<, Nat), Nat)
    BY NatLessThanWellFounded
  <2> HIDE DEF OpToRel
  <2> QED BY <2>1, WFMin
<1>2. \A y \in S : ~(y < x)
  BY <1>1 DEF OpToRel
<1> QED BY <1>2

LEMMA Greatest ==
    ASSUME NEW b \in Nat, NEW S, S \subseteq 0 .. b, S # {}
    PROVE  \E x \in S : \A y \in S : y <= x
<1> DEFINE T == {b - y : y \in S}
<1>1. T \subseteq Nat /\ T # {}
  <2>1. \A y \in S : y \in 0 .. b
    OBVIOUS
  <2>2. \A y \in S : b - y \in Nat
    BY <2>1
  <2> QED BY <2>2
<1>2. PICK t \in T : \A u \in T : t <= u
  <2> HIDE DEF T
  <2> QED BY <1>1, Least
<1>3. PICK x \in S : t = b - x
  OBVIOUS
<1>4. \A y \in S : b - x <= b - y
  BY <1>2, <1>3
<1>5. ASSUME NEW y \in S PROVE y <= x
  <2>1. x \in 0 .. b /\ y \in 0 .. b /\ b - x <= b - y
    BY <1>4
  <2> QED BY <2>1
<1> QED BY <1>5

LEMMA BackupMax ==
    ASSUME NEW b \in Nat, NEW S, S \subseteq 0 .. b, S # {}
    PROVE  Backup!Max(S) \in S /\ \A y \in S : y <= Backup!Max(S)
BY Greatest DEF Backup!Max

LEMMA BackupMin ==
    ASSUME NEW S, S \subseteq Nat, S # {}
    PROVE  Backup!Min(S) \in S
BY Least DEF Backup!Min

LEMMA BackupCardinality == ASSUME NEW S PROVE Backup!Cardinality(S) = Cardinality(S)
BY DEF Cardinality, IsFiniteSet, Backup!Cardinality, Backup!IsFiniteSet

\* Retention keeps the latest of the points it looks at, and what it deletes is earlier.
LEMMA BackupSurplus ==
    ASSUME BackupParameters, NEW complete \in SUBSET Backup!Id, NEW newest
    PROVE  /\ Backup!Surplus(complete, newest) \subseteq complete \ (Protected \union {newest})
           /\ BackupKeeps /\ Backup!Surplus(complete, newest) # {} =>
                 \E c \in complete : \A d \in Backup!Surplus(complete, newest) : d < c
<1> DEFINE candidates == complete \ (Protected \union {newest})
           S == Backup!Surplus(complete, newest)
<1>1. S = {id \in candidates :
              Cardinality({later \in candidates : later > id}) >= Keep - 1}
  BY BackupCardinality DEF Backup!Surplus
<1>2. ASSUME BackupKeeps, S # {} PROVE \E c \in complete : \A d \in S : d < c
  <2>1. candidates # {} /\ candidates \subseteq 0 .. MaxRuns
    <3>1. candidates # {}
      BY <1>1, <1>2
    <3>2. complete \subseteq 0 .. MaxRuns
      BY DEF Backup!Id, BackupParameters
    <3> QED BY <3>1, <3>2
  <2> HIDE DEF candidates
  <2>2. PICK c \in candidates : \A d \in candidates : d <= c
    BY <2>1, Greatest DEF BackupParameters
  <2>3. {later \in candidates : later > c} = {}
    <3>1. ASSUME NEW later \in candidates PROVE ~(later > c)
      <4>1. later <= c /\ later \in 0 .. MaxRuns /\ c \in 0 .. MaxRuns
        BY <2>1, <2>2
      <4> QED BY <4>1 DEF BackupParameters
    <3> QED BY <3>1
  <2>4. c \notin S
    BY <1>1, <1>2, <2>3, FS_EmptySet DEF BackupParameters, BackupKeeps
  <2>5. c \in complete
    BY DEF candidates
  <2>6. ASSUME NEW d \in S PROVE d < c
    <3>1. d \in candidates /\ d # c
      BY <1>1, <2>4
    <3>2. d \in 0 .. MaxRuns /\ c \in 0 .. MaxRuns /\ d <= c
      BY <2>1, <2>2, <3>1
    <3> QED BY <3>1, <3>2 DEF BackupParameters
  <2> QED BY <2>5, <2>6
<1> QED BY <1>1, <1>2

BackupRunType == [stage : Backup!Stage, id : 0 .. MaxRuns, part : Backup!Part,
                  plan : SUBSET Backup!Id]

LEMMA BackupIdle ==
    ASSUME BackupParameters
    PROVE  /\ Backup!Idle \in BackupRunType
           /\ Backup!Idle.stage = "idle" /\ Backup!Idle.plan = {}
BY DEF BackupParameters, Backup!Idle, BackupRunType, Backup!Stage, Backup!Part

LEMMA BackupInit == ASSUME BackupParameters PROVE Backup!Init => BackupInv
<1> SUFFICES ASSUME Backup!Init PROVE BackupInv
  OBVIOUS
<1>1. Backup!Empty \in Backup!Folder /\ \A k \in Backup!Part : Backup!Empty[k] = 0
  BY DEF BackupParameters, Backup!Empty, Backup!Folder
<1>2. /\ runs = 0 /\ success = 0 /\ folders = {} /\ doomed = {} /\ current = Backup!Empty
      /\ run = Backup!Idle /\ point = [id \in Backup!Id |-> Backup!Empty]
  BY DEF Backup!Init
<1>3. snapshot \in [Backup!Runs -> Source \X Content]
  BY DEF Backup!Init
<1>4. Backup!TypeOK
  <2>1. runs \in 0 .. MaxRuns /\ success \in 0 .. MaxRuns /\ restarts \in 0 .. MaxRestarts
    BY DEF Backup!Init, BackupParameters
  <2> QED BY <1>1, <1>2, <1>3, <2>1, BackupIdle
          DEF Backup!Init, Backup!TypeOK, BackupRunType
<1>5. \A id \in Backup!Id : point[id] = Backup!Empty /\ point[id][4] = 0
  BY <1>1, <1>2 DEF Backup!Part
<1>6. run.stage = "idle" /\ run.plan = {}
  BY <1>2, BackupIdle
<1>7. BackupFolders /\ BackupOwn /\ BackupTop /\ BackupMade
  BY <1>2, <1>5, <1>6 DEF BackupFolders, BackupOwn, BackupTop, BackupMade, BackupWriting,
                          Backup!Init
<1>8. BackupOrder /\ Backup!CompletePointsMatch /\ Backup!SuccessStaysRecoverable
  BY <1>2, <1>5, <1>6 DEF BackupOrder, Backup!CompletePointsMatch, Backup!Complete,
                          Backup!SuccessStaysRecoverable, Backup!Manifest
<1> QED BY <1>4, <1>7, <1>8 DEF BackupInv

LEMMA BackupStep ==
    ASSUME BackupParameters PROVE BackupInv /\ [Backup!Next]_(Backup!vars) => BackupInv'
<1> SUFFICES ASSUME BackupInv, [Backup!Next]_(Backup!vars) PROVE BackupInv'
  OBVIOUS
<1> USE BackupParameters DEF Backup!Manifest, Backup!Complete
<1> DEFINE World == source \in Source /\ content \in Content /\ current \in Backup!Folder
           Lease == lease \in {"free", "own", "foreign"} /\ savedLease \in BOOLEAN
           Outcome == outcome \in {"none", "failed", "backed_up", "no_change"}
           Rest == /\ BackupFolders /\ BackupOwn /\ BackupOrder /\ BackupTop /\ BackupMade
                   /\ Backup!CompletePointsMatch /\ Backup!SuccessStaysRecoverable
<1>t. /\ World /\ Lease /\ Outcome /\ Rest
      /\ runs \in 0 .. MaxRuns /\ snapshot \in [Backup!Runs -> Source \X Content]
      /\ folders \subseteq Backup!Id /\ point \in [Backup!Id -> Backup!Folder]
      /\ doomed \subseteq Backup!Id /\ run \in BackupRunType
      /\ success \in 0 .. MaxRuns /\ restarts \in 0 .. MaxRestarts
  BY DEF BackupInv, Backup!TypeOK, BackupRunType
<1>u. /\ World' /\ Lease' /\ Outcome' /\ Rest'
      /\ runs' \in 0 .. MaxRuns /\ snapshot' \in [Backup!Runs -> Source \X Content]
      /\ folders' \subseteq Backup!Id /\ point' \in [Backup!Id -> Backup!Folder]
      /\ doomed' \subseteq Backup!Id /\ run' \in BackupRunType
      /\ success' \in 0 .. MaxRuns /\ restarts' \in 0 .. MaxRestarts
      => BackupInv'
  BY DEF BackupInv, Backup!TypeOK, BackupRunType
<1>n. /\ runs \in Nat /\ success \in Nat /\ run.part \in 1 .. 4 /\ run.id \in 0 .. MaxRuns
      /\ run.stage \in Backup!Stage /\ run.plan \subseteq Backup!Id
      /\ \A id \in Backup!Id : point[id] \in [Backup!Part -> 0 .. MaxRuns] /\ point[id][4] \in Nat
      /\ \A id \in Backup!Id : id \in Nat
  BY <1>t DEF BackupRunType, Backup!Folder, Backup!Part, Backup!Id, BackupParameters
<1> HIDE DEF World, Lease, Outcome
\* A step that leaves the points alone, to where the run writes none.
<1>q. ASSUME UNCHANGED <<runs, folders, point, doomed, success>>, run'.plan = {},
             run'.stage \in {"idle", "prune"}, run.stage # "idle" \/ run'.stage = "idle",
             outcome' # "backed_up" \/ (outcome' = outcome /\ run'.stage = "idle")
      PROVE  Rest'
  <2>1. BackupFolders' /\ BackupOwn' /\ BackupOrder'
    BY <1>q, <1>t DEF BackupFolders, BackupOwn, BackupOrder, BackupWriting
  <2>2. BackupTop'
    BY <1>q, <1>t DEF BackupTop
  <2>3. Backup!CompletePointsMatch' /\ Backup!SuccessStaysRecoverable'
    BY <1>q, <1>t DEF Backup!CompletePointsMatch, Backup!SuccessStaysRecoverable
  <2>4. BackupMade'
    BY <1>q, <1>t DEF BackupMade
  <2> QED BY <2>1, <2>2, <2>3, <2>4
<1>e. ASSUME NEW how \in {"none", "failed", "backed_up", "no_change"},
             Backup!Ended(how) \/ (Backup!Fails /\ how = "failed")
      PROVE  Lease' /\ Outcome' /\ run' = Backup!Idle /\ outcome' = how
  BY <1>e, <1>t DEF Backup!Fails, Backup!Ended, Backup!SaveLease, Lease, Outcome
<1>p. ASSUME NEW next, Backup!Proceed(next)
      PROVE  Lease' /\ Outcome' /\ run' = next /\ success' = success /\ outcome' = outcome
  BY <1>p, <1>t DEF Backup!Proceed, Backup!Lease, Lease, Outcome
<1>i. Backup!Idle \in BackupRunType /\ Backup!Idle.stage = "idle" /\ Backup!Idle.plan = {}
  BY BackupIdle
<1>1. CASE Backup!Begin
  <2>1. /\ run.stage = "idle" /\ runs < MaxRuns /\ runs' = runs + 1
        /\ snapshot' = [snapshot EXCEPT ![runs'] = <<source, content>>]
        /\ run' = [Backup!Idle EXCEPT !.stage = "begun"]
        /\ lease' = "own" /\ savedLease' \in {TRUE, savedLease}
        /\ UNCHANGED <<source, content, folders, point, current, doomed, success, outcome,
                       restarts>>
    BY <1>1 DEF Backup!Begin, Backup!world, Backup!drive, Backup!SaveLease
  <2>2. /\ run' \in BackupRunType /\ run'.stage = "begun" /\ run'.plan = {}
        /\ run'.id = 0 /\ run'.part = 1
    BY <2>1 DEF Backup!Idle, BackupRunType, Backup!Stage, Backup!Part, BackupParameters
  <2>3. runs' \in 0 .. MaxRuns /\ runs' \in Backup!Runs
    BY <2>1, <1>t DEF Backup!Runs, BackupParameters
  <2>4. snapshot' \in [Backup!Runs -> Source \X Content]
    BY <2>1, <2>3, <1>t DEF World
  <2>5. World' /\ Lease' /\ Outcome'
    BY <2>1, <1>t DEF World, Lease, Outcome
  <2>6. BackupFolders' /\ BackupOwn'
    BY <2>1, <2>2, <1>t, <1>n DEF BackupFolders, BackupOwn, BackupWriting
  <2>7. BackupOrder'
    BY <2>1, <2>2, <1>t, <1>n DEF BackupOrder, BackupWriting
  <2>8. BackupTop'
    BY <2>1, <2>2, <1>t DEF BackupTop
  <2>9. BackupMade' /\ Backup!CompletePointsMatch' /\ Backup!SuccessStaysRecoverable'
    BY <2>1, <2>2, <1>t
       DEF BackupMade, Backup!CompletePointsMatch, Backup!SuccessStaysRecoverable
  <2> QED BY <2>1, <2>2, <2>3, <2>4, <2>5, <2>6, <2>7, <2>8, <2>9, <1>t, <1>u
<1>2. CASE Backup!Compare
  <2>1. /\ run.stage = "begun"
        /\ UNCHANGED <<source, content, runs, snapshot, folders, point, current, doomed,
                       restarts>>
    BY <1>2 DEF Backup!Compare, Backup!world, Backup!drive
  <2>2. World'
    BY <2>1, <1>t DEF World
  <2>3. run.plan = {} /\ run.id = 0 /\ run.part = 1
    BY <2>1, <1>t DEF BackupFolders, BackupOrder, BackupWriting
  <2>4. CASE Backup!Fails
    <3>1. /\ Lease' /\ Outcome' /\ run' = Backup!Idle /\ success' = success
          /\ outcome' = "failed"
      BY <2>4, <1>e DEF Backup!Fails
    <3> QED BY <2>1, <2>2, <3>1, <1>i, <1>q, <1>t, <1>u
  <2>5. CASE /\ run' = [run EXCEPT !.stage = "prune"] /\ outcome' = "no_change"
             /\ UNCHANGED <<success, Backup!Lease>>
    <3>1. run' \in BackupRunType /\ run'.stage = "prune" /\ run'.plan = {}
      BY <2>3, <2>5, <1>t DEF BackupRunType, Backup!Stage
    <3>2. Lease' /\ Outcome' /\ success' = success
      BY <2>5, <1>t DEF Backup!Lease, Lease, Outcome
    <3> QED BY <2>1, <2>2, <2>5, <3>1, <3>2, <1>q, <1>t, <1>u
  <2>6. CASE /\ run' = [run EXCEPT !.stage = "point"]
             /\ UNCHANGED <<outcome, success, Backup!Lease>>
    <3>1. /\ run' \in BackupRunType /\ run'.stage = "point" /\ run'.plan = {}
          /\ run'.id = 0 /\ run'.part = 1
      BY <2>3, <2>6, <1>t DEF BackupRunType, Backup!Stage
    <3>2. Lease' /\ Outcome' /\ success' = success
      BY <2>6, <1>t DEF Backup!Lease, Lease, Outcome
    <3>3. BackupFolders' /\ BackupOwn' /\ BackupTop'
      BY <2>1, <2>3, <3>1, <1>t DEF BackupFolders, BackupOwn, BackupTop, BackupWriting
    <3>4. BackupOrder'
      BY <2>1, <2>3, <3>1, <1>t DEF BackupOrder, BackupWriting
    <3>5. BackupMade' /\ Backup!CompletePointsMatch' /\ Backup!SuccessStaysRecoverable'
      BY <2>1, <2>3, <2>6, <3>1, <3>2, <1>t
         DEF BackupMade, Backup!CompletePointsMatch, Backup!SuccessStaysRecoverable
    <3> QED BY <2>1, <2>2, <3>1, <3>2, <3>3, <3>4, <3>5, <1>t, <1>u
  <2> QED BY <1>2, <2>4, <2>5, <2>6 DEF Backup!Compare
<1>3. CASE Backup!Create
  <2>1. PICK id \in Backup!NextIds, call \in Backup!Call :
          /\ folders' = IF call = "failed" THEN folders ELSE folders \union {id}
          /\ doomed' = doomed \ (folders' \ folders)
          /\ IF call = "done" /\ id \notin folders
             THEN Backup!Proceed([run EXCEPT !.id = id])
             ELSE Backup!Fails
    BY <1>3 DEF Backup!Create
  <2>2. /\ run.stage = "point" /\ run.id = 0
        /\ UNCHANGED <<source, content, runs, snapshot, point, current, restarts>>
    BY <1>3 DEF Backup!Create, Backup!world
  <2>3. run.plan = {} /\ run.part = 1
    BY <2>2, <1>t DEF BackupFolders, BackupOrder, BackupWriting
  \* A new id is 1 when there is no folder; it is above every folder if 1 is never deleted.
  <2>4. /\ id \in Backup!Id
        /\ folders = {} => id = 1
        /\ BackupKeeps /\ id \notin folders => \A j \in folders : j < id
    <3> DEFINE F == folders \union {0}
    <3>1. F \subseteq 0 .. MaxRuns /\ F # {}
      BY <1>t DEF Backup!Id, BackupParameters
    <3> HIDE DEF F
    <3>2. Backup!Max(F) \in F /\ \A y \in F : y <= Backup!Max(F)
      BY <3>1, BackupMax DEF BackupParameters
    <3>3. id \in {1, Backup!Max(F) + 1} /\ id \in Backup!Id
      BY <2>1 DEF Backup!NextIds, F
    <3>4. ASSUME folders = {} PROVE id = 1
      BY <3>2, <3>3, <3>4 DEF F
    <3>5. ASSUME BackupKeeps, id \notin folders, NEW j \in folders PROVE j < id
      <4>1. id = Backup!Max(F) + 1
        BY <3>3, <3>5, <1>t DEF BackupFolders
      <4>2. j <= Backup!Max(F) /\ Backup!Max(F) \in 0 .. MaxRuns /\ j \in Nat
        BY <3>1, <3>2, <1>t, <1>n DEF F
      <4> QED BY <4>1, <4>2
    <3> QED BY <3>3, <3>4, <3>5
  <2>5. World'
    BY <2>2, <1>t DEF World
  <2>6. /\ folders' \subseteq Backup!Id /\ (BackupKeeps => (folders' # {} => 1 \in folders'))
        /\ doomed' \subseteq doomed
        /\ \A j \in Backup!Id \ folders' : point'[j] = Backup!Empty
    BY <2>1, <2>2, <2>4, <1>t DEF BackupFolders
  \* A folder that is new has no files yet.
  <2>9. \A j \in doomed \ doomed' : point[j] = Backup!Empty /\ point[j][4] = 0
    BY <2>1, <1>t DEF BackupFolders, Backup!Empty, Backup!Part
  <2>10. ASSUME success' = success, outcome' \in {outcome, "failed"}, run'.plan = {},
                run'.stage \in {"idle", "point"}
         PROVE  /\ BackupTop' /\ BackupMade'
                /\ Backup!CompletePointsMatch' /\ Backup!SuccessStaysRecoverable'
    <3>1. BackupTop'
      BY <2>2, <2>3, <2>6, <2>10, <1>t DEF BackupTop
    <3>2. BackupMade'
      BY <2>2, <2>6, <2>10, <1>t DEF BackupMade
    <3>3. Backup!CompletePointsMatch'
      BY <2>2, <2>9, <1>t DEF Backup!CompletePointsMatch
    <3>4. Backup!SuccessStaysRecoverable'
      BY <2>2, <2>6, <2>10, <1>t DEF Backup!SuccessStaysRecoverable
    <3> QED BY <3>1, <3>2, <3>3, <3>4
  <2>7. CASE call = "done" /\ id \notin folders
    <3>1. /\ Lease' /\ Outcome' /\ run' = [run EXCEPT !.id = id]
          /\ success' = success /\ outcome' = outcome
      BY <2>1, <2>7, <1>p
    <3>2. /\ run' \in BackupRunType /\ run'.stage = "point" /\ run'.plan = {}
          /\ run'.id = id /\ run'.part = 1
      BY <3>1, <2>2, <2>3, <2>4, <1>t DEF BackupRunType, Backup!Id
    <3>3. BackupFolders'
      BY <2>2, <2>6, <3>2, <1>t DEF BackupFolders
    <3>4. /\ BackupTop' /\ BackupMade'
          /\ Backup!CompletePointsMatch' /\ Backup!SuccessStaysRecoverable'
      BY <2>10, <3>1, <3>2
    <3>5. BackupOrder'
      BY <2>2, <2>4, <3>2, <1>t DEF BackupOrder, BackupWriting, Backup!Id
    <3>6. id \notin doomed'
      BY <2>1, <2>7
    <3>7. \A k \in Backup!Part : point[id][k] = 0
      BY <2>4, <2>7, <1>t DEF BackupFolders, Backup!Empty
    <3>8. folders' = folders \union {id} /\ (BackupKeeps => \A j \in folders' : j <= id)
      BY <2>1, <2>4, <2>7, <1>n, <1>t
    <3>9. BackupOwn'
      <4>1. \A k \in Backup!Part : ~(k < 1)
        BY DEF Backup!Part
      <4>2. runs' # 0
        BY <2>2, <1>t DEF BackupOwn
      <4> QED BY <2>2, <3>2, <3>6, <3>7, <3>8, <4>1, <4>2 DEF BackupOwn, BackupWriting
    <3> QED BY <2>2, <2>5, <2>6, <3>1, <3>2, <3>3, <3>4, <3>5, <3>9, <1>t, <1>u
  <2>8. CASE ~(call = "done" /\ id \notin folders)
    <3>1. /\ Lease' /\ Outcome' /\ run' = Backup!Idle /\ success' = success
          /\ outcome' = "failed"
      BY <2>1, <2>8, <1>e DEF Backup!Fails
    <3>2. BackupFolders'
      BY <2>2, <2>3, <2>6, <3>1, <1>i, <1>t DEF BackupFolders
    <3>3. BackupOwn' /\ BackupOrder'
      BY <2>2, <3>1, <1>i, <1>t DEF BackupOwn, BackupOrder, BackupWriting
    <3>4. /\ BackupTop' /\ BackupMade'
          /\ Backup!CompletePointsMatch' /\ Backup!SuccessStaysRecoverable'
      BY <2>10, <3>1, <1>i
    <3> QED BY <2>2, <2>5, <2>6, <3>1, <3>2, <3>3, <3>4, <1>i, <1>t, <1>u
  <2> QED BY <2>7, <2>8
<1>4. CASE Backup!WritePoint
  <2>1. PICK call \in Backup!Call :
          /\ point' = IF call = "failed" THEN point
                      ELSE [point EXCEPT ![run.id][run.part] = runs]
          /\ IF call = "done" THEN Backup!Proceed(Backup!NextPart("current")) ELSE Backup!Fails
    BY <1>4 DEF Backup!WritePoint
  <2>2. /\ run.stage = "point" /\ run.id # 0
        /\ UNCHANGED <<source, content, runs, snapshot, folders, current, doomed, restarts>>
    BY <1>4 DEF Backup!WritePoint, Backup!world
  <2>3. /\ run.id \in folders \ doomed /\ run.id \in Backup!Id /\ run.plan = {} /\ runs # 0
        /\ BackupKeeps => \A id \in folders : id <= run.id
        /\ \A k \in Backup!Part : point[run.id][k] = IF k < run.part THEN runs ELSE 0
    BY <2>2, <1>t DEF BackupOwn, BackupFolders, BackupWriting
  <2>4. /\ point' \in [Backup!Id -> Backup!Folder]
        /\ \A id \in Backup!Id : id # run.id => point'[id] = point[id]
        /\ \A k \in Backup!Part : k # run.part => point'[run.id][k] = point[run.id][k]
        /\ point'[run.id][run.part] \in {0, runs}
        /\ call = "done" => point'[run.id][run.part] = runs
    <3>1. run.part \in Backup!Part /\ point[run.id] \in [Backup!Part -> 0 .. MaxRuns]
          /\ point[run.id][run.part] = 0
      BY <1>n, <2>3 DEF Backup!Part
    <3>2. CASE point' = point
      BY <2>1, <3>1, <3>2, <1>t, <2>3
    <3>3. CASE point' = [point EXCEPT ![run.id][run.part] = runs]
      <4>1. [point[run.id] EXCEPT ![run.part] = runs] \in Backup!Folder
        BY <3>1, <1>t DEF Backup!Folder
      <4>2. point' \in [Backup!Id -> Backup!Folder]
        BY <3>3, <4>1, <1>t
      <4> QED BY <3>1, <3>3, <4>2, <1>t, <2>3
    <3> QED BY <2>1, <3>2, <3>3
  <2>5. World'
    BY <2>2, <1>t DEF World
  <2>6. /\ point'[run.id][4] \in {0, runs} /\ point[run.id][4] = 0
        /\ point'[run.id][4] # 0 => run.part = 4 /\ \A k \in Backup!Part : point'[run.id][k] = runs
    <3>1. CASE run.part = 4
      BY <2>3, <2>4, <3>1 DEF Backup!Part
    <3>2. CASE run.part # 4
      <4>1. point[run.id][4] = 0 /\ point'[run.id][4] = point[run.id][4]
        BY <2>3, <2>4, <3>2, <1>n DEF Backup!Part
      <4> QED BY <4>1
    <3> QED BY <3>1, <3>2
  <2>7. Backup!CompletePointsMatch'
    BY <2>2, <2>4, <2>6, <1>t DEF Backup!CompletePointsMatch
  <2>8. success' = success => Backup!SuccessStaysRecoverable'
    <3> SUFFICES ASSUME success' = success, success # 0,
                        Keep >= 2 /\ 1 \in Protected
                 PROVE  \E id \in Backup!Id \ doomed' : point'[id][4] >= success'
      BY DEF Backup!SuccessStaysRecoverable
    <3>1. PICK id \in Backup!Id \ doomed : point[id][4] >= success
      BY <1>t DEF Backup!SuccessStaysRecoverable
    <3>2. id # run.id
      BY <2>6, <3>1, <1>n
    <3> QED BY <2>2, <2>4, <3>1, <3>2
  <2>9. run'.plan = {} => BackupTop'
    BY <2>2, <2>4, <2>6, <1>t DEF BackupTop
  <2>10. /\ \A id \in Backup!Id : point'[id][4] <= runs
         /\ \A id \in Backup!Id : id # run.id => point'[id][4] < runs
         /\ BackupKeeps =>
               \A i, j \in Backup!Id : i < j /\ point'[i][4] # 0 /\ point'[j][4] # 0 =>
                  point'[i][4] < point'[j][4]
    <3>1. \A id \in Backup!Id : id # run.id => point'[id][4] = point[id][4] /\ point[id][4] < runs
      BY <2>2, <2>4, <1>t DEF BackupOrder
    <3>2. point'[run.id][4] <= runs
      BY <2>6, <1>n
    <3>3. ASSUME BackupKeeps, NEW i \in Backup!Id, NEW j \in Backup!Id, i < j,
                 point'[i][4] # 0, point'[j][4] # 0
          PROVE  point'[i][4] < point'[j][4]
      <4>1. CASE j = run.id
        BY <3>1, <3>3, <4>1, <2>6, <1>n
      <4>2. CASE i = run.id
        <5>1. j # run.id /\ point[j][4] # 0
          BY <3>1, <3>3, <4>2, <1>n
        <5>2. j \in folders
          BY <5>1, <1>t DEF BackupFolders, Backup!Empty, Backup!Part
        <5> QED BY <5>2, <2>3, <3>3, <4>2, <1>n
      <4>3. CASE i # run.id /\ j # run.id
        BY <3>1, <3>3, <4>3, <1>t DEF BackupOrder
      <4> QED BY <4>1, <4>2, <4>3
    <3>4. \A id \in Backup!Id : point'[id][4] <= runs
      BY <3>1, <3>2, <1>n
    <3> QED BY <3>1, <3>3, <3>4
  <2>14. success' = success /\ outcome' \in {outcome, "failed"} /\ run'.plan = {}
            /\ run'.stage # "prune" => BackupMade'
    <3> SUFFICES ASSUME success' = success, outcome = "backed_up", run'.plan = {},
                        run'.stage # "prune"
                 PROVE  \E id \in Backup!Id \ doomed' : success # 0 /\ point'[id][4] = success
      BY DEF BackupMade
    <3>1. PICK id \in Backup!Id \ doomed : success # 0 /\ point[id][4] = success
      BY <1>t DEF BackupMade
    <3>2. id # run.id
      BY <2>6, <3>1
    <3> QED BY <2>2, <2>4, <3>1, <3>2
  <2>11. \A j \in Backup!Id \ folders' : point'[j] = Backup!Empty
    BY <2>2, <2>3, <2>4, <1>t DEF BackupFolders
  <2>12. CASE call # "done"
    <3>1. /\ Lease' /\ Outcome' /\ run' = Backup!Idle /\ success' = success
          /\ outcome' = "failed"
      BY <2>1, <2>12, <1>e DEF Backup!Fails
    <3>2. BackupFolders' /\ BackupOwn' /\ BackupOrder'
      BY <2>2, <2>3, <2>10, <2>11, <3>1, <1>i, <1>t
         DEF BackupFolders, BackupOwn, BackupOrder, BackupWriting
    <3> QED BY <2>2, <2>4, <2>5, <2>7, <2>8, <2>9, <2>14, <3>1, <3>2, <1>i, <1>t, <1>u
  <2>13. CASE call = "done"
    <3>1. /\ Lease' /\ Outcome' /\ run' = Backup!NextPart("current")
          /\ success' = success /\ outcome' = outcome
      BY <2>1, <2>13, <1>p
    <3>2. /\ run' \in BackupRunType /\ run'.plan = {} /\ run'.id = run.id
          /\ run.part = 4 => run'.stage = "current"
          /\ run.part # 4 => run'.stage = "point" /\ run'.part = run.part + 1
      <4>1. run.part # 4 => run.part + 1 \in Backup!Part
        BY <1>n DEF Backup!Part
      <4>2. CASE run.part = 4
        <5>1. run' = [run EXCEPT !.stage = "current", !.part = 1]
          BY <3>1, <4>2 DEF Backup!NextPart
        <5>2. "current" \in Backup!Stage /\ 1 \in Backup!Part
          BY DEF Backup!Stage, Backup!Part
        <5> QED BY <5>1, <5>2, <4>2, <2>2, <2>3, <1>t DEF BackupRunType
      <4>3. CASE run.part # 4
        <5>1. run' = [run EXCEPT !.part = run.part + 1]
          BY <3>1, <4>3 DEF Backup!NextPart
        <5> QED BY <4>1, <4>3, <5>1, <2>2, <2>3, <1>t DEF BackupRunType
      <4> QED BY <4>2, <4>3
    <3>3. BackupFolders'
      BY <2>2, <2>3, <2>11, <3>2, <1>t DEF BackupFolders
    <3>4. BackupOwn'
      <4>1. CASE run.part = 4
        <5>1. point'[run.id][4] = runs
          BY <2>4, <2>13, <4>1
        <5> QED BY <2>2, <2>3, <3>2, <4>1, <5>1 DEF BackupOwn, BackupWriting
      <4>2. CASE run.part # 4
        <5>1. \A k \in Backup!Part :
                 point'[run.id][k] = IF k < run.part + 1 THEN runs ELSE 0
          <6>1. ASSUME NEW k \in Backup!Part
                PROVE  point'[run.id][k] = IF k < run.part + 1 THEN runs ELSE 0
            <7>1. k < run.part + 1 <=> k < run.part \/ k = run.part
              BY <1>n DEF Backup!Part
            <7> QED BY <7>1, <2>3, <2>4, <2>13
          <6> QED BY <6>1
        <5> QED BY <2>2, <2>3, <3>2, <4>2, <5>1 DEF BackupOwn, BackupWriting
      <4> QED BY <4>1, <4>2
    <3>5. BackupOrder'
      BY <2>2, <2>10, <3>2 DEF BackupOrder, BackupWriting
    <3> QED BY <2>2, <2>4, <2>5, <2>7, <2>8, <2>9, <2>14, <3>1, <3>2, <3>3, <3>4, <3>5, <1>t,
               <1>u
  <2> QED BY <2>12, <2>13
<1>5. CASE Backup!WriteCurrent
  <2>1. PICK call \in Backup!Call :
          /\ current' = IF call = "failed" THEN current
                        ELSE [current EXCEPT ![run.part] = runs]
          /\ IF call = "done" THEN Backup!Proceed(Backup!NextPart("written")) ELSE Backup!Fails
    BY <1>5 DEF Backup!WriteCurrent
  <2>2. /\ run.stage = "current"
        /\ UNCHANGED <<source, content, runs, snapshot, folders, point, doomed, restarts>>
    BY <1>5 DEF Backup!WriteCurrent, Backup!world
  <2>3. run.plan = {} /\ run.id \in Backup!Id \ doomed /\ point[run.id][4] = runs /\ runs # 0
    BY <2>2, <1>t DEF BackupOwn, BackupFolders
  <2>4. World'
    BY <2>1, <2>2, <1>t DEF World, Backup!Folder
  <2>5. CASE call # "done"
    <3>1. /\ Lease' /\ Outcome' /\ run' = Backup!Idle /\ success' = success
          /\ outcome' = "failed"
      BY <2>1, <2>5, <1>e DEF Backup!Fails
    <3> QED BY <2>2, <2>4, <3>1, <1>i, <1>q, <1>t, <1>u
  <2>6. CASE call = "done"
    <3>1. /\ Lease' /\ Outcome' /\ run' = Backup!NextPart("written")
          /\ success' = success /\ outcome' = outcome
      BY <2>1, <2>6, <1>p
    <3>2. /\ run' \in BackupRunType /\ run'.plan = {} /\ run'.id = run.id
          /\ run'.stage \in {"current", "written"}
      <4>1. run.part # 4 => run.part + 1 \in Backup!Part
        BY <1>n DEF Backup!Part
      <4>2. CASE run.part = 4
        <5>1. run' = [run EXCEPT !.stage = "written", !.part = 1]
          BY <3>1, <4>2 DEF Backup!NextPart
        <5>2. "written" \in Backup!Stage /\ 1 \in Backup!Part
          BY DEF Backup!Stage, Backup!Part
        <5> QED BY <5>1, <5>2, <4>2, <2>2, <2>3, <1>t DEF BackupRunType
      <4>3. CASE run.part # 4
        <5>1. run' = [run EXCEPT !.part = run.part + 1]
          BY <3>1, <4>3 DEF Backup!NextPart
        <5> QED BY <4>1, <4>3, <5>1, <2>2, <2>3, <1>t DEF BackupRunType
      <4> QED BY <4>2, <4>3
    <3>3. BackupFolders' /\ BackupOwn' /\ BackupOrder'
      BY <2>2, <2>3, <3>2, <1>t DEF BackupFolders, BackupOwn, BackupOrder, BackupWriting
    <3>4. /\ BackupTop' /\ BackupMade'
          /\ Backup!CompletePointsMatch' /\ Backup!SuccessStaysRecoverable'
      BY <2>2, <2>3, <3>1, <3>2, <1>t
         DEF BackupTop, BackupMade, Backup!CompletePointsMatch, Backup!SuccessStaysRecoverable
    <3> QED BY <2>2, <2>4, <3>1, <3>2, <3>3, <3>4, <1>t, <1>u
  <2> QED BY <2>5, <2>6
<1>6. CASE Backup!Verify
  <2>1. /\ run.stage = "written"
        /\ UNCHANGED <<source, content, runs, snapshot, folders, point, current, doomed,
                       restarts>>
    BY <1>6 DEF Backup!Verify, Backup!world, Backup!drive
  <2>2. run.plan = {} /\ run.id \in Backup!Id \ doomed /\ point[run.id][4] = runs /\ runs # 0
    BY <2>1, <1>t DEF BackupOwn, BackupFolders
  <2>3. World'
    BY <2>1, <1>t DEF World
  <2>4. CASE Backup!Fails
    <3>1. /\ Lease' /\ Outcome' /\ run' = Backup!Idle /\ success' = success
          /\ outcome' = "failed"
      BY <2>4, <1>e DEF Backup!Fails
    <3> QED BY <2>1, <2>3, <3>1, <1>i, <1>q, <1>t, <1>u
  <2>5. CASE /\ run' = [run EXCEPT !.stage = "prune"] /\ outcome' = "backed_up"
             /\ success' = runs /\ UNCHANGED Backup!Lease
    <3>1. /\ run' \in BackupRunType /\ run'.stage = "prune" /\ run'.plan = {}
          /\ run'.id = run.id
      BY <2>2, <2>5, <1>t DEF BackupRunType, Backup!Stage
    <3>2. Lease' /\ Outcome'
      BY <2>5, <1>t DEF Backup!Lease, Lease, Outcome
    <3>3. Backup!SuccessStaysRecoverable'
      BY <2>1, <2>2, <2>5, <1>n DEF Backup!SuccessStaysRecoverable
    <3>4. BackupFolders' /\ BackupOwn' /\ BackupOrder'
      BY <2>1, <2>2, <3>1, <1>t DEF BackupFolders, BackupOwn, BackupOrder, BackupWriting
    <3>5. BackupTop' /\ BackupMade' /\ Backup!CompletePointsMatch'
      BY <2>1, <2>2, <2>5, <3>1, <1>t
         DEF BackupTop, BackupMade, Backup!CompletePointsMatch
    <3> QED BY <2>1, <2>3, <2>5, <3>1, <3>2, <3>3, <3>4, <3>5, <1>t, <1>u
  <2> QED BY <1>6, <2>4, <2>5 DEF Backup!Verify
<1>7. CASE Backup!Plan
  <2>1. /\ run.stage = "prune"
        /\ UNCHANGED <<source, content, runs, snapshot, folders, point, current, doomed,
                       restarts>>
    BY <1>7 DEF Backup!Plan, Backup!world, Backup!drive
  <2>2. World'
    BY <2>1, <1>t DEF World
  <2>3. CASE Backup!Ended(outcome) /\ UNCHANGED success
    <3>1. Lease' /\ Outcome' /\ run' = Backup!Idle /\ outcome' = outcome
      BY <2>3, <1>e, <1>t DEF Outcome
    <3> QED BY <2>1, <2>2, <2>3, <3>1, <1>i, <1>q, <1>t, <1>u
  <2>4. ASSUME NEW complete \in SUBSET {id \in folders : point[id][4] # 0}, NEW newest,
               run.id # 0 => newest = run.id,
               Backup!Proceed([run EXCEPT !.stage = "delete",
                                          !.plan = Backup!Surplus(complete, newest)])
        PROVE  BackupInv'
    <3> DEFINE P == Backup!Surplus(complete, newest)
    <3>1. /\ Lease' /\ Outcome' /\ success' = success /\ outcome' = outcome
          /\ run' = [run EXCEPT !.stage = "delete", !.plan = P]
      BY <2>4, <1>p
    <3>2. complete \in SUBSET Backup!Id /\ \A id \in complete : point[id][4] # 0
      BY <1>t
    <3>3. /\ P \subseteq complete \ (Protected \union {newest})
          /\ (BackupKeeps /\ P # {} => \E c \in complete : \A d \in P : d < c)
      BY <3>2, BackupSurplus
    <3> HIDE DEF P
    <3>4. run' \in BackupRunType /\ run'.stage = "delete" /\ run'.plan = P
      BY <3>1, <3>2, <3>3, <1>t DEF BackupRunType, Backup!Stage
    <3>5. BackupFolders'
      BY <2>1, <3>2, <3>3, <3>4, <1>t DEF BackupFolders
    <3>6. BackupOwn' /\ BackupOrder'
      BY <2>1, <3>4, <1>t DEF BackupOwn, BackupOrder, BackupWriting
    <3>7. Backup!CompletePointsMatch' /\ Backup!SuccessStaysRecoverable'
      BY <2>1, <3>1, <1>t DEF Backup!CompletePointsMatch, Backup!SuccessStaysRecoverable
    <3>8. ASSUME BackupKeeps, doomed \union P # {}
          PROVE  \E x \in Backup!Id \ doomed :
                    point[x][4] # 0 /\ \A d \in doomed \union P : d < x
      <4>1. CASE P = {}
        BY <3>8, <4>1, <1>t DEF BackupTop
      <4>2. CASE P # {} /\ doomed = {}
        BY <3>8, <4>2, <3>2, <3>3
      <4>3. CASE P # {} /\ doomed # {}
        <5>1. PICK c \in complete : \A d \in P : d < c
          BY <3>8, <3>3, <4>3
        <5>2. PICK x \in Backup!Id \ doomed : point[x][4] # 0 /\ \A d \in doomed : d < x
          BY <3>8, <4>3, <1>t DEF BackupTop
        <5>3. CASE x < c
          <6>1. c \in Backup!Id /\ point[c][4] # 0
            BY <3>2
          <6>2. \A d \in doomed : d < c
            BY <5>2, <5>3, <6>1, <1>t, <1>n
          <6>3. c \notin doomed
            BY <6>1, <6>2, <1>n
          <6> QED BY <5>1, <6>1, <6>2, <6>3
        <5>4. CASE ~(x < c)
          <6>1. \A d \in P : d < x
            <7>1. c \in Nat /\ x \in Nat /\ \A d \in P : d \in Nat
              BY <3>2, <3>3, <1>n
            <7> QED BY <5>1, <5>4, <7>1
          <6> QED BY <5>2, <6>1
        <5> QED BY <5>3, <5>4
      <4> QED BY <4>1, <4>2, <4>3
    <3>9. BackupTop'
      BY <2>1, <3>4, <3>8 DEF BackupTop
    <3>10. BackupMade'
      <4> SUFFICES ASSUME outcome = "backed_up"
                   PROVE  \E x \in Backup!Id \ doomed :
                             success # 0 /\ point[x][4] = success /\ x \notin P
        BY <2>1, <3>1, <3>4 DEF BackupMade
      <4>1. PICK x \in Backup!Id \ doomed :
               success # 0 /\ point[x][4] = success /\ run.id = x
        BY <2>1, <1>t DEF BackupMade
      <4>2. x # 0
        BY <4>1 DEF Backup!Id
      <4> QED BY <2>4, <3>3, <4>1, <4>2
    <3> QED BY <3>10, <2>1, <2>2, <3>1, <3>4, <3>5, <3>6, <3>7, <3>9, <1>t, <1>u
  <2> QED BY <1>7, <2>3, <2>4 DEF Backup!Plan
<1>8. CASE Backup!Delete
  <2>1. PICK id \in {Backup!Min(run.plan)}, gone \in SUBSET Backup!Part, whole \in BOOLEAN :
          /\ point' = [point EXCEPT ![id] =
                          [k \in Backup!Part |-> IF whole \/ k \in gone THEN 0 ELSE @[k]]]
          /\ folders' = IF whole THEN folders \ {id} ELSE folders
          /\ doomed' = doomed \union {id}
          /\ Backup!Proceed([run EXCEPT !.plan = @ \ {id}])
    BY <1>8 DEF Backup!Delete
  <2>2. /\ run.stage = "delete" /\ run.plan # {}
        /\ UNCHANGED <<source, content, runs, snapshot, current, restarts>>
    BY <1>8 DEF Backup!Delete, Backup!world
  <2>3. id \in run.plan /\ id \in Backup!Id /\ id \notin Protected
    <3>1. run.plan \subseteq Nat
      BY <1>n
    <3> QED BY <2>1, <2>2, <3>1, <1>n, <1>t, BackupMin DEF BackupFolders
  <2>4. World'
    BY <2>2, <1>t DEF World
  <2>5. /\ Lease' /\ Outcome' /\ success' = success /\ outcome' = outcome
        /\ run' = [run EXCEPT !.plan = @ \ {id}]
    BY <2>1, <1>p
  <2>6. run' \in BackupRunType /\ run'.stage = "delete" /\ run'.plan = run.plan \ {id}
    BY <2>2, <2>5, <1>t DEF BackupRunType
  <2>7. /\ point' \in [Backup!Id -> Backup!Folder]
        /\ \A j \in Backup!Id : j # id => point'[j] = point[j]
        /\ point'[id][4] \in {0, point[id][4]}
        /\ whole \/ point[id] = Backup!Empty => point'[id] = Backup!Empty
    <3> DEFINE f == [k \in Backup!Part |-> IF whole \/ k \in gone THEN 0 ELSE point[id][k]]
    <3>1. point' = [point EXCEPT ![id] = f]
      BY <2>1, <2>3, <1>t
    <3>2. f \in Backup!Folder
      BY <2>3, <1>n DEF Backup!Folder, BackupParameters
    <3>3. /\ f[4] \in {0, point[id][4]}
          /\ whole \/ point[id] = Backup!Empty => f = Backup!Empty
      BY DEF Backup!Part, Backup!Empty
    <3> HIDE DEF f
    <3> QED BY <3>1, <3>2, <3>3, <2>3, <1>t
  <2>8. folders' \subseteq Backup!Id /\ doomed' \subseteq Backup!Id
    BY <2>1, <2>3, <1>t
  <2>9. BackupFolders'
    <3>1. doomed' \union run'.plan = doomed \union run.plan
      BY <2>1, <2>3, <2>6
    <3>2. \A j \in Backup!Id \ folders' : point'[j] = Backup!Empty
      BY <2>1, <2>3, <2>7, <1>t DEF BackupFolders
    <3>3. BackupKeeps => (folders' # {} => 1 \in folders')
      BY <2>1, <2>3, <1>t DEF BackupFolders, BackupKeeps
    <3> QED BY <3>1, <3>2, <3>3, <2>6, <1>t DEF BackupFolders
  <2>10. BackupOwn'
    BY <2>2, <2>6, <1>t DEF BackupOwn, BackupWriting
  <2>11. \A j \in Backup!Id : point'[j][4] \in {0, point[j][4]}
    BY <2>7, <2>3
  <2>12. BackupOrder'
    <3>1. \A j \in Backup!Id : point'[j][4] <= runs
      BY <2>11, <1>t, <1>n DEF BackupOrder
    <3>2. ASSUME BackupKeeps, NEW i \in Backup!Id, NEW j \in Backup!Id, i < j,
                 point'[i][4] # 0, point'[j][4] # 0
          PROVE  point'[i][4] < point'[j][4]
      <4>1. point'[i][4] = point[i][4] /\ point'[j][4] = point[j][4]
        BY <2>11, <3>2
      <4> QED BY <3>2, <4>1, <1>t DEF BackupOrder
    <3> QED BY <3>1, <3>2, <2>2, <2>6 DEF BackupOrder, BackupWriting
  <2>13. Backup!CompletePointsMatch'
    BY <2>1, <2>7, <1>t DEF Backup!CompletePointsMatch
  \* Above the point that goes there is another.
  <2>14. ASSUME BackupKeeps
         PROVE  \E x \in Backup!Id \ doomed' :
                   /\ id < x /\ point'[x] = point[x] /\ point[x][4] # 0
                   /\ \A d \in doomed \union run.plan : d < x
    <3>1. PICK x \in Backup!Id \ doomed :
              point[x][4] # 0 /\ \A d \in doomed \union run.plan : d < x
      BY <2>2, <2>14, <1>t DEF BackupTop
    <3>2. id < x /\ id \in Nat /\ x \in Nat
      BY <2>3, <3>1, <1>n
    <3>3. x # id
      BY <3>2
    <3>4. x \in Backup!Id \ doomed' /\ point'[x] = point[x]
      BY <2>1, <2>7, <3>1, <3>3
    <3> QED BY <3>1, <3>2, <3>4
  <2>15. BackupMade'
    <3> SUFFICES ASSUME outcome = "backed_up"
                 PROVE  \E w \in Backup!Id \ doomed' :
                           success # 0 /\ point'[w][4] = success /\ w \notin run'.plan
      BY <2>2, <2>5, <2>6 DEF BackupMade
    <3>1. PICK w \in Backup!Id \ doomed :
             success # 0 /\ point[w][4] = success /\ w \notin run.plan
      BY <1>t DEF BackupMade
    <3> QED BY <2>1, <2>3, <2>6, <2>7, <3>1
  <2>16. BackupTop'
    <3>1. doomed' \union run'.plan = doomed \union run.plan
      BY <2>1, <2>3, <2>6
    <3> QED BY <3>1, <2>14 DEF BackupTop
  <2>17. Backup!SuccessStaysRecoverable'
    <3> SUFFICES ASSUME BackupKeeps, success # 0
                 PROVE  \E w \in Backup!Id \ doomed' : point'[w][4] >= success
      BY <2>5 DEF Backup!SuccessStaysRecoverable, BackupKeeps
    <3>1. PICK w \in Backup!Id \ doomed : point[w][4] >= success
      BY <1>t DEF Backup!SuccessStaysRecoverable, BackupKeeps
    <3>2. CASE w # id
      BY <3>1, <3>2, <2>1, <2>7
    <3>3. CASE w = id
      <4>0. PICK x \in Backup!Id \ doomed' :
               id < x /\ point'[x] = point[x] /\ point[x][4] # 0
        BY <2>14
      <4>1. point[w][4] < point[x][4]
        BY <3>1, <3>3, <2>3, <4>0, <1>t, <1>n DEF BackupOrder
      <4>2. point'[x][4] >= success
        BY <3>1, <4>0, <4>1, <1>n
      <4> QED BY <4>2, <4>0
    <3> QED BY <3>2, <3>3
  <2> QED BY <2>2, <2>4, <2>5, <2>6, <2>7, <2>8, <2>9, <2>10, <2>12, <2>13, <2>15, <2>16,
             <2>17, <1>t, <1>u
<1>9. CASE Backup!End
  <2>1. /\ run.stage = "delete" /\ Backup!Ended(outcome)
        /\ UNCHANGED <<source, content, runs, snapshot, folders, point, current, doomed,
                       success, restarts>>
    BY <1>9 DEF Backup!End, Backup!world, Backup!drive
  <2>2. World'
    BY <2>1, <1>t DEF World
  <2>3. Lease' /\ Outcome' /\ run' = Backup!Idle /\ outcome' = outcome
    BY <2>1, <1>e, <1>t DEF Outcome
  <2> QED BY <2>1, <2>2, <2>3, <1>i, <1>q, <1>t, <1>u
<1>10. CASE Backup!DataChanges
  <2>1. /\ content' \in Content
        /\ UNCHANGED <<source, runs, snapshot, folders, point, current, doomed, run, success,
                       outcome, lease, savedLease, restarts>>
    BY <1>10 DEF Backup!DataChanges, Backup!drive, Backup!Lease
  <2>2. World' /\ Lease' /\ Outcome'
    BY <2>1, <1>t DEF World, Lease, Outcome
  <2>3. Rest'
    BY <2>1, <1>t DEF BackupFolders, BackupOwn, BackupOrder, BackupTop, BackupMade,
                      BackupWriting, Backup!CompletePointsMatch, Backup!SuccessStaysRecoverable
  <2> QED BY <2>1, <2>2, <2>3, <1>t, <1>u
<1>11. CASE Backup!Restart
  <2>1. /\ restarts < MaxRestarts /\ restarts' = restarts + 1 /\ source' \in Source
        /\ run' = Backup!Idle /\ lease' \in {"foreign", "free"}
        /\ UNCHANGED <<content, runs, snapshot, folders, point, current, doomed, success,
                       outcome, savedLease>>
    BY <1>11 DEF Backup!Restart, Backup!drive
  <2>2. World' /\ Lease' /\ Outcome'
    BY <2>1, <1>t DEF World, Lease, Outcome
  <2>3. restarts' \in 0 .. MaxRestarts
    BY <2>1, <1>t DEF BackupParameters
  <2> QED BY <2>1, <2>2, <2>3, <1>i, <1>q, <1>t, <1>u
<1>12. CASE Backup!LeaseExpires \/ UNCHANGED Backup!vars
  <2>1. /\ lease' \in {lease, "free"}
        /\ UNCHANGED <<source, content, runs, snapshot, folders, point, current, doomed, run,
                       success, outcome, savedLease, restarts>>
    BY <1>12 DEF Backup!LeaseExpires, Backup!vars, Backup!world, Backup!drive
  <2>2. World' /\ Lease' /\ Outcome'
    BY <2>1, <1>t DEF World, Lease, Outcome
  <2>3. Rest'
    BY <2>1, <1>t DEF BackupFolders, BackupOwn, BackupOrder, BackupTop, BackupMade,
                      BackupWriting, Backup!CompletePointsMatch, Backup!SuccessStaysRecoverable
  <2> QED BY <2>1, <2>2, <2>3, <1>t, <1>u
<1> QED
  BY <1>1, <1>2, <1>3, <1>4, <1>5, <1>6, <1>7, <1>8, <1>9, <1>10, <1>11, <1>12
     DEF Backup!Next, Backup!Step

\* A point that has its manifest is whole and of one run, and what a run reports as backed
\* up has one, for every setting of retention; where two points or more are kept and the
\* first id is protected, one as late as the last successful backup stays, whatever runs
\* fail, crash or delete.
THEOREM BackupStaysRecoverable ==
    ASSUME BackupParameters
    PROVE  Backup!Spec => [](/\ Backup!TypeOK
                            /\ Backup!CompletePointsMatch
                            /\ Backup!ReportedIsThere
                            /\ Backup!SuccessStaysRecoverable)
<1>1. BackupInv => Backup!TypeOK /\ Backup!CompletePointsMatch /\ Backup!ReportedIsThere
                   /\ Backup!SuccessStaysRecoverable
  BY DEF BackupInv, BackupMade, Backup!ReportedIsThere, Backup!Manifest
<1> QED BY <1>1, BackupInit, BackupStep, PTL DEF Backup!Spec
=============================================================================
