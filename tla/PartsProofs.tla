---------------------------- MODULE PartsProofs ----------------------------
(***************************************************************************)
(* Machine-checked theorems about MCParts, for every value of its          *)
(* constants that its assumptions admit: every safety property that is     *)
(* checked there holds in every behaviour.  DriveProofs, ServiceProofs and *)
(* DeliveryProofs have the inductive invariant of each component; what is  *)
(* proved here is that each part of MCParts is such a component, with the  *)
(* bounds it is given there, and that no step mixes two of them.           *)
(***************************************************************************)
EXTENDS MCParts, TLAPS

\* The proofs, with the bounds of each part.  DeliveryProofs is needed once for each instance
\* of the approvals; the first of these instances also serves the content queue with dates and
\* the jobs that publish through a second reservation, the second the jobs that send directly,
\* the last the content queue whose writes overtake each other.
DriveLemmas == INSTANCE DriveProofs WITH
    Tree <- Trees, Retry <- RetryAfter, MaxVersion <- MaxMirror,
    MaxRestarts <- BackupRestarts
ServiceLemmas == INSTANCE ServiceProofs WITH
    Request <- LoginRequest, MaxWindow <- 2, MaxSession <- 2, MaxJobs <- 2, Limit <- 2,
    Threshold <- 2, Cooldown <- 2, MaxDays <- 1, Capacity <- 2, MaxTask <- 3, MaxRestarts <- 1
PairLemmas == INSTANCE DeliveryProofs WITH
    Target <- OneTarget, Text <- OneText, Capacity <- 1, MaxDrafts <- 1, MaxRows <- 1,
    SaveResults <- {"landed"}, MaxSnapshots <- 1, MaxRestarts <- 1,
    JobSlot <- Slot, JobRestarts <- 2, Direct <- {},
    QueueSlot <- OneSlot, QueueSaves <- {"landed"}, QueueSnapshots <- 1, QueueRestarts <- 1
EditsLemmas == INSTANCE DeliveryProofs WITH
    Target <- OneTarget, Slot <- OneSlot, Capacity <- 1, MaxDrafts <- 1, MaxRows <- 2,
    SaveResults <- {"landed"}, MaxSnapshots <- 1, MaxRestarts <- 1,
    JobSlot <- Slot, JobRestarts <- 2, Direct <- Job,
    QueueSlot <- OneSlot, QueueSaves <- {"landed"}, QueueSnapshots <- 1, QueueRestarts <- 1
UnsavedLemmas == INSTANCE DeliveryProofs WITH
    Target <- OneTarget, Text <- OneText, Slot <- OneSlot, Capacity <- 1, MaxDrafts <- 1,
    MaxRows <- 1, SaveResults <- {"late"}, MaxSnapshots <- 2, MaxRestarts <- 1,
    JobSlot <- Slot, JobRestarts <- 2, Direct <- {},
    QueueSlot <- OneSlot, QueueSaves <- {"landed"}, QueueSnapshots <- 1, QueueRestarts <- 1
CrowdLemmas == INSTANCE DeliveryProofs WITH
    Text <- OneText, Slot <- {}, Capacity <- 1, MaxDrafts <- 1, MaxRows <- 2,
    SaveResults <- {"late"}, MaxSnapshots <- 2, MaxRestarts <- 1,
    JobSlot <- Slot, JobRestarts <- 2, Direct <- {}, Timed <- {FALSE},
    QueueSlot <- OneSlot, QueueSaves <- {"late"}, QueueSnapshots <- 2, QueueRestarts <- 1

-----------------------------------------------------------------------------
(* The schedule of the backups.                                            *)

\* The component of MCParts is the one the lemmas are about.
LEMMA ScheduleSame ==
    /\ Schedule!Init <=> DriveLemmas!Schedule!Init
    /\ Schedule!Next <=> DriveLemmas!Schedule!Next
    /\ Schedule!TypeOK <=> DriveLemmas!Schedule!TypeOK
    /\ Schedule!StaleOnlyAfterFailure <=> DriveLemmas!Schedule!StaleOnlyAfterFailure
BY DEF Schedule!Init, Schedule!Next, Schedule!Ask, Schedule!Runs, Schedule!Due,
       Schedule!RetryDue, Schedule!Request, Schedule!Finish, Schedule!Tick,
       Schedule!Older, Schedule!Stop, Schedule!Boot, Schedule!TypeOK, Schedule!Age,
       Schedule!StaleOnlyAfterFailure, DriveLemmas!Schedule!Init,
       DriveLemmas!Schedule!Next, DriveLemmas!Schedule!Ask, DriveLemmas!Schedule!Runs,
       DriveLemmas!Schedule!Due, DriveLemmas!Schedule!RetryDue,
       DriveLemmas!Schedule!Request, DriveLemmas!Schedule!Finish,
       DriveLemmas!Schedule!Tick, DriveLemmas!Schedule!Older, DriveLemmas!Schedule!Stop,
       DriveLemmas!Schedule!Boot, DriveLemmas!Schedule!TypeOK, DriveLemmas!Schedule!Age,
       DriveLemmas!Schedule!StaleOnlyAfterFailure, up, runAge, successAge, result,
       inFlight, asked, excused

\* Its invariant holds at the start and after every step, and implies the properties.
LEMMA ScheduleKept ==
    /\ Init /\ part = "schedule" => DriveLemmas!ScheduleInv
    /\ DriveLemmas!ScheduleInv /\ part = "schedule" /\ [Next]_vars => DriveLemmas!ScheduleInv'
    /\ DriveLemmas!ScheduleInv => /\ Schedule!TypeOK
                               /\ Schedule!StaleOnlyAfterFailure
<1>1. DriveLemmas!ScheduleParameters
  BY ScheduleAssumption DEF DriveLemmas!ScheduleParameters
<1>2. [Next]_vars /\ part = "schedule" => [DriveLemmas!Schedule!Next]_(DriveLemmas!Schedule!vars)
  BY ScheduleSame DEF Next, vars, DriveLemmas!Schedule!vars, up, runAge, successAge, result, inFlight, asked, excused
<1>3. Init /\ part = "schedule" => DriveLemmas!Schedule!Init
  BY ScheduleSame DEF Init
<1> QED BY <1>1, <1>2, <1>3, ScheduleSame, DriveLemmas!ScheduleInit,
           DriveLemmas!ScheduleStep, DriveLemmas!ScheduleImplies DEF DriveLemmas!ScheduleInv

-----------------------------------------------------------------------------
(* The mirror of the source.                                               *)

\* The component of MCParts is the one the lemmas are about.
LEMMA MirrorSame ==
    /\ Mirror!Init <=> DriveLemmas!Mirror!Init
    /\ Mirror!Next <=> DriveLemmas!Mirror!Next
    /\ Mirror!TypeOK <=> DriveLemmas!Mirror!TypeOK
    /\ Mirror!IntactUnlessMisread <=> DriveLemmas!Mirror!IntactUnlessMisread
BY DEF Mirror!Init, Mirror!NoFiles, Mirror!Rest, Mirror!NoHead, Mirror!Version,
       Mirror!Next, Mirror!Step, Mirror!Blocked, Mirror!Fault, Mirror!drive,
       Mirror!Start, Mirror!UpToDate, Mirror!Upload, Mirror!Paths, Mirror!GoesOn,
       Mirror!Counted, Mirror!Verify, Mirror!Holds, Mirror!WriteManifest, Mirror!Call,
       Mirror!Adopt, Mirror!List, Mirror!Others, Mirror!Delete, Mirror!Finish,
       Mirror!Crash, Mirror!Restarted, Mirror!Deploy, Mirror!TypeOK, Mirror!Trees,
       Mirror!Stage, Mirror!IntactUnlessMisread, Mirror!Intact, DriveLemmas!Mirror!Init,
       DriveLemmas!Mirror!NoFiles, DriveLemmas!Mirror!Rest, DriveLemmas!Mirror!NoHead,
       DriveLemmas!Mirror!Version, DriveLemmas!Mirror!Next, DriveLemmas!Mirror!Step,
       DriveLemmas!Mirror!Blocked, DriveLemmas!Mirror!Fault, DriveLemmas!Mirror!drive,
       DriveLemmas!Mirror!Start, DriveLemmas!Mirror!UpToDate, DriveLemmas!Mirror!Upload,
       DriveLemmas!Mirror!Paths, DriveLemmas!Mirror!GoesOn, DriveLemmas!Mirror!Counted,
       DriveLemmas!Mirror!Verify, DriveLemmas!Mirror!Holds,
       DriveLemmas!Mirror!WriteManifest, DriveLemmas!Mirror!Call,
       DriveLemmas!Mirror!Adopt, DriveLemmas!Mirror!List, DriveLemmas!Mirror!Others,
       DriveLemmas!Mirror!Delete, DriveLemmas!Mirror!Finish, DriveLemmas!Mirror!Crash,
       DriveLemmas!Mirror!Restarted, DriveLemmas!Mirror!Deploy,
       DriveLemmas!Mirror!TypeOK, DriveLemmas!Mirror!Trees, DriveLemmas!Mirror!Stage,
       DriveLemmas!Mirror!IntactUnlessMisread, DriveLemmas!Mirror!Intact, source, known,
       run, head, dirs, file, manifest, misread, faults, changes

\* Its invariant holds at the start and after every step, and implies the properties.
LEMMA MirrorKept ==
    /\ Init /\ part = "mirror" => DriveLemmas!MirrorInv
    /\ DriveLemmas!MirrorInv /\ part = "mirror" /\ [Next]_vars => DriveLemmas!MirrorInv'
    /\ DriveLemmas!MirrorInv => /\ Mirror!TypeOK
                             /\ Mirror!IntactUnlessMisread
<1>1. DriveLemmas!MirrorParameters
  BY MirrorAssumption DEF DriveLemmas!MirrorParameters, Trees
<1>2. [Next]_vars /\ part = "mirror" => [DriveLemmas!Mirror!Next]_(DriveLemmas!Mirror!vars)
  BY MirrorSame DEF Next, vars, DriveLemmas!Mirror!vars, DriveLemmas!Mirror!drive, source, known, run, head, dirs,
     file, manifest, misread, faults, changes
<1>3. Init /\ part = "mirror" => DriveLemmas!Mirror!Init
  BY MirrorSame DEF Init
<1> QED BY <1>1, <1>2, <1>3, MirrorSame, DriveLemmas!MirrorInit, DriveLemmas!MirrorStep DEF DriveLemmas!MirrorInv

-----------------------------------------------------------------------------
(* The recovery points.                                                    *)

\* The component of MCParts is the one the lemmas are about.
LEMMA BackupSame ==
    /\ Backup!Init <=> DriveLemmas!Backup!Init
    /\ Backup!Next <=> DriveLemmas!Backup!Next
    /\ Backup!TypeOK <=> DriveLemmas!Backup!TypeOK
    /\ Backup!CompletePointsMatch <=> DriveLemmas!Backup!CompletePointsMatch
    /\ Backup!ReportedIsThere <=> DriveLemmas!Backup!ReportedIsThere
    /\ Backup!SuccessStaysRecoverable <=> DriveLemmas!Backup!SuccessStaysRecoverable
BY DEF Backup!Init, Backup!Runs, Backup!Id, Backup!Empty, Backup!Part, Backup!Idle,
       Backup!Next, Backup!Begin, Backup!SaveLease, Backup!world, Backup!drive,
       Backup!Step, Backup!Compare, Backup!Fails, Backup!Ended, Backup!Manifest,
       Backup!Same, Backup!Lease, Backup!Create, Backup!NextIds, Backup!Call,
       Backup!Proceed, Backup!WritePoint, Backup!NextPart, Backup!WriteCurrent,
       Backup!Verify, Backup!Matches, Backup!Bundle, Backup!Plan, Backup!Surplus,
       Backup!Delete, Backup!End, Backup!DataChanges, Backup!Restart,
       Backup!LeaseExpires, Backup!TypeOK, Backup!Folder, Backup!Stage,
       Backup!CompletePointsMatch, Backup!Complete, Backup!ReportedIsThere,
       Backup!SuccessStaysRecoverable, Backup!Cardinality, Backup!IsFiniteSet,
       Backup!Max, Backup!Min, DriveLemmas!Backup!Init, DriveLemmas!Backup!Runs,
       DriveLemmas!Backup!Id, DriveLemmas!Backup!Empty, DriveLemmas!Backup!Part,
       DriveLemmas!Backup!Idle, DriveLemmas!Backup!Next, DriveLemmas!Backup!Begin,
       DriveLemmas!Backup!SaveLease, DriveLemmas!Backup!world, DriveLemmas!Backup!drive,
       DriveLemmas!Backup!Step, DriveLemmas!Backup!Compare, DriveLemmas!Backup!Fails,
       DriveLemmas!Backup!Ended, DriveLemmas!Backup!Manifest, DriveLemmas!Backup!Same,
       DriveLemmas!Backup!Lease, DriveLemmas!Backup!Create, DriveLemmas!Backup!NextIds,
       DriveLemmas!Backup!Call, DriveLemmas!Backup!Proceed,
       DriveLemmas!Backup!WritePoint, DriveLemmas!Backup!NextPart,
       DriveLemmas!Backup!WriteCurrent, DriveLemmas!Backup!Verify,
       DriveLemmas!Backup!Matches, DriveLemmas!Backup!Bundle, DriveLemmas!Backup!Plan,
       DriveLemmas!Backup!Surplus, DriveLemmas!Backup!Delete, DriveLemmas!Backup!End,
       DriveLemmas!Backup!DataChanges, DriveLemmas!Backup!Restart,
       DriveLemmas!Backup!LeaseExpires, DriveLemmas!Backup!TypeOK,
       DriveLemmas!Backup!Folder, DriveLemmas!Backup!Stage,
       DriveLemmas!Backup!CompletePointsMatch, DriveLemmas!Backup!Complete,
       DriveLemmas!Backup!ReportedIsThere, DriveLemmas!Backup!SuccessStaysRecoverable,
       DriveLemmas!Backup!Cardinality, DriveLemmas!Backup!IsFiniteSet,
       DriveLemmas!Backup!Max, DriveLemmas!Backup!Min, source, content, runs, snapshot,
       folders, point, current, doomed, run, success, outcome, lease, savedLease

\* Its invariant holds at the start and after every step, and implies the properties.
LEMMA BackupKept ==
    /\ Init /\ part = "backup" => DriveLemmas!BackupInv
    /\ DriveLemmas!BackupInv /\ part = "backup" /\ [Next]_vars => DriveLemmas!BackupInv'
    /\ DriveLemmas!BackupInv => /\ Backup!TypeOK
                             /\ Backup!CompletePointsMatch
                             /\ Backup!ReportedIsThere
                             /\ Backup!SuccessStaysRecoverable
<1>1. DriveLemmas!BackupParameters
  BY BackupAssumption DEF DriveLemmas!BackupParameters
<1>2. [Next]_vars /\ part = "backup" => [DriveLemmas!Backup!Next]_(DriveLemmas!Backup!vars)
  BY BackupSame DEF Next, vars, DriveLemmas!Backup!vars, DriveLemmas!Backup!world, DriveLemmas!Backup!drive,
     source, content, runs, snapshot, folders, point, current, doomed, run, success,
     outcome, lease, savedLease
<1>3. Init /\ part = "backup" => DriveLemmas!Backup!Init
  BY BackupSame DEF Init
<1>4. DriveLemmas!BackupInv => DriveLemmas!Backup!ReportedIsThere
  BY DEF DriveLemmas!BackupInv, DriveLemmas!BackupMade, DriveLemmas!Backup!ReportedIsThere,
         DriveLemmas!Backup!Manifest
<1> QED BY <1>1, <1>2, <1>3, <1>4, BackupSame, DriveLemmas!BackupInit,
           DriveLemmas!BackupStep DEF DriveLemmas!BackupInv

-----------------------------------------------------------------------------
(* The access to an account.                                               *)

\* The component of MCParts is the one the lemmas are about.
LEMMA LoginSame ==
    /\ Login!Init <=> ServiceLemmas!Login!Init
    /\ Login!Next <=> ServiceLemmas!Login!Next
    /\ Login!TypeOK <=> ServiceLemmas!Login!TypeOK
    /\ Login!AnswersHold <=> ServiceLemmas!Login!AnswersHold
BY DEF Login!Init, Login!Idle, Login!Window, Login!Next, Login!Verify, Login!Room,
       Login!Pending, Login!Eager, Login!History, Login!Logout, Login!ChangeAccount,
       Login!PersistState, Login!Lazy, Login!Start, Login!Commit, Login!Landed,
       Login!Resume, Login!Opens, Login!Answered, Login!Fail, Login!Restart,
       Login!NextWindow, Login!TypeOK, Login!Access, Login!Writing, Login!Stage,
       Login!AnswersHold, Login!CodeOpensOnce, Login!LogoutHolds, Login!Accepted,
       Login!GivenIsStored, Login!Cardinality, Login!IsFiniteSet,
       ServiceLemmas!Login!Init, ServiceLemmas!Login!Idle, ServiceLemmas!Login!Window,
       ServiceLemmas!Login!Next, ServiceLemmas!Login!Verify, ServiceLemmas!Login!Room,
       ServiceLemmas!Login!Pending, ServiceLemmas!Login!Eager,
       ServiceLemmas!Login!History, ServiceLemmas!Login!Logout,
       ServiceLemmas!Login!ChangeAccount, ServiceLemmas!Login!PersistState,
       ServiceLemmas!Login!Lazy, ServiceLemmas!Login!Start, ServiceLemmas!Login!Commit,
       ServiceLemmas!Login!Landed, ServiceLemmas!Login!Resume,
       ServiceLemmas!Login!Opens, ServiceLemmas!Login!Answered,
       ServiceLemmas!Login!Fail, ServiceLemmas!Login!Restart,
       ServiceLemmas!Login!NextWindow, ServiceLemmas!Login!TypeOK,
       ServiceLemmas!Login!Access, ServiceLemmas!Login!Writing,
       ServiceLemmas!Login!Stage, ServiceLemmas!Login!AnswersHold,
       ServiceLemmas!Login!CodeOpensOnce, ServiceLemmas!Login!LogoutHolds,
       ServiceLemmas!Login!Accepted, ServiceLemmas!Login!GivenIsStored,
       ServiceLemmas!Login!Cardinality, ServiceLemmas!Login!IsFiniteSet, now, mem,
       stored, queue, request, issued, given, opened, left

\* Its invariant holds at the start and after every step, and implies the properties.
LEMMA LoginKept ==
    /\ Init /\ part = "access" => ServiceLemmas!LoginInv
    /\ ServiceLemmas!LoginInv /\ part = "access" /\ [Next]_vars => ServiceLemmas!LoginInv'
    /\ ServiceLemmas!LoginInv => /\ Login!TypeOK
                              /\ Login!AnswersHold
<1>1. ServiceLemmas!LoginParameters
  BY LoginAssumption DEF ServiceLemmas!LoginParameters, ServiceLemmas!Login!Lazy, Login!Lazy
<1>2. [Next]_vars /\ part = "access" => [ServiceLemmas!Login!Next]_(ServiceLemmas!Login!vars)
  BY LoginSame DEF Next, vars, ServiceLemmas!Login!vars, now, mem, stored, queue, request, issued, given, opened,
     left
<1>3. Init /\ part = "access" => ServiceLemmas!Login!Init
  BY LoginSame DEF Init
<1> QED BY <1>1, <1>2, <1>3, LoginSame, ServiceLemmas!LoginInit,
           ServiceLemmas!LoginStep, ServiceLemmas!LoginImplies DEF ServiceLemmas!LoginInv

-----------------------------------------------------------------------------
(* The requests to the AI provider.                                        *)

\* The component of MCParts is the one the lemmas are about.
LEMMA AiSame ==
    /\ Ai!Init <=> ServiceLemmas!Ai!Init
    /\ Ai!Next <=> ServiceLemmas!Ai!Next
    /\ Ai!TypeOK <=> ServiceLemmas!Ai!TypeOK
    /\ Ai!BudgetHeld <=> ServiceLemmas!Ai!BudgetHeld
BY DEF Ai!Init, Ai!None, Ai!Idle, Ai!Closed, Ai!Next, Ai!Step, Ai!Succeed, Ai!Busy,
       Ai!Fail, Ai!Failed, Ai!Release, Ai!SaveUsage, Ai!Begin, Ai!Running, Ai!Refuses,
       Ai!Asked, Ai!Counted, Ai!Guarded, Ai!Dated, Ai!TurnedAway, Ai!vars, Ai!budget,
       Ai!GuardBlocks, Ai!Expire, Ai!Look, Ai!Tick, Ai!Settle, Ai!DayChanges,
       Ai!Restart, Ai!Today, Ai!Charged, Ai!TypeOK, Ai!BudgetHeld, Ai!Cardinality,
       Ai!IsFiniteSet, ServiceLemmas!Ai!Init, ServiceLemmas!Ai!None,
       ServiceLemmas!Ai!Idle, ServiceLemmas!Ai!Closed, ServiceLemmas!Ai!Next,
       ServiceLemmas!Ai!Step, ServiceLemmas!Ai!Succeed, ServiceLemmas!Ai!Busy,
       ServiceLemmas!Ai!Fail, ServiceLemmas!Ai!Failed, ServiceLemmas!Ai!Release,
       ServiceLemmas!Ai!SaveUsage, ServiceLemmas!Ai!Begin, ServiceLemmas!Ai!Running,
       ServiceLemmas!Ai!Refuses, ServiceLemmas!Ai!Asked, ServiceLemmas!Ai!Counted,
       ServiceLemmas!Ai!Guarded, ServiceLemmas!Ai!Dated, ServiceLemmas!Ai!TurnedAway,
       ServiceLemmas!Ai!vars, ServiceLemmas!Ai!budget, ServiceLemmas!Ai!GuardBlocks,
       ServiceLemmas!Ai!Expire, ServiceLemmas!Ai!Look, ServiceLemmas!Ai!Tick,
       ServiceLemmas!Ai!Settle, ServiceLemmas!Ai!DayChanges, ServiceLemmas!Ai!Restart,
       ServiceLemmas!Ai!Today, ServiceLemmas!Ai!Charged, ServiceLemmas!Ai!TypeOK,
       ServiceLemmas!Ai!BudgetHeld, ServiceLemmas!Ai!Cardinality,
       ServiceLemmas!Ai!IsFiniteSet, cache, call, breaker, used, saved, writes,
       midnight, answered, uncounted, days

\* Its invariant holds at the start and after every step, and implies the properties.
LEMMA AiKept ==
    /\ Init /\ part = "ai" => ServiceLemmas!AiInv
    /\ ServiceLemmas!AiInv /\ part = "ai" /\ [Next]_vars => ServiceLemmas!AiInv'
    /\ ServiceLemmas!AiInv => /\ Ai!TypeOK
                           /\ Ai!BudgetHeld
<1>1. ServiceLemmas!AiParameters
  BY AiAssumption DEF ServiceLemmas!AiParameters,
         IsFiniteSet, ServiceLemmas!IsFiniteSet
<1>2. [Next]_vars /\ part = "ai" => [ServiceLemmas!Ai!Next]_(ServiceLemmas!Ai!vars)
  BY AiSame DEF Next, vars, ServiceLemmas!Ai!vars, ServiceLemmas!Ai!budget, cache, call, breaker, used, saved,
     writes, midnight, answered, uncounted, days
<1>3. Init /\ part = "ai" => ServiceLemmas!Ai!Init
  BY AiSame DEF Init
<1> QED BY <1>1, <1>2, <1>3, AiSame, ServiceLemmas!AiInit, ServiceLemmas!AiStep,
           ServiceLemmas!AiImplies DEF ServiceLemmas!AiInv

-----------------------------------------------------------------------------
(* The credentials of a platform.                                          *)

\* The component of MCParts is the one the lemmas are about.
LEMMA TokenSame ==
    /\ Token!Init <=> ServiceLemmas!Token!Init
    /\ Token!Next <=> ServiceLemmas!Token!Next
    /\ Token!TypeOK <=> ServiceLemmas!Token!TypeOK
    /\ Token!LinkIsWhole <=> ServiceLemmas!Token!LinkIsWhole
BY DEF Token!Init, Token!Clear, Token!Asker, Token!Keeper, Token!Proof, Token!Rest,
       Token!Fresh, Token!Next, Token!Connect, Token!New, Token!Outdate,
       Token!RetireCalls, Token!Retired, Token!Withdraw, Token!ToldRemoved, Token!Owner,
       Token!Disconnect, Token!EndDisconnect, Token!KeeperLooks, Token!Renews,
       Token!Linked, Token!Expired, Token!Ask, Token!Use, Token!Answer, Token!Renewed,
       Token!Asking, Token!Foreign, Token!Refused, Token!Failure, Token!MarkReauth,
       Token!Marks, Token!Failed, Token!EndRenewal, Token!Prove, Token!Proved,
       Token!Tick, Token!Aged, Token!Less, Token!TypeOK, Token!Credentials,
       Token!LinkIsWhole, ServiceLemmas!Token!Init, ServiceLemmas!Token!Clear,
       ServiceLemmas!Token!Asker, ServiceLemmas!Token!Keeper, ServiceLemmas!Token!Proof,
       ServiceLemmas!Token!Rest, ServiceLemmas!Token!Fresh, ServiceLemmas!Token!Next,
       ServiceLemmas!Token!Connect, ServiceLemmas!Token!New,
       ServiceLemmas!Token!Outdate, ServiceLemmas!Token!RetireCalls,
       ServiceLemmas!Token!Retired, ServiceLemmas!Token!Withdraw,
       ServiceLemmas!Token!ToldRemoved, ServiceLemmas!Token!Owner,
       ServiceLemmas!Token!Disconnect, ServiceLemmas!Token!EndDisconnect,
       ServiceLemmas!Token!KeeperLooks, ServiceLemmas!Token!Renews,
       ServiceLemmas!Token!Linked, ServiceLemmas!Token!Expired, ServiceLemmas!Token!Ask,
       ServiceLemmas!Token!Use, ServiceLemmas!Token!Answer, ServiceLemmas!Token!Renewed,
       ServiceLemmas!Token!Asking, ServiceLemmas!Token!Foreign,
       ServiceLemmas!Token!Refused, ServiceLemmas!Token!Failure,
       ServiceLemmas!Token!MarkReauth, ServiceLemmas!Token!Marks,
       ServiceLemmas!Token!Failed, ServiceLemmas!Token!EndRenewal,
       ServiceLemmas!Token!Prove, ServiceLemmas!Token!Proved, ServiceLemmas!Token!Tick,
       ServiceLemmas!Token!Aged, ServiceLemmas!Token!Less, ServiceLemmas!Token!TypeOK,
       ServiceLemmas!Token!Credentials, ServiceLemmas!Token!LinkIsWhole, link

\* Its invariant holds at the start and after every step, and implies the properties.
LEMMA TokenKept ==
    /\ Init /\ part = "token" => ServiceLemmas!TokenInv
    /\ ServiceLemmas!TokenInv /\ part = "token" /\ [Next]_vars => ServiceLemmas!TokenInv'
    /\ ServiceLemmas!TokenInv => /\ Token!TypeOK
                              /\ Token!LinkIsWhole
<1>1. ServiceLemmas!TokenParameters
  BY TokenAssumption DEF ServiceLemmas!TokenParameters
<1>2. [Next]_vars /\ part = "token" => [ServiceLemmas!Token!Next]_(ServiceLemmas!Token!vars)
  BY TokenSame DEF Next, vars, ServiceLemmas!Token!vars, link, call, track, leaving, due, removed
<1>3. Init /\ part = "token" => ServiceLemmas!Token!Init
  BY TokenSame DEF Init
<1> QED BY <1>1, <1>2, <1>3, TokenSame, ServiceLemmas!TokenInit, ServiceLemmas!TokenStep DEF ServiceLemmas!TokenInv

-----------------------------------------------------------------------------
(* The tasks of the agent.                                                 *)

\* The component of MCParts is the one the lemmas are about.
LEMMA AgentSame ==
    /\ Agent!Init <=> ServiceLemmas!Agent!Init
    /\ Agent!Next <=> ServiceLemmas!Agent!Next
    /\ Agent!TypeOK <=> ServiceLemmas!Agent!TypeOK
    /\ Agent!SecondEffectNeedsLoss <=> ServiceLemmas!Agent!SecondEffectNeedsLoss
BY DEF Agent!Init, Agent!Next, Agent!Post, Agent!Found, Agent!Create, Agent!Listed,
       Agent!KeysOf, Agent!Dropped, Agent!Replay, Agent!ToolReturns, Agent!Ends,
       Agent!Done, Agent!ToolTimesOut, Agent!Task, Agent!StrayEnds, Agent!SaveTasks,
       Agent!Restart, Agent!TypeOK, Agent!Lists, Agent!Record, Agent!Status,
       Agent!SecondEffectNeedsLoss, Agent!Cardinality, Agent!IsFiniteSet, Agent!ToSet,
       ServiceLemmas!Agent!Init, ServiceLemmas!Agent!Next, ServiceLemmas!Agent!Post,
       ServiceLemmas!Agent!Found, ServiceLemmas!Agent!Create,
       ServiceLemmas!Agent!Listed, ServiceLemmas!Agent!KeysOf,
       ServiceLemmas!Agent!Dropped, ServiceLemmas!Agent!Replay,
       ServiceLemmas!Agent!ToolReturns, ServiceLemmas!Agent!Ends,
       ServiceLemmas!Agent!Done, ServiceLemmas!Agent!ToolTimesOut,
       ServiceLemmas!Agent!Task, ServiceLemmas!Agent!StrayEnds,
       ServiceLemmas!Agent!SaveTasks, ServiceLemmas!Agent!Restart,
       ServiceLemmas!Agent!TypeOK, ServiceLemmas!Agent!Lists,
       ServiceLemmas!Agent!Record, ServiceLemmas!Agent!Status,
       ServiceLemmas!Agent!SecondEffectNeedsLoss, ServiceLemmas!Agent!Cardinality,
       ServiceLemmas!Agent!IsFiniteSet, ServiceLemmas!Agent!ToSet, order, record, saved,
       slot, stray, effects, lost

\* Its invariant holds at the start and after every step, and implies the properties.
LEMMA AgentKept ==
    /\ Init /\ part = "agent" => ServiceLemmas!AgentInv
    /\ ServiceLemmas!AgentInv /\ part = "agent" /\ [Next]_vars => ServiceLemmas!AgentInv'
    /\ ServiceLemmas!AgentInv => /\ Agent!TypeOK
                              /\ Agent!SecondEffectNeedsLoss
<1>1. ServiceLemmas!AgentParameters
  BY DEF ServiceLemmas!AgentParameters
<1>2. [Next]_vars /\ part = "agent" => [ServiceLemmas!Agent!Next]_(ServiceLemmas!Agent!vars)
  BY AgentSame DEF Next, vars, ServiceLemmas!Agent!vars, order, record, saved, slot, stray, effects, lost
<1>3. Init /\ part = "agent" => ServiceLemmas!Agent!Init
  BY AgentSame DEF Init
<1> QED BY <1>1, <1>2, <1>3, AgentSame, ServiceLemmas!AgentInit,
           ServiceLemmas!AgentStep, ServiceLemmas!AgentImplies

-----------------------------------------------------------------------------
(* The alerts to the owner.                                                *)

\* The component of MCParts is the one the lemmas are about.
LEMMA AlertsSame ==
    /\ Alerts!Init <=> ServiceLemmas!Alerts!Init
    /\ Alerts!Next <=> ServiceLemmas!Alerts!Next
    /\ Alerts!LeavesAsMarked <=> ServiceLemmas!Alerts!LeavesAsMarked
    /\ Alerts!TypeOK <=> ServiceLemmas!Alerts!TypeOK
    /\ Alerts!MarkedWasMailedOrLate <=> ServiceLemmas!Alerts!MarkedWasMailedOrLate
    /\ Alerts!SecondMailNeedsLoss <=> ServiceLemmas!Alerts!SecondMailNeedsLoss
BY DEF Alerts!Init, Alerts!Key, Alerts!Next, Alerts!Record, Alerts!Enqueued,
       Alerts!Known, Alerts!Newest, Alerts!Queue, Alerts!OnTheWay, Alerts!Break,
       Alerts!Reconnect, Alerts!Toggle, Alerts!SaveControl, Alerts!WindowEnds,
       Alerts!Cycle, Alerts!Free, Alerts!Reauth, Alerts!Forget, Alerts!Due, Alerts!Sent,
       Alerts!Arrive, Alerts!Min2, Alerts!MarkedSent, Alerts!Overflown, Alerts!Failed,
       Alerts!Released, Alerts!MarkedFailed, Alerts!Restart, Alerts!Restored,
       Alerts!LeavesAsMarked, Alerts!TypeOK, Alerts!State, Alerts!Seqs,
       Alerts!MarkedWasMailedOrLate, Alerts!SecondMailNeedsLoss, Alerts!FoldSet,
       Alerts!MapThenFoldSet, Alerts!ToSet, ServiceLemmas!Alerts!Init,
       ServiceLemmas!Alerts!Key, ServiceLemmas!Alerts!Next, ServiceLemmas!Alerts!Record,
       ServiceLemmas!Alerts!Enqueued, ServiceLemmas!Alerts!Known,
       ServiceLemmas!Alerts!Newest, ServiceLemmas!Alerts!Queue,
       ServiceLemmas!Alerts!OnTheWay, ServiceLemmas!Alerts!Break,
       ServiceLemmas!Alerts!Reconnect, ServiceLemmas!Alerts!Toggle,
       ServiceLemmas!Alerts!SaveControl, ServiceLemmas!Alerts!WindowEnds,
       ServiceLemmas!Alerts!Cycle, ServiceLemmas!Alerts!Free,
       ServiceLemmas!Alerts!Reauth, ServiceLemmas!Alerts!Forget,
       ServiceLemmas!Alerts!Due, ServiceLemmas!Alerts!Sent, ServiceLemmas!Alerts!Arrive,
       ServiceLemmas!Alerts!Min2, ServiceLemmas!Alerts!MarkedSent,
       ServiceLemmas!Alerts!Overflown, ServiceLemmas!Alerts!Failed,
       ServiceLemmas!Alerts!Released, ServiceLemmas!Alerts!MarkedFailed,
       ServiceLemmas!Alerts!Restart, ServiceLemmas!Alerts!Restored,
       ServiceLemmas!Alerts!LeavesAsMarked, ServiceLemmas!Alerts!TypeOK,
       ServiceLemmas!Alerts!State, ServiceLemmas!Alerts!Seqs,
       ServiceLemmas!Alerts!MarkedWasMailedOrLate,
       ServiceLemmas!Alerts!SecondMailNeedsLoss, ServiceLemmas!Alerts!FoldSet,
       ServiceLemmas!Alerts!MapThenFoldSet, ServiceLemmas!Alerts!ToSet, alerts, saved,
       cycle, inFlight, broken, mails, excused, late, cut

\* Its invariant holds at the start and after every step, and implies the properties.
LEMMA AlertsKept ==
    /\ Init /\ part = "alerts" => ServiceLemmas!AlertsInv
    /\ ServiceLemmas!AlertsInv /\ part = "alerts" /\ [Next]_vars => ServiceLemmas!AlertsInv'
    /\ ServiceLemmas!AlertsInv => /\ Alerts!TypeOK
                               /\ Alerts!MarkedWasMailedOrLate
                               /\ Alerts!SecondMailNeedsLoss
    /\ ServiceLemmas!AlertsInv /\ part = "alerts" /\ [Next]_vars => Alerts!LeavesAsMarked
<1>1. ServiceLemmas!AlertsParameters
  BY AlertsAssumption DEF ServiceLemmas!AlertsParameters,
         IsFiniteSet, ServiceLemmas!IsFiniteSet
<1>2. [Next]_vars /\ part = "alerts" => [ServiceLemmas!Alerts!Next]_(ServiceLemmas!Alerts!vars)
  BY AlertsSame DEF Next, vars, ServiceLemmas!Alerts!vars, alerts, saved, cycle, inFlight, broken, mails, excused,
     late, cut
<1>3. Init /\ part = "alerts" => ServiceLemmas!Alerts!Init
  BY AlertsSame DEF Init
<1>4. ServiceLemmas!AlertsInv /\ part = "alerts" /\ [Next]_vars => Alerts!LeavesAsMarked
  BY <1>1, <1>2, AlertsSame, ServiceLemmas!AlertsStep, ServiceLemmas!AlertsLeave
<1> QED BY <1>4, <1>1, <1>2, <1>3, AlertsSame, ServiceLemmas!AlertsInit,
           ServiceLemmas!AlertsStep, ServiceLemmas!AlertsImplies

-----------------------------------------------------------------------------
(* The jobs that publish through a second reservation.                     *)

\* The component of MCParts is the one the lemmas are about.
LEMMA NestedSame ==
    /\ Nested!Init <=> PairLemmas!Jobs!Init
    /\ Nested!Next <=> PairLemmas!Jobs!Next
    /\ Nested!TypeOK <=> PairLemmas!Jobs!TypeOK
    /\ Nested!RetryFindsFree <=> PairLemmas!Jobs!RetryFindsFree
    /\ Nested!CancelledStays <=> PairLemmas!Jobs!CancelledStays
    /\ Nested!SecondPostNeedsLoss <=> PairLemmas!Jobs!SecondPostNeedsLoss
BY DEF Nested!Init, Nested!Rest, Nested!Level, Nested!Next, Nested!Deciding,
       Nested!Create, Nested!Decision, Nested!Provider, Nested!Approve, Nested!Cancel,
       Nested!Retry, Nested!AgentDecision, Nested!Status, Nested!Preflight, Nested!Due,
       Nested!Running, Nested!Execute, Nested!Refused, Nested!Reserve, Nested!Blocked,
       Nested!Send, Nested!Published, Nested!Answered, Nested!OneMore,
       Nested!QuotaSpent, Nested!Declined, Nested!Misjudged, Nested!AnswerLost,
       Nested!EndPublish, Nested!Concluded, Nested!EndJob, Nested!Expire,
       Nested!Executing, Nested!SaveState, Nested!Restart, Nested!Cut, Nested!TypeOK,
       Nested!Work, Nested!Stage, Nested!Outcome, Nested!RetryFindsFree,
       Nested!CancelledStays, Nested!SecondPostNeedsLoss, PairLemmas!Jobs!Init,
       PairLemmas!Jobs!Rest, PairLemmas!Jobs!Level, PairLemmas!Jobs!Next,
       PairLemmas!Jobs!Deciding, PairLemmas!Jobs!Create, PairLemmas!Jobs!Decision,
       PairLemmas!Jobs!Provider, PairLemmas!Jobs!Approve, PairLemmas!Jobs!Cancel,
       PairLemmas!Jobs!Retry, PairLemmas!Jobs!AgentDecision, PairLemmas!Jobs!Status,
       PairLemmas!Jobs!Preflight, PairLemmas!Jobs!Due, PairLemmas!Jobs!Running,
       PairLemmas!Jobs!Execute, PairLemmas!Jobs!Refused, PairLemmas!Jobs!Reserve,
       PairLemmas!Jobs!Blocked, PairLemmas!Jobs!Send, PairLemmas!Jobs!Published,
       PairLemmas!Jobs!Answered, PairLemmas!Jobs!OneMore, PairLemmas!Jobs!QuotaSpent,
       PairLemmas!Jobs!Declined, PairLemmas!Jobs!Misjudged, PairLemmas!Jobs!AnswerLost,
       PairLemmas!Jobs!EndPublish, PairLemmas!Jobs!Concluded, PairLemmas!Jobs!EndJob,
       PairLemmas!Jobs!Expire, PairLemmas!Jobs!Executing, PairLemmas!Jobs!SaveState,
       PairLemmas!Jobs!Restart, PairLemmas!Jobs!Cut, PairLemmas!Jobs!TypeOK,
       PairLemmas!Jobs!Work, PairLemmas!Jobs!Stage, PairLemmas!Jobs!Outcome,
       PairLemmas!Jobs!RetryFindsFree, PairLemmas!Jobs!CancelledStays,
       PairLemmas!Jobs!SecondPostNeedsLoss, status, saved, task, res, posts, lost,
       withdrawn

\* Its invariant holds at the start and after every step, and implies the properties.
LEMMA NestedKept ==
    /\ Init /\ part = "nested" => PairLemmas!JobsInv
    /\ PairLemmas!JobsInv /\ part = "nested" /\ [Next]_vars => PairLemmas!JobsInv'
    /\ PairLemmas!JobsInv => /\ Nested!TypeOK
                          /\ Nested!RetryFindsFree
                          /\ Nested!CancelledStays
                          /\ Nested!SecondPostNeedsLoss
<1>1. PairLemmas!JobsParameters
  BY DEF PairLemmas!JobsParameters
<1>2. [Next]_vars /\ part = "nested" => [PairLemmas!Jobs!Next]_(PairLemmas!Jobs!vars)
  BY NestedSame DEF Next, vars, PairLemmas!Jobs!vars, status, saved, task, res, posts, lost, withdrawn
<1>3. Init /\ part = "nested" => PairLemmas!Jobs!Init
  BY NestedSame DEF Init
<1> QED BY <1>1, <1>2, <1>3, NestedSame, PairLemmas!JobsInit, PairLemmas!JobsStep,
           PairLemmas!JobsImplies

-----------------------------------------------------------------------------
(* The jobs that send directly.                                            *)

\* The component of MCParts is the one the lemmas are about.
LEMMA MessagesSame ==
    /\ Messages!Init <=> EditsLemmas!Jobs!Init
    /\ Messages!Next <=> EditsLemmas!Jobs!Next
    /\ Messages!TypeOK <=> EditsLemmas!Jobs!TypeOK
    /\ Messages!RetryFindsFree <=> EditsLemmas!Jobs!RetryFindsFree
    /\ Messages!CancelledStays <=> EditsLemmas!Jobs!CancelledStays
    /\ Messages!SecondPostNeedsLoss <=> EditsLemmas!Jobs!SecondPostNeedsLoss
BY DEF Messages!Init, Messages!Rest, Messages!Level, Messages!Next, Messages!Deciding,
       Messages!Create, Messages!Decision, Messages!Provider, Messages!Approve,
       Messages!Cancel, Messages!Retry, Messages!AgentDecision, Messages!Status,
       Messages!Preflight, Messages!Due, Messages!Running, Messages!Execute,
       Messages!Refused, Messages!Reserve, Messages!Blocked, Messages!Send,
       Messages!Published, Messages!Answered, Messages!OneMore, Messages!QuotaSpent,
       Messages!Declined, Messages!Misjudged, Messages!AnswerLost, Messages!EndPublish,
       Messages!Concluded, Messages!EndJob, Messages!Expire, Messages!Executing,
       Messages!SaveState, Messages!Restart, Messages!Cut, Messages!TypeOK,
       Messages!Work, Messages!Stage, Messages!Outcome, Messages!RetryFindsFree,
       Messages!CancelledStays, Messages!SecondPostNeedsLoss, EditsLemmas!Jobs!Init,
       EditsLemmas!Jobs!Rest, EditsLemmas!Jobs!Level, EditsLemmas!Jobs!Next,
       EditsLemmas!Jobs!Deciding, EditsLemmas!Jobs!Create, EditsLemmas!Jobs!Decision,
       EditsLemmas!Jobs!Provider, EditsLemmas!Jobs!Approve, EditsLemmas!Jobs!Cancel,
       EditsLemmas!Jobs!Retry, EditsLemmas!Jobs!AgentDecision, EditsLemmas!Jobs!Status,
       EditsLemmas!Jobs!Preflight, EditsLemmas!Jobs!Due, EditsLemmas!Jobs!Running,
       EditsLemmas!Jobs!Execute, EditsLemmas!Jobs!Refused, EditsLemmas!Jobs!Reserve,
       EditsLemmas!Jobs!Blocked, EditsLemmas!Jobs!Send, EditsLemmas!Jobs!Published,
       EditsLemmas!Jobs!Answered, EditsLemmas!Jobs!OneMore, EditsLemmas!Jobs!QuotaSpent,
       EditsLemmas!Jobs!Declined, EditsLemmas!Jobs!Misjudged,
       EditsLemmas!Jobs!AnswerLost, EditsLemmas!Jobs!EndPublish,
       EditsLemmas!Jobs!Concluded, EditsLemmas!Jobs!EndJob, EditsLemmas!Jobs!Expire,
       EditsLemmas!Jobs!Executing, EditsLemmas!Jobs!SaveState, EditsLemmas!Jobs!Restart,
       EditsLemmas!Jobs!Cut, EditsLemmas!Jobs!TypeOK, EditsLemmas!Jobs!Work,
       EditsLemmas!Jobs!Stage, EditsLemmas!Jobs!Outcome,
       EditsLemmas!Jobs!RetryFindsFree, EditsLemmas!Jobs!CancelledStays,
       EditsLemmas!Jobs!SecondPostNeedsLoss, status, saved, task, res, posts, lost,
       withdrawn

\* Its invariant holds at the start and after every step, and implies the properties.
LEMMA MessagesKept ==
    /\ Init /\ part = "messages" => EditsLemmas!JobsInv
    /\ EditsLemmas!JobsInv /\ part = "messages" /\ [Next]_vars => EditsLemmas!JobsInv'
    /\ EditsLemmas!JobsInv => /\ Messages!TypeOK
                           /\ Messages!RetryFindsFree
                           /\ Messages!CancelledStays
                           /\ Messages!SecondPostNeedsLoss
<1>1. EditsLemmas!JobsParameters
  BY DEF EditsLemmas!JobsParameters
<1>2. [Next]_vars /\ part = "messages" => [EditsLemmas!Jobs!Next]_(EditsLemmas!Jobs!vars)
  BY MessagesSame DEF Next, vars, EditsLemmas!Jobs!vars, status, saved, task, res, posts, lost, withdrawn
<1>3. Init /\ part = "messages" => EditsLemmas!Jobs!Init
  BY MessagesSame DEF Init
<1> QED BY <1>1, <1>2, <1>3, MessagesSame, EditsLemmas!JobsInit, EditsLemmas!JobsStep,
           EditsLemmas!JobsImplies

-----------------------------------------------------------------------------
(* The replies: two decisions at once.                                     *)

\* The component of MCParts is the one the lemmas are about.
LEMMA PairSame ==
    /\ Pair!Init <=> PairLemmas!Replies!Init
    /\ Pair!Next <=> PairLemmas!Replies!Next
    /\ Pair!TypeOK <=> PairLemmas!Replies!TypeOK
    /\ Pair!SentIsTrue <=> PairLemmas!Replies!SentIsTrue
    /\ Pair!SecondReplyNeedsLoss <=> PairLemmas!Replies!SecondReplyNeedsLoss
    /\ Pair!RejectionStands <=> PairLemmas!Replies!RejectionStands
    /\ Pair!AskedIsKept <=> PairLemmas!Replies!AskedIsKept
BY DEF Pair!Init, Pair!Id, Pair!NoRow, Pair!Rest, Pair!Key, Pair!Kind, Pair!Next,
       Pair!Preparing, Pair!Prepare, Pair!Decided, Pair!RowsOf, Pair!Cut, Pair!Live,
       Pair!Oldest, Pair!Provider, Pair!SaveLeads, Pair!Leads, Pair!Recorded,
       Pair!Found, Pair!StartDraft, Pair!NoDraft, Pair!FinishDraft, Pair!Superseded,
       Pair!Drafted, Pair!Working, Pair!CloseDraft, Pair!Deciding, Pair!RejectRow,
       Pair!DecidedForGood, Pair!ApproveRow, Pair!Captured, Pair!RejectDraft,
       Pair!ApproveDraft, Pair!Executing, Pair!Refused, Pair!Write, Pair!Outcome,
       Pair!Send, Pair!Clear, Pair!Held, Pair!Delivered, Pair!Answered, Pair!Arrived,
       Pair!OneMore, Pair!Declined, Pair!Misjudged, Pair!AnswerLost, Pair!End,
       Pair!Concluded, Pair!Expire, Pair!SaveCycle, Pair!Settle, Pair!Restart,
       Pair!Sending, Pair!TypeOK, Pair!Row, Pair!Status, Pair!Draft, Pair!Work,
       Pair!SentIsTrue, Pair!SecondReplyNeedsLoss, Pair!RejectionStands,
       Pair!AskedIsKept, Pair!Cardinality, Pair!IsFiniteSet, PairLemmas!Replies!Init,
       PairLemmas!Replies!Id, PairLemmas!Replies!NoRow, PairLemmas!Replies!Rest,
       PairLemmas!Replies!Key, PairLemmas!Replies!Kind, PairLemmas!Replies!Next,
       PairLemmas!Replies!Preparing, PairLemmas!Replies!Prepare,
       PairLemmas!Replies!Decided, PairLemmas!Replies!RowsOf, PairLemmas!Replies!Cut,
       PairLemmas!Replies!Live, PairLemmas!Replies!Oldest, PairLemmas!Replies!Provider,
       PairLemmas!Replies!SaveLeads, PairLemmas!Replies!Leads,
       PairLemmas!Replies!Recorded, PairLemmas!Replies!Found,
       PairLemmas!Replies!StartDraft, PairLemmas!Replies!NoDraft,
       PairLemmas!Replies!FinishDraft, PairLemmas!Replies!Superseded,
       PairLemmas!Replies!Drafted, PairLemmas!Replies!Working,
       PairLemmas!Replies!CloseDraft, PairLemmas!Replies!Deciding,
       PairLemmas!Replies!RejectRow, PairLemmas!Replies!DecidedForGood,
       PairLemmas!Replies!ApproveRow, PairLemmas!Replies!Captured,
       PairLemmas!Replies!RejectDraft, PairLemmas!Replies!ApproveDraft,
       PairLemmas!Replies!Executing, PairLemmas!Replies!Refused,
       PairLemmas!Replies!Write, PairLemmas!Replies!Outcome, PairLemmas!Replies!Send,
       PairLemmas!Replies!Clear, PairLemmas!Replies!Held, PairLemmas!Replies!Delivered,
       PairLemmas!Replies!Answered, PairLemmas!Replies!Arrived,
       PairLemmas!Replies!OneMore, PairLemmas!Replies!Declined,
       PairLemmas!Replies!Misjudged, PairLemmas!Replies!AnswerLost,
       PairLemmas!Replies!End, PairLemmas!Replies!Concluded, PairLemmas!Replies!Expire,
       PairLemmas!Replies!SaveCycle, PairLemmas!Replies!Settle,
       PairLemmas!Replies!Restart, PairLemmas!Replies!Sending,
       PairLemmas!Replies!TypeOK, PairLemmas!Replies!Row, PairLemmas!Replies!Status,
       PairLemmas!Replies!Draft, PairLemmas!Replies!Work, PairLemmas!Replies!SentIsTrue,
       PairLemmas!Replies!SecondReplyNeedsLoss, PairLemmas!Replies!RejectionStands,
       PairLemmas!Replies!AskedIsKept, PairLemmas!Replies!Cardinality,
       PairLemmas!Replies!IsFiniteSet, rows, drafts, saved, task, preparing, history,
       res, replies, got, lost, asked, refused, made

\* Its invariant holds at the start and after every step, and implies the properties.
LEMMA PairKept ==
    /\ Init /\ part = "pair" => PairLemmas!RepliesInv
    /\ PairLemmas!RepliesInv /\ part = "pair" /\ [Next]_vars => PairLemmas!RepliesInv'
    /\ PairLemmas!RepliesInv => /\ Pair!TypeOK
                             /\ Pair!SentIsTrue
                             /\ Pair!SecondReplyNeedsLoss
                             /\ Pair!RejectionStands
                             /\ Pair!AskedIsKept
<1>1. PairLemmas!RepliesParameters
  BY DEF PairLemmas!RepliesParameters
<1>2. [Next]_vars /\ part = "pair" => [PairLemmas!Replies!Next]_(PairLemmas!Replies!vars)
  BY PairSame DEF Next, vars, PairLemmas!Replies!vars, rows, drafts, saved, task, preparing, history, res,
     replies, got, lost, asked, refused, made
<1>3. Init /\ part = "pair" => PairLemmas!Replies!Init
  BY PairSame DEF Init
<1> QED BY <1>1, <1>2, <1>3, PairSame, PairLemmas!RepliesInit, PairLemmas!RepliesStep,
           PairLemmas!RepliesImplies

-----------------------------------------------------------------------------
(* The replies: two rows and two texts.                                    *)

\* The component of MCParts is the one the lemmas are about.
LEMMA EditsSame ==
    /\ Edits!Init <=> EditsLemmas!Replies!Init
    /\ Edits!Next <=> EditsLemmas!Replies!Next
    /\ Edits!TypeOK <=> EditsLemmas!Replies!TypeOK
    /\ Edits!SentIsTrue <=> EditsLemmas!Replies!SentIsTrue
    /\ Edits!SecondReplyNeedsLoss <=> EditsLemmas!Replies!SecondReplyNeedsLoss
    /\ Edits!RejectionStands <=> EditsLemmas!Replies!RejectionStands
    /\ Edits!AskedIsKept <=> EditsLemmas!Replies!AskedIsKept
BY DEF Edits!Init, Edits!Id, Edits!NoRow, Edits!Rest, Edits!Key, Edits!Kind, Edits!Next,
       Edits!Preparing, Edits!Prepare, Edits!Decided, Edits!RowsOf, Edits!Cut,
       Edits!Live, Edits!Oldest, Edits!Provider, Edits!SaveLeads, Edits!Leads,
       Edits!Recorded, Edits!Found, Edits!StartDraft, Edits!NoDraft, Edits!FinishDraft,
       Edits!Superseded, Edits!Drafted, Edits!Working, Edits!CloseDraft, Edits!Deciding,
       Edits!RejectRow, Edits!DecidedForGood, Edits!ApproveRow, Edits!Captured,
       Edits!RejectDraft, Edits!ApproveDraft, Edits!Executing, Edits!Refused,
       Edits!Write, Edits!Outcome, Edits!Send, Edits!Clear, Edits!Held, Edits!Delivered,
       Edits!Answered, Edits!Arrived, Edits!OneMore, Edits!Declined, Edits!Misjudged,
       Edits!AnswerLost, Edits!End, Edits!Concluded, Edits!Expire, Edits!SaveCycle,
       Edits!Settle, Edits!Restart, Edits!Sending, Edits!TypeOK, Edits!Row,
       Edits!Status, Edits!Draft, Edits!Work, Edits!SentIsTrue,
       Edits!SecondReplyNeedsLoss, Edits!RejectionStands, Edits!AskedIsKept,
       Edits!Cardinality, Edits!IsFiniteSet, EditsLemmas!Replies!Init,
       EditsLemmas!Replies!Id, EditsLemmas!Replies!NoRow, EditsLemmas!Replies!Rest,
       EditsLemmas!Replies!Key, EditsLemmas!Replies!Kind, EditsLemmas!Replies!Next,
       EditsLemmas!Replies!Preparing, EditsLemmas!Replies!Prepare,
       EditsLemmas!Replies!Decided, EditsLemmas!Replies!RowsOf, EditsLemmas!Replies!Cut,
       EditsLemmas!Replies!Live, EditsLemmas!Replies!Oldest,
       EditsLemmas!Replies!Provider, EditsLemmas!Replies!SaveLeads,
       EditsLemmas!Replies!Leads, EditsLemmas!Replies!Recorded,
       EditsLemmas!Replies!Found, EditsLemmas!Replies!StartDraft,
       EditsLemmas!Replies!NoDraft, EditsLemmas!Replies!FinishDraft,
       EditsLemmas!Replies!Superseded, EditsLemmas!Replies!Drafted,
       EditsLemmas!Replies!Working, EditsLemmas!Replies!CloseDraft,
       EditsLemmas!Replies!Deciding, EditsLemmas!Replies!RejectRow,
       EditsLemmas!Replies!DecidedForGood, EditsLemmas!Replies!ApproveRow,
       EditsLemmas!Replies!Captured, EditsLemmas!Replies!RejectDraft,
       EditsLemmas!Replies!ApproveDraft, EditsLemmas!Replies!Executing,
       EditsLemmas!Replies!Refused, EditsLemmas!Replies!Write,
       EditsLemmas!Replies!Outcome, EditsLemmas!Replies!Send, EditsLemmas!Replies!Clear,
       EditsLemmas!Replies!Held, EditsLemmas!Replies!Delivered,
       EditsLemmas!Replies!Answered, EditsLemmas!Replies!Arrived,
       EditsLemmas!Replies!OneMore, EditsLemmas!Replies!Declined,
       EditsLemmas!Replies!Misjudged, EditsLemmas!Replies!AnswerLost,
       EditsLemmas!Replies!End, EditsLemmas!Replies!Concluded,
       EditsLemmas!Replies!Expire, EditsLemmas!Replies!SaveCycle,
       EditsLemmas!Replies!Settle, EditsLemmas!Replies!Restart,
       EditsLemmas!Replies!Sending, EditsLemmas!Replies!TypeOK, EditsLemmas!Replies!Row,
       EditsLemmas!Replies!Status, EditsLemmas!Replies!Draft, EditsLemmas!Replies!Work,
       EditsLemmas!Replies!SentIsTrue, EditsLemmas!Replies!SecondReplyNeedsLoss,
       EditsLemmas!Replies!RejectionStands, EditsLemmas!Replies!AskedIsKept,
       EditsLemmas!Replies!Cardinality, EditsLemmas!Replies!IsFiniteSet, rows, drafts,
       saved, task, preparing, history, res, replies, got, lost, asked, refused, made

\* Its invariant holds at the start and after every step, and implies the properties.
LEMMA EditsKept ==
    /\ Init /\ part = "edits" => EditsLemmas!RepliesInv
    /\ EditsLemmas!RepliesInv /\ part = "edits" /\ [Next]_vars => EditsLemmas!RepliesInv'
    /\ EditsLemmas!RepliesInv => /\ Edits!TypeOK
                              /\ Edits!SentIsTrue
                              /\ Edits!SecondReplyNeedsLoss
                              /\ Edits!RejectionStands
                              /\ Edits!AskedIsKept
<1>1. EditsLemmas!RepliesParameters
  BY DEF EditsLemmas!RepliesParameters
<1>2. [Next]_vars /\ part = "edits" => [EditsLemmas!Replies!Next]_(EditsLemmas!Replies!vars)
  BY EditsSame DEF Next, vars, EditsLemmas!Replies!vars, rows, drafts, saved, task, preparing, history, res,
     replies, got, lost, asked, refused, made
<1>3. Init /\ part = "edits" => EditsLemmas!Replies!Init
  BY EditsSame DEF Init
<1> QED BY <1>1, <1>2, <1>3, EditsSame, EditsLemmas!RepliesInit,
           EditsLemmas!RepliesStep, EditsLemmas!RepliesImplies

-----------------------------------------------------------------------------
(* The replies: writes that fail or overtake each other.                   *)

\* The component of MCParts is the one the lemmas are about.
LEMMA UnsavedSame ==
    /\ Unsaved!Init <=> UnsavedLemmas!Replies!Init
    /\ Unsaved!Next <=> UnsavedLemmas!Replies!Next
    /\ Unsaved!TypeOK <=> UnsavedLemmas!Replies!TypeOK
    /\ Unsaved!SentIsTrue <=> UnsavedLemmas!Replies!SentIsTrue
    /\ Unsaved!SecondReplyNeedsLoss <=> UnsavedLemmas!Replies!SecondReplyNeedsLoss
    /\ Unsaved!RejectionStands <=> UnsavedLemmas!Replies!RejectionStands
    /\ Unsaved!AskedIsKept <=> UnsavedLemmas!Replies!AskedIsKept
BY DEF Unsaved!Init, Unsaved!Id, Unsaved!NoRow, Unsaved!Rest, Unsaved!Key, Unsaved!Kind,
       Unsaved!Next, Unsaved!Preparing, Unsaved!Prepare, Unsaved!Decided,
       Unsaved!RowsOf, Unsaved!Cut, Unsaved!Live, Unsaved!Oldest, Unsaved!Provider,
       Unsaved!SaveLeads, Unsaved!Leads, Unsaved!Recorded, Unsaved!Found,
       Unsaved!StartDraft, Unsaved!NoDraft, Unsaved!FinishDraft, Unsaved!Superseded,
       Unsaved!Drafted, Unsaved!Working, Unsaved!CloseDraft, Unsaved!Deciding,
       Unsaved!RejectRow, Unsaved!DecidedForGood, Unsaved!ApproveRow, Unsaved!Captured,
       Unsaved!RejectDraft, Unsaved!ApproveDraft, Unsaved!Executing, Unsaved!Refused,
       Unsaved!Write, Unsaved!Outcome, Unsaved!Send, Unsaved!Clear, Unsaved!Held,
       Unsaved!Delivered, Unsaved!Answered, Unsaved!Arrived, Unsaved!OneMore,
       Unsaved!Declined, Unsaved!Misjudged, Unsaved!AnswerLost, Unsaved!End,
       Unsaved!Concluded, Unsaved!Expire, Unsaved!SaveCycle, Unsaved!Settle,
       Unsaved!Restart, Unsaved!Sending, Unsaved!TypeOK, Unsaved!Row, Unsaved!Status,
       Unsaved!Draft, Unsaved!Work, Unsaved!SentIsTrue, Unsaved!SecondReplyNeedsLoss,
       Unsaved!RejectionStands, Unsaved!AskedIsKept, Unsaved!Cardinality,
       Unsaved!IsFiniteSet, UnsavedLemmas!Replies!Init, UnsavedLemmas!Replies!Id,
       UnsavedLemmas!Replies!NoRow, UnsavedLemmas!Replies!Rest,
       UnsavedLemmas!Replies!Key, UnsavedLemmas!Replies!Kind,
       UnsavedLemmas!Replies!Next, UnsavedLemmas!Replies!Preparing,
       UnsavedLemmas!Replies!Prepare, UnsavedLemmas!Replies!Decided,
       UnsavedLemmas!Replies!RowsOf, UnsavedLemmas!Replies!Cut,
       UnsavedLemmas!Replies!Live, UnsavedLemmas!Replies!Oldest,
       UnsavedLemmas!Replies!Provider, UnsavedLemmas!Replies!SaveLeads,
       UnsavedLemmas!Replies!Leads, UnsavedLemmas!Replies!Recorded,
       UnsavedLemmas!Replies!Found, UnsavedLemmas!Replies!StartDraft,
       UnsavedLemmas!Replies!NoDraft, UnsavedLemmas!Replies!FinishDraft,
       UnsavedLemmas!Replies!Superseded, UnsavedLemmas!Replies!Drafted,
       UnsavedLemmas!Replies!Working, UnsavedLemmas!Replies!CloseDraft,
       UnsavedLemmas!Replies!Deciding, UnsavedLemmas!Replies!RejectRow,
       UnsavedLemmas!Replies!DecidedForGood, UnsavedLemmas!Replies!ApproveRow,
       UnsavedLemmas!Replies!Captured, UnsavedLemmas!Replies!RejectDraft,
       UnsavedLemmas!Replies!ApproveDraft, UnsavedLemmas!Replies!Executing,
       UnsavedLemmas!Replies!Refused, UnsavedLemmas!Replies!Write,
       UnsavedLemmas!Replies!Outcome, UnsavedLemmas!Replies!Send,
       UnsavedLemmas!Replies!Clear, UnsavedLemmas!Replies!Held,
       UnsavedLemmas!Replies!Delivered, UnsavedLemmas!Replies!Answered,
       UnsavedLemmas!Replies!Arrived, UnsavedLemmas!Replies!OneMore,
       UnsavedLemmas!Replies!Declined, UnsavedLemmas!Replies!Misjudged,
       UnsavedLemmas!Replies!AnswerLost, UnsavedLemmas!Replies!End,
       UnsavedLemmas!Replies!Concluded, UnsavedLemmas!Replies!Expire,
       UnsavedLemmas!Replies!SaveCycle, UnsavedLemmas!Replies!Settle,
       UnsavedLemmas!Replies!Restart, UnsavedLemmas!Replies!Sending,
       UnsavedLemmas!Replies!TypeOK, UnsavedLemmas!Replies!Row,
       UnsavedLemmas!Replies!Status, UnsavedLemmas!Replies!Draft,
       UnsavedLemmas!Replies!Work, UnsavedLemmas!Replies!SentIsTrue,
       UnsavedLemmas!Replies!SecondReplyNeedsLoss,
       UnsavedLemmas!Replies!RejectionStands, UnsavedLemmas!Replies!AskedIsKept,
       UnsavedLemmas!Replies!Cardinality, UnsavedLemmas!Replies!IsFiniteSet, rows,
       drafts, saved, task, preparing, history, res, replies, got, lost, asked, refused,
       made

\* Its invariant holds at the start and after every step, and implies the properties.
LEMMA UnsavedKept ==
    /\ Init /\ part = "unsaved" => UnsavedLemmas!RepliesInv
    /\ UnsavedLemmas!RepliesInv /\ part = "unsaved" /\ [Next]_vars => UnsavedLemmas!RepliesInv'
    /\ UnsavedLemmas!RepliesInv => /\ Unsaved!TypeOK
                                /\ Unsaved!SentIsTrue
                                /\ Unsaved!SecondReplyNeedsLoss
                                /\ Unsaved!RejectionStands
                                /\ Unsaved!AskedIsKept
<1>1. UnsavedLemmas!RepliesParameters
  BY DEF UnsavedLemmas!RepliesParameters
<1>2. [Next]_vars /\ part = "unsaved" => [UnsavedLemmas!Replies!Next]_(UnsavedLemmas!Replies!vars)
  BY UnsavedSame DEF Next, vars, UnsavedLemmas!Replies!vars, rows, drafts, saved, task, preparing, history, res,
     replies, got, lost, asked, refused, made
<1>3. Init /\ part = "unsaved" => UnsavedLemmas!Replies!Init
  BY UnsavedSame DEF Init
<1> QED BY <1>1, <1>2, <1>3, UnsavedSame, UnsavedLemmas!RepliesInit,
           UnsavedLemmas!RepliesStep, UnsavedLemmas!RepliesImplies

-----------------------------------------------------------------------------
(* The replies: two comments on lists that hold one row and one draft.      *)

\* The component of MCParts is the one the lemmas are about.
LEMMA CrowdSame ==
    /\ Crowd!Init <=> CrowdLemmas!Replies!Init
    /\ Crowd!Next <=> CrowdLemmas!Replies!Next
    /\ Crowd!TypeOK <=> CrowdLemmas!Replies!TypeOK
    /\ Crowd!SentIsTrue <=> CrowdLemmas!Replies!SentIsTrue
    /\ Crowd!SecondReplyNeedsLoss <=> CrowdLemmas!Replies!SecondReplyNeedsLoss
    /\ Crowd!RejectionStands <=> CrowdLemmas!Replies!RejectionStands
    /\ Crowd!AskedIsKept <=> CrowdLemmas!Replies!AskedIsKept
BY DEF Crowd!Init, Crowd!Id, Crowd!NoRow, Crowd!Rest, Crowd!Key, Crowd!Kind, Crowd!Next,
       Crowd!Preparing, Crowd!Prepare, Crowd!Decided, Crowd!RowsOf, Crowd!Cut,
       Crowd!Live, Crowd!Oldest, Crowd!Provider, Crowd!SaveLeads, Crowd!Leads,
       Crowd!Recorded, Crowd!Found, Crowd!StartDraft, Crowd!NoDraft, Crowd!FinishDraft,
       Crowd!Superseded, Crowd!Drafted, Crowd!Working, Crowd!CloseDraft, Crowd!Deciding,
       Crowd!RejectRow, Crowd!DecidedForGood, Crowd!ApproveRow, Crowd!Captured,
       Crowd!RejectDraft, Crowd!ApproveDraft, Crowd!Executing, Crowd!Refused,
       Crowd!Write, Crowd!Outcome, Crowd!Send, Crowd!Clear, Crowd!Held, Crowd!Delivered,
       Crowd!Answered, Crowd!Arrived, Crowd!OneMore, Crowd!Declined, Crowd!Misjudged,
       Crowd!AnswerLost, Crowd!End, Crowd!Concluded, Crowd!Expire, Crowd!SaveCycle,
       Crowd!Settle, Crowd!Restart, Crowd!Sending, Crowd!TypeOK, Crowd!Row,
       Crowd!Status, Crowd!Draft, Crowd!Work, Crowd!SentIsTrue,
       Crowd!SecondReplyNeedsLoss, Crowd!RejectionStands, Crowd!AskedIsKept,
       Crowd!Cardinality, Crowd!IsFiniteSet, CrowdLemmas!Replies!Init,
       CrowdLemmas!Replies!Id, CrowdLemmas!Replies!NoRow, CrowdLemmas!Replies!Rest,
       CrowdLemmas!Replies!Key, CrowdLemmas!Replies!Kind, CrowdLemmas!Replies!Next,
       CrowdLemmas!Replies!Preparing, CrowdLemmas!Replies!Prepare,
       CrowdLemmas!Replies!Decided, CrowdLemmas!Replies!RowsOf, CrowdLemmas!Replies!Cut,
       CrowdLemmas!Replies!Live, CrowdLemmas!Replies!Oldest,
       CrowdLemmas!Replies!Provider, CrowdLemmas!Replies!SaveLeads,
       CrowdLemmas!Replies!Leads, CrowdLemmas!Replies!Recorded,
       CrowdLemmas!Replies!Found, CrowdLemmas!Replies!StartDraft,
       CrowdLemmas!Replies!NoDraft, CrowdLemmas!Replies!FinishDraft,
       CrowdLemmas!Replies!Superseded, CrowdLemmas!Replies!Drafted,
       CrowdLemmas!Replies!Working, CrowdLemmas!Replies!CloseDraft,
       CrowdLemmas!Replies!Deciding, CrowdLemmas!Replies!RejectRow,
       CrowdLemmas!Replies!DecidedForGood, CrowdLemmas!Replies!ApproveRow,
       CrowdLemmas!Replies!Captured, CrowdLemmas!Replies!RejectDraft,
       CrowdLemmas!Replies!ApproveDraft, CrowdLemmas!Replies!Executing,
       CrowdLemmas!Replies!Refused, CrowdLemmas!Replies!Write,
       CrowdLemmas!Replies!Outcome, CrowdLemmas!Replies!Send, CrowdLemmas!Replies!Clear,
       CrowdLemmas!Replies!Held, CrowdLemmas!Replies!Delivered,
       CrowdLemmas!Replies!Answered, CrowdLemmas!Replies!Arrived,
       CrowdLemmas!Replies!OneMore, CrowdLemmas!Replies!Declined,
       CrowdLemmas!Replies!Misjudged, CrowdLemmas!Replies!AnswerLost,
       CrowdLemmas!Replies!End, CrowdLemmas!Replies!Concluded,
       CrowdLemmas!Replies!Expire, CrowdLemmas!Replies!SaveCycle,
       CrowdLemmas!Replies!Settle, CrowdLemmas!Replies!Restart,
       CrowdLemmas!Replies!Sending, CrowdLemmas!Replies!TypeOK, CrowdLemmas!Replies!Row,
       CrowdLemmas!Replies!Status, CrowdLemmas!Replies!Draft, CrowdLemmas!Replies!Work,
       CrowdLemmas!Replies!SentIsTrue, CrowdLemmas!Replies!SecondReplyNeedsLoss,
       CrowdLemmas!Replies!RejectionStands, CrowdLemmas!Replies!AskedIsKept,
       CrowdLemmas!Replies!Cardinality, CrowdLemmas!Replies!IsFiniteSet, rows, drafts,
       saved, task, preparing, history, res, replies, got, lost, asked, refused, made

\* Its invariant holds at the start and after every step, and implies the properties.
LEMMA CrowdKept ==
    /\ Init /\ part = "crowd" => CrowdLemmas!RepliesInv
    /\ CrowdLemmas!RepliesInv /\ part = "crowd" /\ [Next]_vars => CrowdLemmas!RepliesInv'
    /\ CrowdLemmas!RepliesInv => /\ Crowd!TypeOK
                              /\ Crowd!SentIsTrue
                              /\ Crowd!SecondReplyNeedsLoss
                              /\ Crowd!RejectionStands
                              /\ Crowd!AskedIsKept
<1>1. CrowdLemmas!RepliesParameters
  BY DEF CrowdLemmas!RepliesParameters
<1>2. [Next]_vars /\ part = "crowd" => [CrowdLemmas!Replies!Next]_(CrowdLemmas!Replies!vars)
  BY CrowdSame DEF Next, vars, CrowdLemmas!Replies!vars, rows, drafts, saved, task, preparing, history, res,
     replies, got, lost, asked, refused, made
<1>3. Init /\ part = "crowd" => CrowdLemmas!Replies!Init
  BY CrowdSame DEF Init
<1> QED BY <1>1, <1>2, <1>3, CrowdSame, CrowdLemmas!RepliesInit,
           CrowdLemmas!RepliesStep, CrowdLemmas!RepliesImplies

-----------------------------------------------------------------------------
(* The content queue: items with and without a date.                        *)

\* The component of MCParts is the one the lemmas are about.
LEMMA QueueSame ==
    /\ Queue!Init <=> PairLemmas!Queue!Init
    /\ Queue!Next <=> PairLemmas!Queue!Next
    /\ Queue!TypeOK <=> PairLemmas!Queue!TypeOK
    /\ Queue!WithdrawnStays <=> PairLemmas!Queue!WithdrawnStays
    /\ Queue!SecondVideoNeedsLoss <=> PairLemmas!Queue!SecondVideoNeedsLoss
BY DEF Queue!Init, Queue!NoRow, Queue!Task, Queue!Rest, Queue!Next, Queue!Deciding,
       Queue!Refuse, Queue!Final, Queue!Withdraw, Queue!Save, Queue!Provider,
       Queue!Standing, Queue!Untouched, Queue!Working, Queue!Off, Queue!Approve,
       Queue!Decide, Queue!Edit, Queue!Version, Queue!DecisionBlocked, Queue!PublishNow,
       Queue!Captured, Queue!Schedule, Queue!AutoExecute, Queue!CreateDraft,
       Queue!Executing, Queue!Blocked, Queue!Send, Queue!KeyOf, Queue!Uploaded,
       Queue!Answered, Queue!OneMore, Queue!Unknown, Queue!QuotaSpent, Queue!Rejected,
       Queue!Misjudged, Queue!End, Queue!Finished, Queue!StartRetry, Queue!Waiting,
       Queue!RetryNext, Queue!Verify, Queue!Expire, Queue!SaveQueue, Queue!Settle,
       Queue!Restart, Queue!Restored, Queue!Cut, Queue!TypeOK, Queue!Row, Queue!State,
       Queue!Work, Queue!Stage, Queue!Outcome, Queue!Key, Queue!WithdrawnStays,
       Queue!SecondVideoNeedsLoss, Queue!Cardinality, Queue!IsFiniteSet,
       PairLemmas!Queue!Init, PairLemmas!Queue!NoRow, PairLemmas!Queue!Task,
       PairLemmas!Queue!Rest, PairLemmas!Queue!Next, PairLemmas!Queue!Deciding,
       PairLemmas!Queue!Refuse, PairLemmas!Queue!Final, PairLemmas!Queue!Withdraw,
       PairLemmas!Queue!Save, PairLemmas!Queue!Provider, PairLemmas!Queue!Standing,
       PairLemmas!Queue!Untouched, PairLemmas!Queue!Working, PairLemmas!Queue!Off,
       PairLemmas!Queue!Approve, PairLemmas!Queue!Decide, PairLemmas!Queue!Edit,
       PairLemmas!Queue!Version, PairLemmas!Queue!DecisionBlocked,
       PairLemmas!Queue!PublishNow, PairLemmas!Queue!Captured,
       PairLemmas!Queue!Schedule, PairLemmas!Queue!AutoExecute,
       PairLemmas!Queue!CreateDraft, PairLemmas!Queue!Executing,
       PairLemmas!Queue!Blocked, PairLemmas!Queue!Send, PairLemmas!Queue!KeyOf,
       PairLemmas!Queue!Uploaded, PairLemmas!Queue!Answered, PairLemmas!Queue!OneMore,
       PairLemmas!Queue!Unknown, PairLemmas!Queue!QuotaSpent, PairLemmas!Queue!Rejected,
       PairLemmas!Queue!Misjudged, PairLemmas!Queue!End, PairLemmas!Queue!Finished,
       PairLemmas!Queue!StartRetry, PairLemmas!Queue!Waiting,
       PairLemmas!Queue!RetryNext, PairLemmas!Queue!Verify, PairLemmas!Queue!Expire,
       PairLemmas!Queue!SaveQueue, PairLemmas!Queue!Settle, PairLemmas!Queue!Restart,
       PairLemmas!Queue!Restored, PairLemmas!Queue!Cut, PairLemmas!Queue!TypeOK,
       PairLemmas!Queue!Row, PairLemmas!Queue!State, PairLemmas!Queue!Work,
       PairLemmas!Queue!Stage, PairLemmas!Queue!Outcome, PairLemmas!Queue!Key,
       PairLemmas!Queue!WithdrawnStays, PairLemmas!Queue!SecondVideoNeedsLoss,
       PairLemmas!Queue!Cardinality, PairLemmas!Queue!IsFiniteSet, queue, saved, task,
       due, keys, savedKeys, res, videos, lost, decided, withdrawn

\* Its invariant holds at the start and after every step, and implies the properties.
LEMMA QueueKept ==
    /\ Init /\ part = "queue" => PairLemmas!QueueInv
    /\ PairLemmas!QueueInv /\ part = "queue" /\ [Next]_vars => PairLemmas!QueueInv'
    /\ PairLemmas!QueueInv => /\ Queue!TypeOK
                           /\ Queue!WithdrawnStays
                           /\ Queue!SecondVideoNeedsLoss
<1>1. PairLemmas!QueueParameters
  BY QueueAssumption DEF PairLemmas!QueueParameters
<1>2. [Next]_vars /\ part = "queue" => [PairLemmas!Queue!Next]_(PairLemmas!Queue!vars)
  BY QueueSame DEF Next, vars, PairLemmas!Queue!vars, queue, saved, task, due, keys, savedKeys, res, videos, lost,
     decided, withdrawn
<1>3. Init /\ part = "queue" => PairLemmas!Queue!Init
  BY QueueSame DEF Init
<1> QED BY <1>1, <1>2, <1>3, QueueSame, PairLemmas!QueueInit, PairLemmas!QueueStep,
           PairLemmas!QueueImplies

-----------------------------------------------------------------------------
(* The content queue: writes that overtake each other.                     *)

\* The component of MCParts is the one the lemmas are about.
LEMMA LateSame ==
    /\ Late!Init <=> CrowdLemmas!Queue!Init
    /\ Late!Next <=> CrowdLemmas!Queue!Next
    /\ Late!TypeOK <=> CrowdLemmas!Queue!TypeOK
    /\ Late!WithdrawnStays <=> CrowdLemmas!Queue!WithdrawnStays
    /\ Late!SecondVideoNeedsLoss <=> CrowdLemmas!Queue!SecondVideoNeedsLoss
BY DEF Late!Init, Late!NoRow, Late!Task, Late!Rest, Late!Next, Late!Deciding,
       Late!Refuse, Late!Final, Late!Withdraw, Late!Save, Late!Provider, Late!Standing,
       Late!Untouched, Late!Working, Late!Off, Late!Approve, Late!Decide, Late!Edit,
       Late!Version, Late!DecisionBlocked, Late!PublishNow, Late!Captured,
       Late!Schedule, Late!AutoExecute, Late!CreateDraft, Late!Executing, Late!Blocked,
       Late!Send, Late!KeyOf, Late!Uploaded, Late!Answered, Late!OneMore, Late!Unknown,
       Late!QuotaSpent, Late!Rejected, Late!Misjudged, Late!End, Late!Finished,
       Late!StartRetry, Late!Waiting, Late!RetryNext, Late!Verify, Late!Expire,
       Late!SaveQueue, Late!Settle, Late!Restart, Late!Restored, Late!Cut, Late!TypeOK,
       Late!Row, Late!State, Late!Work, Late!Stage, Late!Outcome, Late!Key,
       Late!WithdrawnStays, Late!SecondVideoNeedsLoss, Late!Cardinality,
       Late!IsFiniteSet, CrowdLemmas!Queue!Init, CrowdLemmas!Queue!NoRow,
       CrowdLemmas!Queue!Task, CrowdLemmas!Queue!Rest, CrowdLemmas!Queue!Next,
       CrowdLemmas!Queue!Deciding, CrowdLemmas!Queue!Refuse, CrowdLemmas!Queue!Final,
       CrowdLemmas!Queue!Withdraw, CrowdLemmas!Queue!Save, CrowdLemmas!Queue!Provider,
       CrowdLemmas!Queue!Standing, CrowdLemmas!Queue!Untouched, CrowdLemmas!Queue!Working,
       CrowdLemmas!Queue!Off, CrowdLemmas!Queue!Approve, CrowdLemmas!Queue!Decide,
       CrowdLemmas!Queue!Edit, CrowdLemmas!Queue!Version,
       CrowdLemmas!Queue!DecisionBlocked, CrowdLemmas!Queue!PublishNow,
       CrowdLemmas!Queue!Captured, CrowdLemmas!Queue!Schedule,
       CrowdLemmas!Queue!AutoExecute, CrowdLemmas!Queue!CreateDraft,
       CrowdLemmas!Queue!Executing, CrowdLemmas!Queue!Blocked, CrowdLemmas!Queue!Send,
       CrowdLemmas!Queue!KeyOf, CrowdLemmas!Queue!Uploaded, CrowdLemmas!Queue!Answered,
       CrowdLemmas!Queue!OneMore, CrowdLemmas!Queue!Unknown, CrowdLemmas!Queue!QuotaSpent,
       CrowdLemmas!Queue!Rejected, CrowdLemmas!Queue!Misjudged, CrowdLemmas!Queue!End,
       CrowdLemmas!Queue!Finished, CrowdLemmas!Queue!StartRetry, CrowdLemmas!Queue!Waiting,
       CrowdLemmas!Queue!RetryNext, CrowdLemmas!Queue!Verify, CrowdLemmas!Queue!Expire,
       CrowdLemmas!Queue!SaveQueue, CrowdLemmas!Queue!Settle, CrowdLemmas!Queue!Restart,
       CrowdLemmas!Queue!Restored, CrowdLemmas!Queue!Cut, CrowdLemmas!Queue!TypeOK,
       CrowdLemmas!Queue!Row, CrowdLemmas!Queue!State, CrowdLemmas!Queue!Work,
       CrowdLemmas!Queue!Stage, CrowdLemmas!Queue!Outcome, CrowdLemmas!Queue!Key,
       CrowdLemmas!Queue!WithdrawnStays, CrowdLemmas!Queue!SecondVideoNeedsLoss,
       CrowdLemmas!Queue!Cardinality, CrowdLemmas!Queue!IsFiniteSet, queue, saved, task,
       due, keys, savedKeys, res, videos, lost, decided, withdrawn

\* Its invariant holds at the start and after every step, and implies the properties.
LEMMA LateKept ==
    /\ Init /\ part = "late" => CrowdLemmas!QueueInv
    /\ CrowdLemmas!QueueInv /\ part = "late" /\ [Next]_vars => CrowdLemmas!QueueInv'
    /\ CrowdLemmas!QueueInv => /\ Late!TypeOK
                           /\ Late!WithdrawnStays
                           /\ Late!SecondVideoNeedsLoss
<1>1. CrowdLemmas!QueueParameters
  BY QueueAssumption DEF CrowdLemmas!QueueParameters
<1>2. [Next]_vars /\ part = "late" => [CrowdLemmas!Queue!Next]_(CrowdLemmas!Queue!vars)
  BY LateSame DEF Next, vars, CrowdLemmas!Queue!vars, queue, saved, task, due, keys, savedKeys, res, videos, lost,
     decided, withdrawn
<1>3. Init /\ part = "late" => CrowdLemmas!Queue!Init
  BY LateSame DEF Init
<1> QED BY <1>1, <1>2, <1>3, LateSame, CrowdLemmas!QueueInit, CrowdLemmas!QueueStep,
           CrowdLemmas!QueueImplies

-----------------------------------------------------------------------------
(* All of them.                                                            *)

PartsInv ==
    /\ part = "schedule" => DriveLemmas!ScheduleInv
    /\ part = "mirror" => DriveLemmas!MirrorInv
    /\ part = "backup" => DriveLemmas!BackupInv
    /\ part = "access" => ServiceLemmas!LoginInv
    /\ part = "ai" => ServiceLemmas!AiInv
    /\ part = "token" => ServiceLemmas!TokenInv
    /\ part = "agent" => ServiceLemmas!AgentInv
    /\ part = "alerts" => ServiceLemmas!AlertsInv
    /\ part = "nested" => PairLemmas!JobsInv
    /\ part = "messages" => EditsLemmas!JobsInv
    /\ part = "pair" => PairLemmas!RepliesInv
    /\ part = "edits" => EditsLemmas!RepliesInv
    /\ part = "unsaved" => UnsavedLemmas!RepliesInv
    /\ part = "crowd" => CrowdLemmas!RepliesInv
    /\ part = "queue" => PairLemmas!QueueInv
    /\ part = "late" => CrowdLemmas!QueueInv

LEMMA PartsKept == Spec => []PartsInv
<1>1. Init => PartsInv
  BY ScheduleKept, MirrorKept, BackupKept, LoginKept, AiKept, TokenKept, AgentKept,
     AlertsKept, NestedKept, MessagesKept, PairKept, EditsKept, UnsavedKept, CrowdKept,
     QueueKept, LateKept
     DEF PartsInv
<1>2. PartsInv /\ [Next]_vars => PartsInv'
  <2>1. [Next]_vars => part' = part
    BY DEF Next, vars
  <2> QED BY <2>1, ScheduleKept, MirrorKept, BackupKept, LoginKept, AiKept, TokenKept,
           AgentKept, AlertsKept, NestedKept, MessagesKept, PairKept, EditsKept,
           UnsavedKept, CrowdKept, QueueKept, LateKept
          DEF PartsInv
<1> QED BY <1>1, <1>2, PTL DEF Spec

\* Every part keeps its variables in their types, through every failure and restart.
THEOREM PartsTypeCorrect == Spec => []TypeOK
<1>1. PartsInv => TypeOK
  BY ScheduleKept, MirrorKept, BackupKept, LoginKept, AiKept, TokenKept, AgentKept,
     AlertsKept, NestedKept, MessagesKept, PairKept, EditsKept, UnsavedKept, CrowdKept,
     QueueKept, LateKept
     DEF PartsInv, TypeOK
<1> QED BY <1>1, PartsKept, PTL

\* What the owner withdrew, rejected or cancelled stays so until another decision, once
\* nothing works on it and no write in question says otherwise, whichever of the writes that
\* fail or overtake each other a restart finds: content, replies and jobs.
THEOREM OwnerWithdrawalStands == Spec => []WithdrawalStands
<1>1. PartsInv => WithdrawalStands
  BY QueueKept, LateKept, PairKept, EditsKept, UnsavedKept, CrowdKept, NestedKept,
     MessagesKept DEF PartsInv, WithdrawalStands, Contents, Approval, Jobs
<1> QED BY <1>1, PartsKept, PTL

\* No video, reply, publication, mail or effect of a task goes out a second time unless a
\* call or the record of it was lost or misjudged, in every order of retries, decisions and
\* restarts.
THEOREM NothingRepeatsWithoutLoss == Spec => []RepeatNeedsLoss
<1>1. PartsInv => RepeatNeedsLoss
  BY QueueKept, LateKept, PairKept, EditsKept, UnsavedKept, CrowdKept, NestedKept,
     MessagesKept, AlertsKept, AgentKept
     DEF PartsInv, RepeatNeedsLoss, Contents, Approval, Jobs
<1> QED BY <1>1, PartsKept, PTL

\* A reply that is marked as sent shows the words that reached the customer.
THEOREM SentIsWhatTheCustomerHas == Spec => []SentIsTrue
<1>1. PartsInv => SentIsTrue
  BY PairKept, EditsKept, UnsavedKept, CrowdKept DEF PartsInv, SentIsTrue, Approval
<1> QED BY <1>1, PartsKept, PTL

\* A reply the owner was asked about is never lost between the list and the drafts, with
\* writes that overtake each other and drafts that are cut.
THEOREM AskedStaysOnTheDesk == Spec => []AskedIsKept
<1>1. PartsInv => AskedIsKept
  BY PairKept, EditsKept, UnsavedKept, CrowdKept DEF PartsInv, AskedIsKept, Approval
<1> QED BY <1>1, PartsKept, PTL

\* A job that was never published and is not being executed finds both reservations free.
THEOREM FailedJobsCanRetry == Spec => []RetryFindsFree
<1>1. PartsInv => RetryFindsFree
  BY NestedKept, MessagesKept DEF PartsInv, RetryFindsFree, Jobs
<1> QED BY <1>1, PartsKept, PTL

\* For every number of points that are kept and every set of protected ids, a point with its
\* manifest is whole and of one run, and a run reports a point only when it is there.  With
\* two points or more and a protected first one, retention leaves one as late as the last
\* success.
THEOREM LastSuccessIsRecoverable == Spec => []SuccessStaysRecoverable
<1>1. PartsInv => SuccessStaysRecoverable
  BY BackupKept DEF PartsInv, SuccessStaysRecoverable
<1> QED BY <1>1, PartsKept, PTL

\* What a login or a logout was answered holds, whatever restarts and failed writes follow.
THEOREM LoginAnswersHold == Spec => []AnswersHold
<1>1. PartsInv => AnswersHold
  BY LoginKept DEF PartsInv, AnswersHold
<1> QED BY <1>1, PartsKept, PTL

\* Credentials are held exactly while their account is linked.
THEOREM CredentialsFollowTheLink == Spec => []LinkIsWhole
<1>1. PartsInv => LinkIsWhole
  BY TokenKept DEF PartsInv, LinkIsWhole
<1> QED BY <1>1, PartsKept, PTL

\* An event that counts as sent was mailed, or came while a mail was in flight.
THEOREM MarkedAlertsWereMailed == Spec => []MarkedWasMailedOrLate
<1>1. PartsInv => MarkedWasMailedOrLate
  BY AlertsKept DEF PartsInv, MarkedWasMailedOrLate
<1> QED BY <1>1, PartsKept, PTL

\* The version HEAD names can be restored unless HEAD was misread.
THEOREM MirrorStaysRestorable == Spec => []IntactUnlessMisread
<1>1. PartsInv => IntactUnlessMisread
  BY MirrorKept DEF PartsInv, IntactUnlessMisread
<1> QED BY <1>1, PartsKept, PTL

\* A backup older than the limit is never the effect of waiting alone.
THEOREM NoSilentGap == Spec => []StaleOnlyAfterFailure
<1>1. PartsInv => StaleOnlyAfterFailure
  BY ScheduleKept DEF PartsInv, StaleOnlyAfterFailure
<1> QED BY <1>1, PartsKept, PTL

\* The provider answers no more than the day's limit, but for charges the count lost.
THEOREM DayBudgetHolds == Spec => []BudgetHeld
<1>1. PartsInv => BudgetHeld
  BY AiKept DEF PartsInv, BudgetHeld
<1> QED BY <1>1, PartsKept, PTL

\* An event leaves the queue of alerts only as sent, by overflow or by a restart.
THEOREM AlertsLeaveMarked == Spec => LeavesMarked
<1>1. PartsInv /\ [Next]_vars => [part = "alerts" => Alerts!LeavesAsMarked]_vars
  BY AlertsKept DEF PartsInv
<1> QED BY <1>1, PartsKept, PTL DEF Spec, LeavesMarked
=============================================================================
