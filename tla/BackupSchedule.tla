--------------------------- MODULE BackupSchedule ---------------------------
(***************************************************************************)
(* When the scheduled backup runs (decideAutoBackupRun): a timer asks at   *)
(* every tick, the quota guard may put a run off, a run that failed is     *)
(* tried again early, and no guard puts a run off for ever.  What a run    *)
(* does is the subject of BackupRun; here it succeeds or fails some ticks  *)
(* later.  Time is counted in ticks of the timer; the two ages follow from *)
(* the times that are saved, and survive a restart.                        *)
(***************************************************************************)
EXTENDS Naturals

CONSTANTS
    Interval,   \* between scheduled backups (6 h)
    Retry,      \* after a run that failed (30 min)
    MaxDefer,   \* the age of the last success that no guard outweighs (24 h)
    Horizon     \* bound on the ages that are told apart

VARIABLES
    up,          \* the process is running
    runAge,      \* ticks since lastRunAt
    successAge,  \* ticks since lastSuccessAt
    result,      \* lastRunResult
    inFlight,    \* autoBackupInFlight
    asked,       \* the timer has asked since the last tick
    excused      \* since the last success a run has failed or the process stopped

vars == <<up, runAge, successAge, result, inFlight, asked, excused>>

Age == 0 .. Horizon

TypeOK ==
    /\ up \in BOOLEAN
    /\ runAge \in Age /\ successAge \in Age
    /\ result \in {"none", "ok", "failed"}
    /\ inFlight \in BOOLEAN /\ asked \in BOOLEAN /\ excused \in BOOLEAN

\* No run yet: the ages are as old as can be.
Init ==
    /\ up = TRUE
    /\ runAge = Horizon /\ successAge = Horizon
    /\ result = "none"
    /\ inFlight = FALSE /\ asked = FALSE /\ excused = FALSE

Due      == runAge >= Interval
RetryDue == result = "failed" /\ runAge >= Retry

\* The guard outweighs every age.
RunsUnderNoPressure(scheduled, pressure) ==
    /\ Due \/ RetryDue
    /\ ~(scheduled /\ pressure)

\* decideAutoBackupRun; a run of the owner and the one after boot are not put off.
Runs(scheduled, pressure) ==
    /\ Due \/ RetryDue
    /\ scheduled /\ pressure => successAge >= MaxDefer

\* runAutoBackupCycle by the timer: not due, put off, or already running changes
\* nothing but the record of the skip.
Ask ==
    /\ up /\ ~asked
    /\ asked' = TRUE
    /\ \E pressure \in BOOLEAN : inFlight' = (inFlight \/ Runs(TRUE, pressure))
    /\ UNCHANGED <<up, runAge, successAge, result, excused>>

\* The same at boot or for the owner.
Request ==
    /\ up /\ ~inFlight /\ Runs(FALSE, FALSE)
    /\ inFlight' = TRUE
    /\ UNCHANGED <<up, runAge, successAge, result, asked, excused>>

\* recordAutoBackupRun: every refusal of runFullBackup counts as a failure.
Finish(ok) ==
    /\ inFlight
    /\ inFlight' = FALSE
    /\ runAge' = 0
    /\ successAge' = IF ok THEN 0 ELSE successAge
    /\ result' = IF ok THEN "ok" ELSE "failed"
    /\ excused' = ~ok
    /\ UNCHANGED <<up, asked>>

Older(age) == IF age = Horizon THEN age ELSE age + 1

\* While the process runs the timer asks once a tick.
Tick ==
    /\ up => asked
    /\ runAge' = Older(runAge) /\ successAge' = Older(successAge)
    /\ asked' = FALSE
    /\ UNCHANGED <<up, result, inFlight, excused>>

\* A run that is cut short leaves no record.
Stop ==
    /\ up
    /\ up' = FALSE
    /\ inFlight' = FALSE /\ asked' = FALSE
    /\ excused' = TRUE
    /\ UNCHANGED <<runAge, successAge, result>>

Boot ==
    /\ ~up
    /\ up' = TRUE
    /\ UNCHANGED <<runAge, successAge, result, inFlight, asked, excused>>

Next == Ask \/ Request \/ (\E ok \in BOOLEAN : Finish(ok)) \/ Tick \/ Stop \/ Boot

Spec == Init /\ [][Next]_vars

\* A backup older than the limit is never an effect of waiting alone: the guard, the
\* skips of ticks and the early retries do not add up to a silent gap, as they once
\* did for 51 hours (autoBackup.ts); some run failed or the process was down.
StaleOnlyAfterFailure ==
    up /\ asked /\ successAge >= MaxDefer => inFlight \/ excused
=============================================================================
