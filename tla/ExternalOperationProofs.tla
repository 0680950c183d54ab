----------------------- MODULE ExternalOperationProofs ----------------------
(* Machine-checked theorems about ExternalOperation, for every set of       *)
(* processes, slots, keys and texts and every length of the reservation:    *)
(* under all faults, type correctness, the owners of the locks and that     *)
(* what is recorded as done was delivered; when the store answers and an    *)
(* attempt ends before its reservation, single execution and the promise.   *)
EXTENDS ExternalOperation, FiniteSetTheorems, SequenceTheorems, TLAPS

LEMMA AttemptType ==
    ASSUME TypeOK, NEW a \in Attempt
    PROVE  /\ Home(a) \in Process /\ K(a) \in Key /\ job[a] \in Job
           /\ status[K(a)] \in Status /\ left[K(a)] \in Nat
           /\ history[Home(a)] \in Seq(Job)
BY DEF TypeOK, Attempt, Home, K, Job

LEMMA LessType == ASSUME NEW f \in [Key -> Nat] PROVE Less(f) \in [Key -> Nat]
<1>1. \A k \in Key : (IF f[k] = 0 THEN 0 ELSE f[k] - 1) \in Nat
  OBVIOUS
<1> QED BY <1>1 DEF Less

LEMMA InitType == Init => TypeOK
<1>1. (CHOOSE j \in Job : TRUE) \in Job
  <2>1. PICK k \in Key, t \in Text : TRUE
    BY DataAssumption
  <2>2. [key |-> k, text |-> t] \in Job
    BY DEF Job
  <2> QED BY <2>2
<1>2. <<>> \in Seq(Job)
  OBVIOUS
<1> QED BY <1>1, <1>2 DEF Init, TypeOK, Stage, Verdict, Status

\* The record put first and the cut leave a history.
LEMMA RecordedType ==
    ASSUME TypeOK, NEW a \in Attempt, Recorded(a)
    PROVE  history' \in [Process -> Seq(Job)]
<1> DEFINE h == history[Home(a)]
           n == IF Len(h) < MaxHistory THEN Len(h) + 1 ELSE MaxHistory
           s == <<job[a]>> \o h
<1>1. /\ h \in Seq(Job) /\ job[a] \in Job
      /\ Len(h) \in Nat /\ MaxHistory \in Nat \ {0}
  BY AttemptType, LimitAssumption
<1>2. <<job[a]>> \in Seq(Job) /\ Len(<<job[a]>>) = 1
  BY <1>1
<1>3. s \in Seq(Job) /\ Len(s) = Len(h) + 1
  BY <1>1, <1>2, ConcatProperties
<1>4. n \in 1 .. Len(s)
  BY <1>1, <1>3
<1>5. \A i \in 1 .. n : s[i] \in Job
  <2>1. SUFFICES ASSUME NEW i \in 1 .. n PROVE s[i] \in Job
    OBVIOUS
  <2>2. i \in 1 .. Len(s)
    BY <1>4, <2>1, <1>3
  <2> QED BY <1>3, <2>2
<1>6. SubSeq(s, 1, n) \in Seq(Job)
  BY <1>3, <1>4, <1>5, SubSeqProperties
<1>7. history' = [history EXCEPT ![Home(a)] = IF K(a) \in Replies THEN SubSeq(s, 1, n) ELSE h]
  BY DEF Recorded
<1> QED BY <1>6, <1>7, <1>1 DEF TypeOK

LEMMA StepType == TypeOK /\ [Next]_vars => TypeOK'
<1> SUFFICES ASSUME TypeOK, [Next]_vars PROVE TypeOK'
  OBVIOUS
<1> USE DEF store, world
<1>1. ASSUME NEW a \in Attempt, Begin(a) PROVE TypeOK'
  <2>1. Home(a) \in Process
    BY AttemptType
  <2>2. PICK j \in Job :
          /\ job' = [job EXCEPT ![a] = j]
          /\ locked' = [locked EXCEPT ![Home(a)] = @ \union ({j.key} \intersect Replies)]
    BY <1>1, Zenon DEF Begin
  <2>3. j.key \in Key
    BY <2>2 DEF Job
  <2>4. locked' \in [Process -> SUBSET Key] /\ job' \in [Attempt -> Job]
    BY <2>1, <2>2, <2>3 DEF TypeOK
  <2> QED BY <1>1, <2>4 DEF Begin, TypeOK, Stage, Verdict
<1>2. ASSUME NEW a \in Attempt, TakeRow(K(a))
      PROVE  status' \in [Key -> Status] /\ left' \in [Key -> Nat]
  BY <1>2, AttemptType, TimeAssumption DEF TakeRow, TypeOK, Status
<1>3. ASSUME NEW a \in Attempt, Unlocked(a) PROVE locked' \in [Process -> SUBSET Key]
  BY <1>3, AttemptType DEF Unlocked, TypeOK
<1>4. ASSUME NEW a \in Attempt, NEW v \in Verdict, End(a, v) PROVE TypeOK'
  BY <1>4 DEF End, TypeOK, Stage
<1>5. ASSUME NEW a \in Attempt, NEW v \in Verdict, Answer(a, v) PROVE TypeOK'
  BY <1>5, RecordedType DEF Answer, TypeOK, Stage
<1>6. ASSUME NEW a \in Attempt, Advance(a) PROVE TypeOK'
  <2>1. CASE ReserveGranted(a)
    BY <2>1, <1>2 DEF ReserveGranted, TypeOK, Stage
  <2>2. CASE ReserveRefused(a)
    BY <2>2 DEF ReserveRefused, TypeOK, Stage
  <2>3. CASE ReserveUnavailable(a)
    BY <2>3, <1>2 DEF ReserveUnavailable, TypeOK, Stage
  <2>4. CASE ReadRefusal(a)
    BY <2>4, <1>3 DEF ReadRefusal, TypeOK, Stage
  <2>5. CASE ReadUnavailable(a)
    BY <2>5 DEF ReadUnavailable, TypeOK, Stage
  <2>6. CASE StartSend(a)
    BY <2>6 DEF StartSend, TypeOK, Stage
  <2>7. CASE GuardRefuses(a) \/ LateRefusal(a) \/ AwaitQuota(a)
    BY <2>7, <1>4 DEF GuardRefuses, LateRefusal, AwaitQuota, Verdict
  <2>8. CASE Deliver(a)
    BY <2>8, AttemptType DEF Deliver, TypeOK, Stage
  <2>9. CASE Confirmed(a) \/ Rejected(a) \/ AnswerLost(a)
    BY <2>9, <1>5 DEF Confirmed, Rejected, AnswerLost, Verdict
  <2>10. CASE Save(a)
    BY <2>10, AttemptType DEF Save, TypeOK, Stage
  <2>11. CASE Finish(a)
    BY <2>11, <1>3, AttemptType DEF Finish, TypeOK, Stage, Verdict, Status
  <2>12. CASE FinishUnavailable(a)
    BY <2>12, <1>3 DEF FinishUnavailable, TypeOK, Stage
  <2>13. CASE Misjudged(a)
    BY <2>13, RecordedType, AttemptType DEF Misjudged, TypeOK, Stage, Verdict
  <2> QED BY <1>6, <2>1, <2>2, <2>3, <2>4, <2>5, <2>6, <2>7, <2>8, <2>9, <2>10,
             <2>11, <2>12, <2>13 DEF Advance
<1>7. ASSUME NEW p \in Process, Restart(p) PROVE TypeOK'
  BY <1>7 DEF Restart, TypeOK, Stage
<1>8. CASE Tick
  BY <1>8, LessType DEF Tick, TypeOK
<1>9. CASE UNCHANGED vars
  BY <1>9 DEF vars, TypeOK
<1> QED BY <1>1, <1>6, <1>7, <1>8, <1>9 DEF Next

(* Every variable keeps its type, whatever store calls fail and however     *)
(* long attempts take; in particular a history stays within its sort after  *)
(* the cut of unshift.                                                      *)
THEOREM TypeCorrect == Spec => []TypeOK
<1>1. Init => TypeOK
  BY InitType
<1>2. TypeOK /\ [Next]_vars => TypeOK'
  BY StepType
<1> QED BY <1>1, <1>2, PTL DEF Spec
-----------------------------------------------------------------------------
(* Single execution.  The invariant follows one key: whoever works on it    *)
(* holds a live reservation, no two attempts do, and a recent delivery is   *)
(* protected by the row until the window of its reservation has passed.     *)

Reliable == Faults = {} /\ ~Slow

HoldsRow ==
    \A a \in Attempt : Working(a) => status[K(a)] = "reserved" /\ left[K(a)] > 0

\* Before the provider is asked, and after it refused, nothing is recent.
NothingRecent(a) ==
    \/ pc[a] \in {"granted", "sending"}
    \/ pc[a] \in {"saving", "ending"} /\ verdict[a] \in {"failed", "pending_quota"}

ClearWindow == \A a \in Attempt : NothingRecent(a) => window[K(a)] = 0

Guarded(k) ==
    \/ window[k] = 0
    \/ status[k] = "done"
    \/ status[k] = "reserved" /\ window[k] <= left[k]

RecentGuarded == \A k \in Key : Guarded(k)

SInv == HoldsRow /\ OneExecutor /\ ClearWindow /\ RecentGuarded

\* A step of attempt a that moves only a, and only between the stages before
\* the answer or with an outcome that fits, keeps the invariant.
LEMMA SInvInit == Init => SInv
BY DEF Init, SInv, HoldsRow, OneExecutor, ClearWindow, RecentGuarded, Guarded,
       NothingRecent, Working

\* What another attempt can rely on while a works: it has another key.
LEMMA OtherKey ==
    ASSUME SInv, NEW a \in Attempt, NEW b \in Attempt, a # b, Working(a), Working(b)
    PROVE  K(a) # K(b)
BY DEF SInv, OneExecutor

\* Steps that change the stage or the verdict of one working attempt only.
LEMMA SInvQuiet ==
    ASSUME TypeOK, SInv, NEW a \in Attempt,
           UNCHANGED <<job, status, left, window>>,
           \A b \in Attempt : b # a => pc'[b] = pc[b] /\ verdict'[b] = verdict[b],
           Working(a)' => Working(a),
           NothingRecent(a)' => NothingRecent(a)
    PROVE  SInv'
<1>1. \A b \in Attempt : K(b)' = K(b)
  BY DEF K
<1>2. \A b \in Attempt : Working(b)' => Working(b)
  BY DEF Working
<1>3. \A b \in Attempt : NothingRecent(b)' => NothingRecent(b)
  BY DEF NothingRecent
<1>4. HoldsRow'
  BY <1>1, <1>2 DEF SInv, HoldsRow
<1>5. OneExecutor'
  BY <1>1, <1>2 DEF SInv, OneExecutor
<1>6. ClearWindow'
  BY <1>1, <1>3 DEF SInv, ClearWindow
<1>7. RecentGuarded'
  BY DEF SInv, RecentGuarded, Guarded
<1> QED BY <1>4, <1>5, <1>6, <1>7 DEF SInv

LEMMA SInvGranted ==
    ASSUME TypeOK, SInv, NEW a \in Attempt, ReserveGranted(a)
    PROVE  SInv'
<1> DEFINE k == K(a)
<1>1. /\ Free(k) /\ pc[a] = "asking" /\ pc' = [pc EXCEPT ![a] = "granted"]
      /\ UNCHANGED <<job, verdict, window>>
      /\ status' = [status EXCEPT ![k] = "reserved"] /\ left' = [left EXCEPT ![k] = TTL]
  BY DEF ReserveGranted, TakeRow, world
<1>2. k \in Key /\ left[k] \in Nat /\ TTL \in Nat \ {0} /\ window[k] \in Nat
  BY AttemptType, TimeAssumption DEF TypeOK
<1>3. \A b \in Attempt : K(b)' = K(b) /\ K(b) \in Key
  BY <1>1, AttemptType DEF K
<1>4. \A b \in Attempt : b # a => pc'[b] = pc[b]
  BY <1>1 DEF TypeOK
<1>5. \A b \in Attempt : Working(b) => K(b) # k
  BY <1>1, <1>2 DEF SInv, HoldsRow, Free
<1>6. window[k] = 0
  BY <1>1, <1>2 DEF SInv, RecentGuarded, Guarded, Free
<1>7. \A b \in Attempt : b # a /\ Working(b)' => Working(b)
  BY <1>4 DEF Working
<1>8. HoldsRow'
  BY <1>1, <1>2, <1>3, <1>5, <1>7 DEF SInv, HoldsRow, TypeOK
<1>9. OneExecutor'
  <2>1. SUFFICES ASSUME NEW b \in Attempt, NEW c \in Attempt, b # c,
                        Working(b)', Working(c)'
                 PROVE  K(b) # K(c)
    BY <1>3 DEF OneExecutor
  <2>2. CASE b = a
    BY <2>1, <2>2, <1>5, <1>7
  <2>3. CASE c = a
    BY <2>1, <2>3, <1>5, <1>7
  <2>4. CASE b # a /\ c # a
    BY <2>1, <2>4, <1>7, OtherKey
  <2> QED BY <2>2, <2>3, <2>4
<1>10. ClearWindow'
  <2>1. SUFFICES ASSUME NEW b \in Attempt, NothingRecent(b)' PROVE window[K(b)] = 0
    BY <1>1, <1>3 DEF ClearWindow
  <2>2. CASE b = a
    BY <2>2, <1>6
  <2>3. CASE b # a
    BY <2>1, <2>3, <1>1, <1>4 DEF SInv, ClearWindow, NothingRecent
  <2> QED BY <2>2, <2>3
<1>11. RecentGuarded'
  BY <1>1, <1>2, <1>6 DEF SInv, RecentGuarded, Guarded, TypeOK
<1> QED BY <1>8, <1>9, <1>10, <1>11 DEF SInv

\* A new attempt is not yet working, and touches no row.
LEMMA SInvBegin ==
    ASSUME TypeOK, SInv, NEW a \in Attempt, Begin(a)
    PROVE  SInv'
<1>1. /\ pc[a] = "idle" /\ pc' = [pc EXCEPT ![a] = "asking"]
      /\ UNCHANGED <<status, left, window>>
      /\ verdict' = [verdict EXCEPT ![a] = "failed"]
  BY DEF Begin, store, world
<1>2. PICK j \in Job : job' = [job EXCEPT ![a] = j]
  BY Zenon DEF Begin
<1>3. ~Working(a)' /\ ~NothingRecent(a)'
  BY <1>1 DEF TypeOK, Working, NothingRecent
<1>4. \A b \in Attempt : b # a => /\ pc'[b] = pc[b] /\ verdict'[b] = verdict[b]
                                  /\ K(b)' = K(b)
  BY <1>1, <1>2 DEF TypeOK, K
<1>5. \A b \in Attempt : Working(b)' => b # a /\ Working(b)
  BY <1>3, <1>4 DEF Working
<1>6. \A b \in Attempt : NothingRecent(b)' => b # a /\ NothingRecent(b)
  BY <1>3, <1>4 DEF NothingRecent
<1>7. HoldsRow'
  BY <1>1, <1>4, <1>5 DEF SInv, HoldsRow
<1>8. OneExecutor'
  BY <1>4, <1>5 DEF SInv, OneExecutor
<1>9. ClearWindow'
  BY <1>1, <1>4, <1>6 DEF SInv, ClearWindow
<1>10. RecentGuarded'
  BY <1>1 DEF SInv, RecentGuarded, Guarded
<1> QED BY <1>7, <1>8, <1>9, <1>10 DEF SInv

\* The delivery opens the window, below what is left of the row a holds.
LEMMA SInvDeliver ==
    ASSUME TypeOK, SInv, NEW a \in Attempt, Deliver(a)
    PROVE  SInv'
<1> DEFINE k == K(a)
<1>1. /\ pc[a] = "sending" /\ pc' = [pc EXCEPT ![a] = "sent"]
      /\ UNCHANGED <<job, verdict, status, left>>
      /\ window' = [window EXCEPT ![k] = left[k]]
  BY DEF Deliver, store
<1>2. k \in Key /\ left[k] \in Nat
  BY AttemptType
<1>3. \A b \in Attempt : K(b)' = K(b) /\ K(b) \in Key
  BY <1>1, AttemptType DEF K
<1>4. \A b \in Attempt : b # a => pc'[b] = pc[b] /\ verdict'[b] = verdict[b]
  BY <1>1 DEF TypeOK
<1>5. Working(a) /\ status[k] = "reserved" /\ left[k] > 0
  BY <1>1 DEF SInv, HoldsRow, Working
<1>6. \A b \in Attempt : Working(b)' => Working(b)
  BY <1>4, <1>5 DEF Working
<1>7. HoldsRow'
  BY <1>1, <1>3, <1>6 DEF SInv, HoldsRow
<1>8. OneExecutor'
  BY <1>3, <1>6 DEF SInv, OneExecutor
<1>9. ClearWindow'
  <2>1. SUFFICES ASSUME NEW b \in Attempt, NothingRecent(b)' PROVE window'[K(b)] = 0
    BY <1>3 DEF ClearWindow
  <2>2. b # a
    BY <1>1, <2>1 DEF TypeOK, NothingRecent
  <2>3. NothingRecent(b) /\ Working(b)
    BY <2>1, <2>2, <1>4 DEF NothingRecent, Working
  <2>4. K(b) # k
    BY <2>2, <2>3, <1>5, OtherKey
  <2> QED BY <1>1, <1>3, <2>3, <2>4 DEF SInv, ClearWindow, TypeOK
<1>10. RecentGuarded'
  BY <1>1, <1>2, <1>5 DEF SInv, RecentGuarded, Guarded, TypeOK
<1> QED BY <1>7, <1>8, <1>9, <1>10 DEF SInv

\* A delivery taken for a refusal closes the window: nothing recent is left of
\* it, and no other attempt works on its key.
LEMMA SInvMisjudged ==
    ASSUME TypeOK, SInv, NEW a \in Attempt, Misjudged(a)
    PROVE  SInv'
<1> DEFINE k == K(a)
<1>1. /\ pc[a] = "sent" /\ pc' = [pc EXCEPT ![a] = "saving"]
      /\ UNCHANGED <<job, status, left>>
      /\ verdict' = [verdict EXCEPT ![a] = "failed"]
      /\ window' = [window EXCEPT ![k] = 0]
  BY DEF Misjudged, store
<1>2. \A b \in Attempt : K(b)' = K(b) /\ K(b) \in Key
  BY <1>1, AttemptType DEF K
<1>3. \A b \in Attempt : b # a => pc'[b] = pc[b] /\ verdict'[b] = verdict[b]
  BY <1>1 DEF TypeOK
<1>4. \A b \in Attempt : Working(b)' => Working(b)
  BY <1>1, <1>3 DEF Working
<1>5. \A b \in Key : window'[b] = 0 \/ window'[b] = window[b]
  BY <1>1 DEF TypeOK
<1>6. HoldsRow'
  BY <1>1, <1>2, <1>4 DEF SInv, HoldsRow
<1>7. OneExecutor'
  BY <1>2, <1>4 DEF SInv, OneExecutor
<1>8. ClearWindow'
  <2>1. SUFFICES ASSUME NEW b \in Attempt, NothingRecent(b)' PROVE window'[K(b)] = 0
    BY <1>2 DEF ClearWindow
  <2>2. CASE b = a
    BY <2>2, <1>1, <1>2 DEF TypeOK
  <2>3. CASE b # a
    <3>1. NothingRecent(b)
      BY <2>1, <2>3, <1>3 DEF NothingRecent
    <3> QED BY <3>1, <1>2, <1>5 DEF SInv, ClearWindow
  <2> QED BY <2>2, <2>3
<1>9. RecentGuarded'
  BY <1>1, <1>5 DEF SInv, RecentGuarded, Guarded
<1> QED BY <1>6, <1>7, <1>8, <1>9 DEF SInv

\* The end of an attempt frees its row only when nothing recent was done.
LEMMA SInvFinish ==
    ASSUME TypeOK, SInv, NEW a \in Attempt, Finish(a)
    PROVE  SInv'
<1> DEFINE k == K(a)
<1>1. /\ pc[a] = "ending" /\ pc' = [pc EXCEPT ![a] = "idle"]
      /\ UNCHANGED <<job, verdict, left, window>>
      /\ status' = [status EXCEPT ![k] =
                      IF verdict[a] = "keep" \/ @ = "none" THEN @ ELSE verdict[a]]
  BY DEF Finish, world
<1>2. k \in Key /\ left[k] \in Nat /\ verdict[a] \in Verdict
  BY AttemptType DEF TypeOK
<1>3. \A b \in Attempt : K(b)' = K(b) /\ K(b) \in Key
  BY <1>1, AttemptType DEF K
<1>4. Working(a) /\ status[k] = "reserved"
  BY <1>1 DEF SInv, HoldsRow, Working
<1>5. \A b \in Attempt : b # a => pc'[b] = pc[b] /\ verdict'[b] = verdict[b]
  BY <1>1 DEF TypeOK
<1>6. ~Working(a)' /\ ~NothingRecent(a)'
  BY <1>1 DEF TypeOK, Working, NothingRecent
<1>7. \A b \in Attempt : Working(b)' => b # a /\ Working(b)
  BY <1>5, <1>6 DEF Working
<1>8. \A b \in Attempt : NothingRecent(b)' => b # a /\ NothingRecent(b)
  BY <1>5, <1>6 DEF NothingRecent
<1>9. HoldsRow'
  <2>1. SUFFICES ASSUME NEW b \in Attempt, Working(b)'
                 PROVE  status'[K(b)] = "reserved" /\ left[K(b)] > 0
    BY <1>1, <1>3 DEF HoldsRow
  <2>2. K(b) # k
    BY <2>1, <1>4, <1>7, OtherKey
  <2> QED BY <2>1, <2>2, <1>1, <1>3, <1>7 DEF SInv, HoldsRow, TypeOK
<1>10. OneExecutor'
  BY <1>3, <1>7 DEF SInv, OneExecutor
<1>11. ClearWindow'
  BY <1>1, <1>3, <1>8 DEF SInv, ClearWindow
<1>12. RecentGuarded'
  <2>1. verdict[a] \in {"failed", "pending_quota"} => window[k] = 0
    BY <1>1 DEF SInv, ClearWindow, NothingRecent
  <2> QED BY <1>1, <1>2, <1>4, <2>1 DEF SInv, RecentGuarded, Guarded, TypeOK, Verdict
<1> QED BY <1>9, <1>10, <1>11, <1>12 DEF SInv

LEMMA SInvRestart ==
    ASSUME TypeOK, SInv, NEW p \in Process, Restart(p)
    PROVE  SInv'
<1>1. /\ UNCHANGED <<job, verdict, status, left, window>>
      /\ \A b \in Attempt : pc'[b] = pc[b] \/ pc'[b] = "idle"
  BY DEF Restart, store, world, TypeOK
<1>2. \A b \in Attempt : K(b)' = K(b) /\ (Working(b)' => Working(b))
                         /\ (NothingRecent(b)' => NothingRecent(b))
  BY <1>1 DEF K, Working, NothingRecent
<1> QED BY <1>1, <1>2 DEF SInv, HoldsRow, OneExecutor, ClearWindow, RecentGuarded, Guarded

LEMMA SInvTick ==
    ASSUME TypeOK, SInv, Reliable, Tick
    PROVE  SInv'
<1>1. /\ UNCHANGED <<pc, job, verdict, status>>
      /\ left' = Less(left) /\ window' = Less(window)
      /\ \A a \in Attempt : Working(a) => left[K(a)] # 1
  BY DEF Tick, Reliable
<1>2. \A k \in Key : /\ left[k] \in Nat /\ window[k] \in Nat
                     /\ left'[k] = (IF left[k] = 0 THEN 0 ELSE left[k] - 1)
                     /\ window'[k] = (IF window[k] = 0 THEN 0 ELSE window[k] - 1)
  BY <1>1 DEF Less, TypeOK
<1>3. \A b \in Attempt : K(b)' = K(b) /\ K(b) \in Key
                         /\ (Working(b)' <=> Working(b))
                         /\ (NothingRecent(b)' <=> NothingRecent(b))
  BY <1>1, AttemptType DEF K, Working, NothingRecent
<1>4. HoldsRow'
  BY <1>1, <1>2, <1>3 DEF SInv, HoldsRow
<1>5. OneExecutor'
  BY <1>3 DEF SInv, OneExecutor
<1>6. ClearWindow'
  BY <1>2, <1>3 DEF SInv, ClearWindow
<1>7. RecentGuarded'
  BY <1>1, <1>2 DEF SInv, RecentGuarded, Guarded
<1> QED BY <1>4, <1>5, <1>6, <1>7 DEF SInv

LEMMA SInvAdvance ==
    ASSUME TypeOK, SInv, Reliable, NEW a \in Attempt, Advance(a)
    PROVE  SInv'
<1> USE DEF store, world
<1>1. ASSUME NEW st \in Stage, pc' = [pc EXCEPT ![a] = st]
      PROVE  pc'[a] = st /\ \A b \in Attempt : b # a => pc'[b] = pc[b]
  BY <1>1 DEF TypeOK
<1>2. ASSUME NEW v \in Verdict, verdict' = [verdict EXCEPT ![a] = v]
      PROVE  verdict'[a] = v /\ \A b \in Attempt : b # a => verdict'[b] = verdict[b]
  BY <1>2 DEF TypeOK
<1>3. ASSUME pc[a] = "granted", NEW v \in {"failed", "pending_quota"}, End(a, v) PROVE SInv'
  <2>1. Working(a) /\ NothingRecent(a)
    BY <1>3 DEF Working, NothingRecent
  <2>2. "ending" \in Stage /\ v \in Verdict
    BY DEF Stage, Verdict
  <2> QED BY <1>1, <1>2, <1>3, <2>1, <2>2, SInvQuiet DEF End
<1>4. ASSUME NEW v \in Verdict, Answer(a, v), Working(a),
             v \in {"failed", "pending_quota"} => NothingRecent(a)
      PROVE  SInv'
  <2>1. "saving" \in Stage
    BY DEF Stage
  <2>2. pc'[a] = "saving" /\ verdict'[a] = v
    BY <1>1, <1>2, <1>4, <2>1 DEF Answer
  <2>3. NothingRecent(a)' => NothingRecent(a)
    BY <1>4, <2>2 DEF NothingRecent
  <2>4. \A b \in Attempt : b # a => pc'[b] = pc[b] /\ verdict'[b] = verdict[b]
    BY <1>1, <1>2, <1>4, <2>1 DEF Answer
  <2> QED BY <1>4, <2>3, <2>4, SInvQuiet DEF Answer
<1>5. CASE ReserveGranted(a)
  BY <1>5, SInvGranted
<1>6. CASE ReserveRefused(a)
  <2>1. pc'[a] = "refused" /\ \A b \in Attempt : b # a => pc'[b] = pc[b]
    BY <1>1, <1>6 DEF ReserveRefused, Stage
  <2> QED BY <1>6, <2>1, SInvQuiet DEF ReserveRefused, Working, NothingRecent
<1>7. CASE ReadRefusal(a)
  <2>1. pc'[a] = "idle" /\ \A b \in Attempt : b # a => pc'[b] = pc[b]
    BY <1>1, <1>7 DEF ReadRefusal, Stage
  <2> QED BY <1>7, <2>1, SInvQuiet DEF ReadRefusal, Working, NothingRecent
<1>8. CASE ReserveUnavailable(a) \/ ReadUnavailable(a) \/ FinishUnavailable(a)
  BY <1>8 DEF Reliable, ReserveUnavailable, ReadUnavailable, FinishUnavailable
<1>9. CASE StartSend(a)
  <2>1. pc'[a] = "sending" /\ \A b \in Attempt : b # a => pc'[b] = pc[b]
    BY <1>1, <1>9 DEF StartSend, Stage
  <2>2. Working(a) /\ NothingRecent(a)
    BY <1>9 DEF StartSend, Working, NothingRecent
  <2> QED BY <1>9, <2>1, <2>2, SInvQuiet DEF StartSend
<1>10. CASE GuardRefuses(a) \/ LateRefusal(a) \/ AwaitQuota(a)
  BY <1>10, <1>3 DEF GuardRefuses, LateRefusal, AwaitQuota
<1>11. CASE Deliver(a)
  BY <1>11, SInvDeliver
<1>12. CASE Confirmed(a) \/ Rejected(a) \/ AnswerLost(a)
  BY <1>12, <1>4 DEF Confirmed, Rejected, AnswerLost, Working, NothingRecent, Verdict
<1>13. CASE Save(a)
  <2>1. pc'[a] = "ending" /\ \A b \in Attempt : b # a => pc'[b] = pc[b]
    BY <1>1, <1>13 DEF Save, Stage
  <2> QED BY <1>13, <2>1, SInvQuiet DEF Save, Working, NothingRecent
<1>14. CASE Finish(a)
  BY <1>14, SInvFinish
<1>15. CASE Misjudged(a)
  BY <1>15, SInvMisjudged
<1> QED BY <1>5, <1>6, <1>7, <1>8, <1>9, <1>10, <1>11, <1>12, <1>13, <1>14, <1>15
        DEF Advance

LEMMA SInvStep == TypeOK /\ SInv /\ Reliable /\ [Next]_vars => SInv'
<1> SUFFICES ASSUME TypeOK, SInv, Reliable, [Next]_vars PROVE SInv'
  OBVIOUS
<1>1. ASSUME NEW a \in Attempt, Begin(a) \/ Advance(a) PROVE SInv'
  BY <1>1, SInvBegin, SInvAdvance
<1>2. ASSUME NEW p \in Process, Restart(p) PROVE SInv'
  BY <1>2, SInvRestart
<1>3. CASE Tick
  BY <1>3, SInvTick
<1>4. CASE UNCHANGED vars
  BY <1>4 DEF vars, SInv, HoldsRow, OneExecutor, ClearWindow, RecentGuarded, Guarded,
             NothingRecent, Working, K
<1> QED BY <1>1, <1>2, <1>3, <1>4 DEF Next

(* Of all the attempts of all processes, at most one at a time executes an  *)
(* operation, although the in-flight lock is local to a process: the        *)
(* reservation statement alone decides, through restarts and lost answers.  *)
THEOREM SingleExecution ==
    ASSUME Faults = {}, ~Slow
    PROVE  Spec => []OneExecutor
<1>1. Reliable
  BY DEF Reliable
<1>2. Init => TypeOK /\ SInv
  BY InitType, SInvInit
<1>3. TypeOK /\ SInv /\ [Next]_vars => (TypeOK /\ SInv)'
  BY <1>1, StepType, SInvStep
<1>4. SInv => OneExecutor
  BY DEF SInv
<1> QED BY <1>2, <1>3, <1>4, PTL DEF Spec

(* A second delivery waits until the reservation of the first has expired,  *)
(* even when the process that made the first one was lost with its answer:  *)
(* only an answer that was taken for a refusal makes an earlier one possible.*)
THEOREM RepeatsWait ==
    ASSUME Faults = {}, ~Slow
    PROVE  Spec => RepeatWaits
<1>1. Reliable
  BY DEF Reliable
<1>2. Init => TypeOK /\ SInv
  BY InitType, SInvInit
<1>3. TypeOK /\ SInv /\ [Next]_vars => (TypeOK /\ SInv)'
  BY <1>1, StepType, SInvStep
<1>4. SInv => \A a \in Attempt : pc[a] = "sending" => window[K(a)] = 0
  BY DEF SInv, ClearWindow, NothingRecent
<1>5. TypeOK /\ SInv =>
        [\A a \in Attempt : pc[a] = "sending" /\ pc'[a] = "sent" => window[K(a)] = 0]_vars
  BY <1>4
<1> QED BY <1>2, <1>3, <1>5, PTL DEF Spec, RepeatWaits

(* A row that says done is never changed again, and the provider is not     *)
(* asked for its operation any more.                                        *)
THEOREM SettledIsFinal ==
    ASSUME Faults = {}, ~Slow
    PROVE  Spec => DoneIsFinal /\ NeverAfterDone
<1>1. Reliable
  BY DEF Reliable
<1>2. Init => TypeOK /\ SInv
  BY InitType, SInvInit
<1>3. TypeOK /\ SInv /\ [Next]_vars => (TypeOK /\ SInv)'
  BY <1>1, StepType, SInvStep
<1>4. ASSUME TypeOK, SInv, Next, NEW k \in Key, status[k] = "done"
      PROVE  status'[k] = "done"
  <2> USE <1>4 DEF store, world
  <2>1. ASSUME NEW a \in Attempt, Advance(a) PROVE status'[k] = "done"
    <3>1. CASE ReserveGranted(a)
      BY <3>1, AttemptType DEF ReserveGranted, TakeRow, Free, TypeOK
    <3>2. CASE Finish(a)
      <4>1. Working(a)
        BY <3>2 DEF Finish, Working
      <4>2. status[K(a)] = "reserved"
        BY <4>1 DEF SInv, HoldsRow
      <4> QED BY <3>2, <4>2, AttemptType DEF Finish, TypeOK
    <3>3. CASE ReserveUnavailable(a)
      BY <1>1, <3>3 DEF ReserveUnavailable, Reliable
    <3>4. CASE \/ ReserveRefused(a) \/ ReadRefusal(a) \/ ReadUnavailable(a)
               \/ StartSend(a) \/ GuardRefuses(a) \/ LateRefusal(a) \/ AwaitQuota(a)
               \/ Deliver(a) \/ Confirmed(a) \/ Rejected(a) \/ Misjudged(a)
               \/ AnswerLost(a) \/ Save(a) \/ FinishUnavailable(a)
      BY <3>4 DEF ReserveRefused, ReadRefusal, ReadUnavailable, StartSend, GuardRefuses,
                  LateRefusal, AwaitQuota, Deliver, Confirmed, Rejected, Misjudged,
                  AnswerLost, Save, FinishUnavailable, End, Answer
    <3> QED BY <2>1, <3>1, <3>2, <3>3, <3>4 DEF Advance
  <2>2. ASSUME NEW a \in Attempt, Begin(a) PROVE status'[k] = "done"
    BY <2>2 DEF Begin
  <2>3. CASE Tick \/ \E p \in Process : Restart(p)
    BY <2>3 DEF Tick, Restart
  <2> QED BY <2>1, <2>2, <2>3 DEF Next
<1>5. TypeOK /\ SInv /\ [Next]_vars =>
        [\A k \in Key : status[k] = "done" => status'[k] = "done"]_vars
  BY <1>4
<1>6. SInv =>
        [\A a \in Attempt : pc[a] = "sending" /\ pc'[a] = "sent"
            => status[K(a)] # "done"]_vars
  BY DEF SInv, HoldsRow, Working
<1> QED BY <1>2, <1>3, <1>5, <1>6, PTL DEF Spec, DoneIsFinal, NeverAfterDone
-----------------------------------------------------------------------------
(* A row says done only of what was delivered.  The argument follows one    *)
(* attempt from the delivery over its outcome to the row, and needs neither *)
(* a reliable store nor a bound on the time an attempt takes.               *)

SaysDone(a) ==
    \/ pc[a] = "sent"
    \/ pc[a] \in {"saving", "ending"} /\ verdict[a] = "done"

DInv ==
    /\ \A a \in Attempt : SaysDone(a) => K(a) \in delivered
    /\ DoneMeansDelivered

LEMMA DInvInit == Init => DInv
BY DEF Init, DInv, SaysDone, DoneMeansDelivered

\* No step of an attempt but Deliver and the outcomes of a delivery makes it
\* say done, and none touches what another attempt says.
LEMMA DInvQuiet ==
    ASSUME TypeOK, DInv, NEW a \in Attempt,
           job' = job, delivered \subseteq delivered',
           \A b \in Attempt : b # a => pc'[b] = pc[b] /\ verdict'[b] = verdict[b],
           SaysDone(a)' => SaysDone(a),
           \A k \in Key : status'[k] = "done" => status[k] = "done"
    PROVE  DInv'
<1>1. \A b \in Attempt : K(b)' = K(b)
  BY DEF K
<1>2. \A b \in Attempt : SaysDone(b)' => SaysDone(b)
  BY DEF SaysDone
<1> QED BY <1>1, <1>2 DEF DInv, DoneMeansDelivered

LEMMA DInvAdvance ==
    ASSUME TypeOK, DInv, NEW a \in Attempt, Advance(a)
    PROVE  DInv'
<1> USE DEF store, world
<1>1. ASSUME NEW st \in Stage, pc' = [pc EXCEPT ![a] = st]
      PROVE  pc'[a] = st /\ \A b \in Attempt : b # a => pc'[b] = pc[b]
  BY <1>1 DEF TypeOK
<1>2. ASSUME NEW v \in Verdict, verdict' = [verdict EXCEPT ![a] = v]
      PROVE  verdict'[a] = v /\ \A b \in Attempt : b # a => verdict'[b] = verdict[b]
  BY <1>2 DEF TypeOK
\* The stage moves to one that says nothing, or keeps what it said.
<1>3. ASSUME NEW st \in Stage \ {"sent", "saving", "ending"},
             pc' = [pc EXCEPT ![a] = st], UNCHANGED <<job, verdict, delivered>>,
             \A k \in Key : status'[k] = "done" => status[k] = "done"
      PROVE  DInv'
  <2>1. pc'[a] = st /\ \A b \in Attempt : b # a => pc'[b] = pc[b]
    BY <1>1, <1>3
  <2>2. ~SaysDone(a)'
    BY <2>1 DEF SaysDone
  <2> QED BY <1>3, <2>1, <2>2, DInvQuiet
<1>4. ASSUME TakeRow(K(a)), NEW k \in Key, status'[k] = "done" PROVE status[k] = "done"
  BY <1>4, AttemptType DEF TakeRow, TypeOK
<1>5. ASSUME NEW v \in {"failed", "pending_quota"}, End(a, v) PROVE DInv'
  <2>1. "ending" \in Stage /\ v \in Verdict /\ v # "done"
    BY DEF Stage, Verdict
  <2>2. pc'[a] = "ending" /\ verdict'[a] = v
    BY <1>1, <1>2, <1>5, <2>1 DEF End
  <2>3. \A b \in Attempt : b # a => pc'[b] = pc[b] /\ verdict'[b] = verdict[b]
    BY <1>1, <1>2, <1>5, <2>1 DEF End
  <2>4. ~SaysDone(a)'
    BY <2>1, <2>2 DEF SaysDone
  <2> QED BY <1>5, <2>3, <2>4, DInvQuiet DEF End
<1>6. ASSUME NEW v \in Verdict, Answer(a, v), v = "done" => pc[a] = "sent" PROVE DInv'
  <2>1. "saving" \in Stage
    BY DEF Stage
  <2>2. pc'[a] = "saving" /\ verdict'[a] = v
    BY <1>1, <1>2, <1>6, <2>1 DEF Answer
  <2>3. \A b \in Attempt : b # a => pc'[b] = pc[b] /\ verdict'[b] = verdict[b]
    BY <1>1, <1>2, <1>6, <2>1 DEF Answer
  <2>4. SaysDone(a)' => SaysDone(a)
    BY <1>6, <2>2 DEF SaysDone
  <2> QED BY <1>6, <2>3, <2>4, DInvQuiet DEF Answer
<1>7. CASE ReserveGranted(a)
  BY <1>7, <1>3, <1>4 DEF ReserveGranted, Stage
<1>8. CASE ReserveUnavailable(a)
  BY <1>8, <1>3, <1>4 DEF ReserveUnavailable, Stage
<1>9. CASE ReserveRefused(a) \/ ReadRefusal(a) \/ ReadUnavailable(a) \/ StartSend(a)
  BY <1>9, <1>3 DEF ReserveRefused, ReadRefusal, ReadUnavailable, StartSend, Stage
<1>10. CASE GuardRefuses(a) \/ LateRefusal(a) \/ AwaitQuota(a)
  BY <1>10, <1>5 DEF GuardRefuses, LateRefusal, AwaitQuota
<1>11. CASE Deliver(a)
  <2>1. pc'[a] = "sent" /\ \A b \in Attempt : b # a => pc'[b] = pc[b]
    BY <1>1, <1>11 DEF Deliver, Stage
  <2>2. UNCHANGED <<job, verdict, status>> /\ delivered' = delivered \union {K(a)}
    BY <1>11 DEF Deliver
  <2>3. \A b \in Attempt : K(b)' = K(b)
    BY <2>2 DEF K
  <2>4. \A b \in Attempt : b # a /\ SaysDone(b)' => SaysDone(b)
    BY <2>1, <2>2 DEF SaysDone
  <2> QED BY <2>2, <2>3, <2>4 DEF DInv, DoneMeansDelivered
<1>12. CASE Confirmed(a) \/ Rejected(a) \/ AnswerLost(a)
  BY <1>12, <1>6 DEF Confirmed, Rejected, AnswerLost, Verdict
<1>13. CASE Save(a)
  <2>1. pc'[a] = "ending" /\ \A b \in Attempt : b # a => pc'[b] = pc[b]
    BY <1>1, <1>13 DEF Save, Stage
  <2>2. SaysDone(a)' => SaysDone(a)
    BY <1>13, <2>1 DEF Save, SaysDone
  <2> QED BY <1>13, <2>1, <2>2, DInvQuiet DEF Save
<1>14. CASE Finish(a)
  <2>1. /\ pc'[a] = "idle" /\ \A b \in Attempt : b # a => pc'[b] = pc[b]
        /\ UNCHANGED <<job, verdict, delivered>> /\ pc[a] = "ending"
    BY <1>1, <1>14 DEF Finish, Stage
  <2>2. status' = [status EXCEPT ![K(a)] =
                     IF verdict[a] = "keep" \/ @ = "none" THEN @ ELSE verdict[a]]
    BY <1>14 DEF Finish
  <2>3. \A b \in Attempt : K(b)' = K(b) /\ (SaysDone(b)' => SaysDone(b))
    BY <2>1 DEF K, SaysDone
  <2>4. ASSUME NEW k \in Key, status'[k] = "done" PROVE k \in delivered
    <3>1. CASE status[k] = "done"
      BY <3>1 DEF DInv, DoneMeansDelivered
    <3>2. CASE status[k] # "done"
      <4>1. k = K(a) /\ verdict[a] = "done"
        BY <2>2, <2>4, <3>2, AttemptType DEF TypeOK
      <4> QED BY <2>1, <4>1 DEF DInv, SaysDone
    <3> QED BY <3>1, <3>2
  <2> QED BY <2>1, <2>3, <2>4 DEF DInv, DoneMeansDelivered
<1>15. CASE FinishUnavailable(a)
  BY <1>15, <1>3 DEF FinishUnavailable, Stage
<1>16. CASE Misjudged(a)
  <2>1. pc'[a] = "saving" /\ verdict'[a] = "failed"
    BY <1>1, <1>2, <1>16 DEF Misjudged, Stage, Verdict
  <2>2. \A b \in Attempt : b # a => pc'[b] = pc[b] /\ verdict'[b] = verdict[b]
    BY <1>1, <1>2, <1>16 DEF Misjudged, Stage, Verdict
  <2>3. ~SaysDone(a)'
    BY <2>1 DEF SaysDone
  <2> QED BY <1>16, <2>2, <2>3, DInvQuiet DEF Misjudged
<1> QED BY <1>7, <1>8, <1>9, <1>10, <1>11, <1>12, <1>13, <1>14, <1>15, <1>16 DEF Advance

LEMMA DInvStep == TypeOK /\ DInv /\ [Next]_vars => DInv'
<1> SUFFICES ASSUME TypeOK, DInv, [Next]_vars PROVE DInv'
  OBVIOUS
<1> USE DEF store, world
<1>1. ASSUME NEW a \in Attempt, Begin(a) PROVE DInv'
  <2>1. /\ pc' = [pc EXCEPT ![a] = "asking"] /\ verdict' = [verdict EXCEPT ![a] = "failed"]
        /\ UNCHANGED <<status, delivered>>
    BY <1>1 DEF Begin
  <2>2. PICK j \in Job : job' = [job EXCEPT ![a] = j]
    BY <1>1, Zenon DEF Begin
  <2>3. ~SaysDone(a)'
    BY <2>1 DEF TypeOK, SaysDone
  <2>4. \A b \in Attempt : b # a => K(b)' = K(b) /\ (SaysDone(b)' => SaysDone(b))
    BY <2>1, <2>2 DEF TypeOK, K, SaysDone
  <2> QED BY <2>1, <2>3, <2>4 DEF DInv, DoneMeansDelivered
<1>2. ASSUME NEW a \in Attempt, Advance(a) PROVE DInv'
  BY <1>2, DInvAdvance
<1>3. ASSUME NEW p \in Process, Restart(p) PROVE DInv'
  <2>1. /\ UNCHANGED <<job, verdict, status, delivered>>
        /\ \A b \in Attempt : pc'[b] = pc[b] \/ pc'[b] = "idle"
    BY <1>3 DEF Restart, TypeOK
  <2>2. \A b \in Attempt : K(b)' = K(b) /\ (SaysDone(b)' => SaysDone(b))
    BY <2>1 DEF K, SaysDone
  <2> QED BY <2>1, <2>2 DEF DInv, DoneMeansDelivered
<1>4. CASE Tick \/ UNCHANGED vars
  BY <1>4 DEF Tick, vars, DInv, SaysDone, DoneMeansDelivered, K
<1> QED BY <1>1, <1>2, <1>3, <1>4 DEF Next

(* Whatever store calls fail, and although any attempt may write the row of *)
(* its key, a row says done only of an operation the provider carried out.  *)
THEOREM DoneIsDelivered == Spec => []DoneMeansDelivered
<1>1. Init => TypeOK /\ DInv
  BY InitType, DInvInit
<1>2. TypeOK /\ DInv /\ [Next]_vars => (TypeOK /\ DInv)'
  BY StepType, DInvStep
<1>3. DInv => DoneMeansDelivered
  BY DEF DInv
<1> QED BY <1>1, <1>2, <1>3, PTL DEF Spec
-----------------------------------------------------------------------------
(* A lock has one owner.  Every way out of an attempt, the refusals, the    *)
(* failures of the store and the end of the process included, gives back    *)
(* exactly the lock that its first step took.                               *)

Owns(a, p, k) == Home(a) = p /\ pc[a] # "idle" /\ K(a) = k

LInv ==
    \A p \in Process, k \in Replies :
        /\ k \in locked[p] <=> \E a \in Attempt : Owns(a, p, k)
        /\ \A a, b \in Attempt : Owns(a, p, k) /\ Owns(b, p, k) => a = b

\* An attempt that goes on keeps its lock, and the others theirs.
LEMMA LInvGoesOn ==
    ASSUME LInv, NEW a \in Attempt, pc[a] # "idle", pc'[a] # "idle",
           \A b \in Attempt : b # a => pc'[b] = pc[b], UNCHANGED <<job, locked>>
    PROVE  LInv'
<1>1. ASSUME NEW b \in Attempt, NEW p \in Process, NEW k \in Replies
      PROVE  Owns(b, p, k)' <=> Owns(b, p, k)
  BY DEF Owns, K
<1> QED BY <1>1 DEF LInv

LEMMA LInvReleases ==
    ASSUME TypeOK, LInv, NEW a \in Attempt, pc[a] # "idle", pc'[a] = "idle",
           \A b \in Attempt : b # a => pc'[b] = pc[b], job' = job, Unlocked(a)
    PROVE  LInv'
<1>1. ASSUME NEW b \in Attempt, NEW p \in Process, NEW k \in Replies
      PROVE  Owns(b, p, k)' <=> b # a /\ Owns(b, p, k)
  BY DEF Owns, K
<1>2. ASSUME NEW p \in Process, NEW k \in Replies
      PROVE  k \in locked'[p] <=> k \in locked[p] /\ ~(p = Home(a) /\ k = K(a))
  BY AttemptType DEF Unlocked, TypeOK
<1>3. ASSUME NEW p \in Process, NEW k \in Replies
      PROVE  Owns(a, p, k) <=> p = Home(a) /\ k = K(a)
  BY DEF Owns
<1>4. ASSUME NEW p \in Process, NEW k \in Replies
      PROVE  k \in locked'[p] <=> \E b \in Attempt : Owns(b, p, k)'
  <2>1. (k \in locked[p] <=> \E b \in Attempt : Owns(b, p, k))
        /\ \A b, c \in Attempt : Owns(b, p, k) /\ Owns(c, p, k) => b = c
    BY DEF LInv
  <2> QED BY <1>1, <1>2, <1>3, <2>1, Zenon
<1> QED BY <1>1, <1>4 DEF LInv

LEMMA LInvBegin ==
    ASSUME TypeOK, LInv, NEW a \in Attempt, Begin(a)
    PROVE  LInv'
<1>1. PICK j \in Job :
          /\ j.key \in Replies => j.key \notin locked[Home(a)]
          /\ job' = [job EXCEPT ![a] = j]
          /\ locked' = [locked EXCEPT ![Home(a)] = @ \union ({j.key} \intersect Replies)]
  BY Zenon DEF Begin
<1>2. /\ pc[a] = "idle" /\ pc'[a] = "asking" /\ job'[a] = j
      /\ \A b \in Attempt : b # a => pc'[b] = pc[b] /\ job'[b] = job[b]
  BY <1>1 DEF Begin, TypeOK
<1>3. ASSUME NEW p \in Process, NEW k \in Replies
      PROVE  /\ ~Owns(a, p, k)
             /\ Owns(a, p, k)' <=> p = Home(a) /\ k = j.key
             /\ \A b \in Attempt : b # a => (Owns(b, p, k)' <=> Owns(b, p, k))
  BY <1>2 DEF Owns, K
<1>4. ASSUME NEW p \in Process, NEW k \in Replies
      PROVE  k \in locked'[p] <=> k \in locked[p] \/ (p = Home(a) /\ k = j.key)
  BY <1>1, AttemptType DEF TypeOK
<1>5. ASSUME NEW p \in Process, NEW k \in Replies
      PROVE  /\ k \in locked'[p] <=> \E b \in Attempt : Owns(b, p, k)'
             /\ \A b, c \in Attempt : Owns(b, p, k)' /\ Owns(c, p, k)' => b = c
  <2>1. (k \in locked[p] <=> \E b \in Attempt : Owns(b, p, k))
        /\ \A b, c \in Attempt : Owns(b, p, k) /\ Owns(c, p, k) => b = c
    BY DEF LInv
  <2>2. p = Home(a) /\ k = j.key => k \notin locked[p]
    BY <1>1
  <2> QED BY <1>3, <1>4, <2>1, <2>2, Zenon
<1> QED BY <1>5 DEF LInv

LEMMA LInvStep == TypeOK /\ LInv /\ [Next]_vars => LInv'
<1> SUFFICES ASSUME TypeOK, LInv, [Next]_vars PROVE LInv'
  OBVIOUS
<1> USE DEF store, world
<1>1. ASSUME NEW a \in Attempt, Advance(a) PROVE LInv'
  <2>1. ASSUME NEW st \in Stage, pc' = [pc EXCEPT ![a] = st]
        PROVE  pc'[a] = st /\ \A b \in Attempt : b # a => pc'[b] = pc[b]
    BY <2>1 DEF TypeOK
  <2>2. ASSUME NEW st \in Stage \ {"idle"}, pc' = [pc EXCEPT ![a] = st], pc[a] # "idle",
               UNCHANGED <<job, locked>>
        PROVE  LInv'
    BY <2>1, <2>2, LInvGoesOn
  <2>3. CASE ReserveGranted(a) \/ ReserveRefused(a) \/ ReserveUnavailable(a)
    BY <2>2, <2>3 DEF ReserveGranted, ReserveRefused, ReserveUnavailable, Stage
  <2>4. CASE ReadUnavailable(a) \/ StartSend(a) \/ Deliver(a) \/ Save(a)
    BY <2>2, <2>4 DEF ReadUnavailable, StartSend, Deliver, Save, Stage
  <2>5. CASE GuardRefuses(a) \/ LateRefusal(a) \/ AwaitQuota(a)
    BY <2>2, <2>5 DEF GuardRefuses, LateRefusal, AwaitQuota, End, Stage
  <2>6. CASE Confirmed(a) \/ Rejected(a) \/ Misjudged(a) \/ AnswerLost(a)
    BY <2>2, <2>6 DEF Confirmed, Rejected, Misjudged, AnswerLost, Answer, Stage
  <2>7. CASE ReadRefusal(a) \/ Finish(a) \/ FinishUnavailable(a)
    <3>1. /\ pc[a] # "idle" /\ pc' = [pc EXCEPT ![a] = "idle"] /\ job' = job /\ Unlocked(a)
      BY <2>7 DEF ReadRefusal, Finish, FinishUnavailable
    <3> QED BY <2>1, <3>1, LInvReleases DEF Stage
  <2> QED BY <1>1, <2>3, <2>4, <2>5, <2>6, <2>7 DEF Advance
<1>2. ASSUME NEW a \in Attempt, Begin(a) PROVE LInv'
  BY <1>2, LInvBegin
<1>3. ASSUME NEW q \in Process, Restart(q) PROVE LInv'
  <2>1. ASSUME NEW b \in Attempt, NEW p \in Process, NEW k \in Replies
        PROVE  Owns(b, p, k)' <=> p # q /\ Owns(b, p, k)
    BY <1>3 DEF Restart, Owns, K
  <2>2. ASSUME NEW p \in Process, NEW k \in Replies
        PROVE  k \in locked'[p] <=> p # q /\ k \in locked[p]
    BY <1>3 DEF Restart, TypeOK
  <2> QED BY <2>1, <2>2 DEF LInv
<1>4. CASE Tick \/ UNCHANGED vars
  BY <1>4 DEF Tick, vars, LInv, Owns, K
<1> QED BY <1>1, <1>2, <1>3, <1>4 DEF Next

(* Whatever store calls fail and however long an attempt takes, a lock of a *)
(* reply is held by exactly one live attempt of its process, and no attempt *)
(* leaves one behind.                                                       *)
THEOREM LocksAreOwned == Spec => []LocksHaveOwners
<1>1. Init => TypeOK /\ LInv
  BY InitType DEF Init, LInv, Owns
<1>2. TypeOK /\ LInv /\ [Next]_vars => (TypeOK /\ LInv)'
  BY StepType, LInvStep
<1>3. LInv => LocksHaveOwners
  <2> SUFFICES ASSUME LInv, NEW p \in Process, NEW k \in Replies
      PROVE  Cardinality({a \in Attempt : Owns(a, p, k)}) = IF k \in locked[p] THEN 1 ELSE 0
    BY DEF LocksHaveOwners, Owns
  <2> DEFINE owners == {a \in Attempt : Owns(a, p, k)}
  <2>1. (k \in locked[p] <=> \E a \in Attempt : Owns(a, p, k))
        /\ \A a, b \in Attempt : Owns(a, p, k) /\ Owns(b, p, k) => a = b
    BY DEF LInv
  <2>2. CASE k \in locked[p]
    <3>1. PICK a \in Attempt : Owns(a, p, k)
      BY <2>1, <2>2
    <3>2. owners = {a}
      BY <2>1, <3>1
    <3> QED BY <2>2, <3>2, FS_Singleton
  <2>3. CASE k \notin locked[p]
    <3>1. owners = {}
      BY <2>1, <2>3
    <3> QED BY <2>3, <3>1, FS_EmptySet
  <2> QED BY <2>2, <2>3
<1> QED BY <1>1, <1>2, <1>3, PTL DEF Spec
-----------------------------------------------------------------------------
(* Refinement.  With a reliable store every step of ExternalOperation is a  *)
(* step of OperationPromise or leaves what that module sees unchanged.      *)

Execution == [k \in Key |-> {a \in Attempt : Working(a) /\ K(a) = k}]
Settled == {k \in Key : status[k] = "done"}
Recent == {k \in Key : window[k] > 0}

RInv == TypeOK /\ SInv /\ DInv

LEMMA MapInit == Init => Promise!Init
<1> SUFFICES ASSUME Init PROVE Promise!Init
  OBVIOUS
<1>1. \A k \in Key : {a \in Attempt : Working(a) /\ K(a) = k} = {}
  BY DEF Init, Working
<1>2. Settled = {} /\ Recent = {} /\ delivered = {}
  BY DEF Init, Settled, Recent
<1> QED BY <1>1, <1>2 DEF Promise!Init, Settled, Recent

\* Who executes is decided by which attempts work, and on what.
LEMMA SameExecution ==
    ASSUME \A b \in Attempt : Working(b)' <=> Working(b),
           \A b \in Attempt : Working(b) => K(b)' = K(b)
    PROVE  Execution' = Execution
<1>1. \A k \in Key : {a \in Attempt : Working(a)' /\ K(a)' = k}
                      = {a \in Attempt : Working(a) /\ K(a) = k}
  OBVIOUS
<1> QED BY <1>1 DEF Execution

\* Attempts that stop working leave the others where they are.
LEMMA FewerExecute ==
    ASSUME NEW E \in SUBSET Attempt,
           \A b \in Attempt : Working(b)' <=> Working(b) /\ b \notin E,
           \A b \in Attempt : K(b)' = K(b)
    PROVE  Execution' = [k \in Key |-> Execution[k] \ E]
<1>1. \A k \in Key : {a \in Attempt : Working(a)' /\ K(a)' = k}
                      = {a \in Attempt : Working(a) /\ K(a) = k} \ E
  OBVIOUS
<1> QED BY <1>1 DEF Execution

\* While one works on a key, it is the only one.
LEMMA OnlyExecutor ==
    ASSUME SInv, NEW a \in Attempt, Working(a), K(a) \in Key
    PROVE  Execution[K(a)] = {a}
BY DEF SInv, OneExecutor, Execution

LEMMA MapUnchanged ==
    ASSUME Execution' = Execution, Settled' = Settled, UNCHANGED <<delivered, window>>
    PROVE  UNCHANGED Promise!vars
BY DEF Promise!vars, Execution, Settled

LEMMA MapGranted ==
    ASSUME RInv, NEW a \in Attempt, ReserveGranted(a), NEW k \in Key, k = K(a)
    PROVE  Promise!Claim(k, a)
<1>1. /\ Free(k) /\ pc[a] = "asking" /\ pc' = [pc EXCEPT ![a] = "granted"]
      /\ UNCHANGED <<job, delivered, window>>
      /\ status' = [status EXCEPT ![k] = "reserved"]
  BY DEF ReserveGranted, TakeRow, world
<1>2. k \in Key /\ window[k] \in Nat /\ left[k] \in Nat
  BY AttemptType DEF RInv, TypeOK
<1>3. \A b \in Attempt : Working(b) => K(b) # k
  BY <1>1, <1>2 DEF RInv, SInv, HoldsRow, Free
<1>4. \A b \in Attempt : K(b)' = K(b)
  BY <1>1 DEF K
<1>5. /\ Working(a)' /\ ~Working(a)
      /\ \A b \in Attempt : b # a => (Working(b)' <=> Working(b))
  BY <1>1 DEF RInv, TypeOK, Working
<1>6. {b \in Attempt : Working(b)' /\ K(b)' = k} = {a}
  BY <1>3, <1>4, <1>5
<1>7. \A o \in Key : o # k => {b \in Attempt : Working(b)' /\ K(b)' = o}
                               = {b \in Attempt : Working(b) /\ K(b) = o}
  BY <1>4, <1>5
<1>8. Execution' = [Execution EXCEPT ![k] = {a}]
  BY <1>2, <1>6, <1>7 DEF Execution
<1>9. Execution[k] = {}
  BY <1>2, <1>3 DEF Execution
<1>10. k \notin Settled /\ k \notin Recent
  BY <1>1, <1>2 DEF RInv, SInv, RecentGuarded, Guarded, Free, Settled, Recent
<1>11. Settled' = Settled
  BY <1>1, <1>2, <1>10 DEF RInv, TypeOK, Settled
<1> QED BY <1>1, <1>8, <1>9, <1>10, <1>11 DEF Promise!Claim, Execution, Settled, Recent

LEMMA MapDeliver ==
    ASSUME RInv, NEW a \in Attempt, Deliver(a), NEW k \in Key, k = K(a)
    PROVE  Promise!Carry(k)
<1>1. /\ pc[a] = "sending" /\ pc' = [pc EXCEPT ![a] = "sent"]
      /\ UNCHANGED <<job, status>> /\ delivered' = delivered \union {k}
      /\ window' = [window EXCEPT ![k] = left[k]]
  BY DEF Deliver, store
<1>2. k \in Key /\ Working(a) /\ status[k] = "reserved" /\ left[k] > 0 /\ window[k] = 0
  BY <1>1, AttemptType DEF RInv, SInv, HoldsRow, ClearWindow, NothingRecent, Working
<1>3. Execution[k] = {a}
  BY <1>2, OnlyExecutor DEF RInv
<1>4. \A b \in Attempt : K(b)' = K(b) /\ (Working(b)' <=> Working(b))
  BY <1>1 DEF RInv, TypeOK, K, Working
<1>5. Execution' = Execution
  BY <1>4, SameExecution
<1>6. k \notin Settled /\ k \notin Recent /\ Settled' = Settled
  BY <1>1, <1>2 DEF Settled, Recent
<1>7. Recent' = Recent \union {k}
  BY <1>1, <1>2 DEF RInv, TypeOK, Recent
<1> QED BY <1>1, <1>3, <1>5, <1>6, <1>7 DEF Promise!Carry, Execution, Settled, Recent

LEMMA MapMisjudged ==
    ASSUME RInv, NEW a \in Attempt, Misjudged(a), NEW k \in Key, k = K(a)
    PROVE  Promise!Disown(k)
<1>1. /\ pc[a] = "sent" /\ pc' = [pc EXCEPT ![a] = "saving"]
      /\ UNCHANGED <<job, status, delivered>>
      /\ window' = [window EXCEPT ![k] = 0]
  BY DEF Misjudged, store
<1>2. k \in Key /\ Working(a) /\ k \in delivered
  BY <1>1 DEF RInv, DInv, SaysDone, Working
<1>3. Execution[k] = {a}
  BY <1>2, OnlyExecutor DEF RInv
<1>4. \A b \in Attempt : K(b)' = K(b) /\ (Working(b)' <=> Working(b))
  BY <1>1 DEF RInv, TypeOK, K, Working
<1>5. Execution' = Execution
  BY <1>4, SameExecution
<1>6. Recent' = Recent \ {k}
  BY <1>1, <1>2 DEF RInv, TypeOK, Recent
<1> QED BY <1>1, <1>2, <1>3, <1>5, <1>6 DEF Promise!Disown, Execution, Recent

LEMMA MapFinish ==
    ASSUME RInv, NEW a \in Attempt, Finish(a), NEW k \in Key, k = K(a)
    PROVE  Promise!Settle(k) \/ Promise!Release({a})
<1>1. /\ pc[a] = "ending" /\ pc' = [pc EXCEPT ![a] = "idle"]
      /\ UNCHANGED <<job, delivered, window>>
      /\ status' = [status EXCEPT ![k] =
                      IF verdict[a] = "keep" \/ @ = "none" THEN @ ELSE verdict[a]]
  BY DEF Finish, world
<1>2. k \in Key /\ Working(a) /\ status[k] = "reserved"
  BY <1>1, AttemptType DEF RInv, SInv, HoldsRow, Working
<1>3. Execution[k] = {a}
  BY <1>2, OnlyExecutor DEF RInv
<1>4. \A b \in Attempt : K(b)' = K(b) /\ (Working(b)' <=> Working(b) /\ b \notin {a})
  BY <1>1 DEF RInv, TypeOK, K, Working
<1>5. Execution' = [o \in Key |-> Execution[o] \ {a}]
  BY <1>4, FewerExecute
<1>6. CASE verdict[a] = "done"
  <2>1. k \in delivered
    BY <1>1, <1>6 DEF RInv, DInv, SaysDone
  <2>2. Settled' = Settled \union {k}
    BY <1>1, <1>2, <1>6 DEF RInv, TypeOK, Settled
  <2>3. \A o \in Key : o # k => a \notin Execution[o]
    BY DEF Execution
  <2>4. Execution' = [Execution EXCEPT ![k] = {}]
    BY <1>2, <1>3, <1>5, <2>3 DEF Execution
  <2> QED BY <1>1, <1>3, <2>1, <2>2, <2>4 DEF Promise!Settle, Execution, Settled
<1>7. CASE verdict[a] # "done"
  <2>1. Settled' = Settled
    BY <1>1, <1>2, <1>7 DEF RInv, TypeOK, Settled
  <2> QED BY <1>1, <1>5, <2>1 DEF Promise!Release, Execution, Settled
<1> QED BY <1>6, <1>7

LEMMA MapRestart ==
    ASSUME RInv, NEW p \in Process, Restart(p)
    PROVE  Promise!Release({a \in Attempt : Home(a) = p})
<1> DEFINE E == {a \in Attempt : Home(a) = p}
<1>1. /\ pc' = [a \in Attempt |-> IF Home(a) = p THEN "idle" ELSE pc[a]]
      /\ UNCHANGED <<job, status, delivered, window>>
  BY DEF Restart, store, world
<1>2. \A b \in Attempt : K(b)' = K(b) /\ (Working(b)' <=> Working(b) /\ b \notin E)
  BY <1>1 DEF K, Working
<1>3. Execution' = [o \in Key |-> Execution[o] \ E]
  BY <1>2, FewerExecute
<1> QED BY <1>1, <1>3 DEF Promise!Release, Execution

LEMMA MapTick ==
    ASSUME RInv, Tick
    PROVE  Promise!Forget
<1>1. UNCHANGED <<pc, job, status, delivered>> /\ window' = Less(window)
  BY DEF Tick
<1>2. Recent' \subseteq Recent
  BY <1>1 DEF RInv, TypeOK, Recent, Less
<1>3. Execution' = Execution
  BY <1>1 DEF Execution, Working, K
<1> QED BY <1>1, <1>2, <1>3 DEF Promise!Forget, Execution, Recent

\* The other steps leave workers working, idlers idle and the rows as they are.
LEMMA MapOther ==
    ASSUME RInv, Reliable, NEW a \in Attempt, Begin(a) \/ Advance(a),
           ~ReserveGranted(a), ~Deliver(a), ~Misjudged(a), ~Finish(a)
    PROVE  UNCHANGED Promise!vars
<1> USE DEF store, world
<1>1. UNCHANGED <<status, delivered, window>>
  BY DEF Begin, Advance, ReserveRefused, ReserveUnavailable, ReadRefusal,
         ReadUnavailable, StartSend, GuardRefuses, LateRefusal, AwaitQuota, Confirmed,
         Rejected, AnswerLost, Save, FinishUnavailable, End, Answer, Reliable
<1>2. ASSUME Begin(a) PROVE Execution' = Execution
  <2>1. pc[a] = "idle" /\ pc' = [pc EXCEPT ![a] = "asking"]
    BY <1>2 DEF Begin
  <2>2. PICK j \in Job : job' = [job EXCEPT ![a] = j]
    BY <1>2, Zenon DEF Begin
  <2>3. \A b \in Attempt : Working(b)' <=> Working(b)
    BY <2>1 DEF RInv, TypeOK, Working
  <2>4. \A b \in Attempt : Working(b) => K(b)' = K(b)
    BY <2>1, <2>2 DEF RInv, TypeOK, K, Working
  <2> QED BY <2>3, <2>4, SameExecution
<1>3. ASSUME Advance(a) PROVE Execution' = Execution
  <2>1. job' = job
    BY <1>3 DEF Advance, ReserveGranted, ReserveRefused, ReserveUnavailable, ReadRefusal,
           ReadUnavailable, StartSend, GuardRefuses, LateRefusal, AwaitQuota, Deliver,
           Confirmed, Rejected, AnswerLost, Save, Finish, FinishUnavailable, End, Answer
  <2>2. Working(a)' <=> Working(a)
    BY <1>3 DEF Advance, ReserveRefused, ReserveUnavailable, ReadRefusal,
           ReadUnavailable, StartSend, GuardRefuses, LateRefusal, AwaitQuota,
           Confirmed, Rejected, AnswerLost, Save, FinishUnavailable, End, Answer,
           Reliable, RInv, TypeOK, Working
  <2>3. \A b \in Attempt : b # a => pc'[b] = pc[b]
    BY <1>3 DEF Advance, ReserveRefused, ReserveUnavailable, ReadRefusal,
           ReadUnavailable, StartSend, GuardRefuses, LateRefusal, AwaitQuota,
           Confirmed, Rejected, AnswerLost, Save, FinishUnavailable, End, Answer,
           RInv, TypeOK
  <2>4. \A b \in Attempt : (Working(b)' <=> Working(b)) /\ K(b)' = K(b)
    BY <2>1, <2>2, <2>3 DEF Working, K
  <2> QED BY <2>4, SameExecution
<1>4. Execution' = Execution
  BY <1>2, <1>3
<1> QED BY <1>1, <1>4, MapUnchanged DEF Settled

LEMMA MapStep == RInv /\ Reliable /\ [Next]_vars => [Promise!Next]_(Promise!vars)
<1> SUFFICES ASSUME RInv, Reliable, [Next]_vars
             PROVE  Promise!Next \/ UNCHANGED Promise!vars
  OBVIOUS
<1>1. ASSUME NEW a \in Attempt, Begin(a) \/ Advance(a)
      PROVE  Promise!Next \/ UNCHANGED Promise!vars
  <2>1. PICK k \in Key : k = K(a)
    BY AttemptType DEF RInv
  <2>2. CASE ReserveGranted(a)
    BY <2>1, <2>2, MapGranted DEF Promise!Next
  <2>3. CASE Deliver(a)
    BY <2>1, <2>3, MapDeliver DEF Promise!Next
  <2>4. CASE Finish(a)
    BY <2>1, <2>4, MapFinish DEF Promise!Next
  <2>5. CASE Misjudged(a)
    BY <2>1, <2>5, MapMisjudged DEF Promise!Next
  <2>6. CASE ~ReserveGranted(a) /\ ~Deliver(a) /\ ~Misjudged(a) /\ ~Finish(a)
    BY <1>1, <2>6, MapOther
  <2> QED BY <2>2, <2>3, <2>4, <2>5, <2>6
<1>2. ASSUME NEW p \in Process, Restart(p) PROVE Promise!Next
  <2>1. {a \in Attempt : Home(a) = p} \in SUBSET Attempt
    OBVIOUS
  <2> QED BY <1>2, <2>1, MapRestart DEF Promise!Next
<1>3. ASSUME Tick PROVE Promise!Next
  BY <1>3, MapTick DEF Promise!Next
<1>4. ASSUME UNCHANGED vars PROVE UNCHANGED Promise!vars
  <2>1. Execution' = Execution /\ Settled' = Settled
    BY <1>4 DEF vars, Execution, Settled, Working, K
  <2> QED BY <1>4, <2>1, MapUnchanged DEF vars
<1> QED BY <1>1, <1>2, <1>3, <1>4 DEF Next

(* Many processes with a local lock each, a table of expiring rows, lost    *)
(* answers and restarts behave as one operation with one executor that is   *)
(* carried out apart from recent times and never once it is settled.  The   *)
(* one gap is stated by the promise itself: an executor may disown what it  *)
(* carried out, when the answer of the provider was taken for a refusal.    *)
THEOREM PromiseKept ==
    ASSUME Faults = {}, ~Slow
    PROVE  Spec => KeepsPromise
<1>1. Reliable
  BY DEF Reliable
<1>2. Init => RInv
  BY InitType, SInvInit, DInvInit DEF RInv
<1>3. RInv /\ [Next]_vars => RInv'
  BY <1>1, StepType, SInvStep, DInvStep DEF RInv
<1>4. Init => Promise!Init
  BY MapInit
<1>5. RInv /\ [Next]_vars => [Promise!Next]_(Promise!vars)
  BY <1>1, MapStep
<1> QED BY <1>2, <1>3, <1>4, <1>5, PTL DEF Spec, KeepsPromise, Promise!Spec
=============================================================================
