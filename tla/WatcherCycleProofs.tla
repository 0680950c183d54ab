------------------------- MODULE WatcherCycleProofs ------------------------
(* Machine-checked theorems about WatcherCycle, for every set of processes, *)
(* calls and comments, every length of the lease and any number of          *)
(* restarts: type correctness, and that a process runs one cycle at a time. *)
EXTENDS WatcherCycle, TLAPS

Memo == [held : BOOLEAN, decided : SUBSET Comment]

LEMMA CallType ==
    ASSUME TypeOK, NEW c \in Call
    PROVE  /\ Home(c) \in Process /\ lease[Home(c)] \in Lease
           /\ decided[Home(c)] \in SUBSET Comment
           /\ image[c] \in SUBSET Image /\ count[c] \in 0 .. Budget
           /\ subject[c] \in SUBSET Comment
BY DEF TypeOK, Call, Home

LEMMA FreeType == Free \in Lease
BY CycleAssumption DEF Free, Lease, Holder

LEMMA RestType ==
    ASSUME NEW l \in Lease
    PROVE  (IF l.holder = "mine" THEN Free ELSE l) \in Lease
BY FreeType

LEMMA TakenType == [holder |-> "mine", left |-> TTL] \in Lease
BY CycleAssumption DEF Lease, Holder

LEMMA SnapshotType ==
    ASSUME NEW l \in Lease, NEW d \in SUBSET Comment
    PROVE  Snapshot(l, d) \in Image
<1>1. (l.holder # "none") \in BOOLEAN
  BY Zenon
<1>2. l.left \in 0 .. TTL
  BY DEF Lease
<1> QED BY <1>1, <1>2, Zenon DEF Snapshot, Image

LEMMA SignificantType ==
    ASSUME NEW i \in Image
    PROVE  Significant(i) \in Memo
<1>1. i.held \in BOOLEAN /\ i.decided \in SUBSET Comment
  BY Zenon DEF Image
<1> QED BY <1>1, Zenon DEF Significant, Memo

LEMMA BeginType ==
    ASSUME TypeOK, NEW c \in Call, NEW l \in Lease, NEW d \in SUBSET Comment,
           BeginSave(c, l, d)
    PROVE  image' \in [Call -> SUBSET Image]
<1>1. Snapshot(l, d) \in Image
  BY SnapshotType
<1>2. image \in [Call -> SUBSET Image]
  BY DEF TypeOK
<1>3. (IF Significant(Snapshot(l, d)) \in memo[Home(c)] THEN {} ELSE {Snapshot(l, d)})
        \in SUBSET Image
  BY <1>1, Zenon
<1> QED BY <1>2, <1>3, Zenon DEF BeginSave

LEMMA SettleType ==
    ASSUME TypeOK, NEW c \in Call, Settle(c)
    PROVE  db' \in Image /\ memo' \in [Process -> SUBSET Memo]
<1>1. db \in Image /\ memo \in [Process -> SUBSET Memo]
  BY Zenon DEF TypeOK, Memo
<1>2. CASE UNCHANGED <<db, memo>>
  BY <1>1, <1>2, Zenon
<1>3. CASE \E i \in image[c] : /\ db' = i
                               /\ memo' = [memo EXCEPT ![Home(c)] = {Significant(i)}]
  <2>1. PICK i \in image[c] : /\ db' = i
                              /\ memo' = [memo EXCEPT ![Home(c)] = {Significant(i)}]
    BY <1>3
  <2>2. i \in Image
    BY CallType
  <2>3. {Significant(i)} \in SUBSET Memo
    BY <2>2, SignificantType
  <2> QED BY <1>1, <2>1, <2>2, <2>3, Zenon
<1> QED BY <1>2, <1>3 DEF Settle

LEMMA EndType ==
    ASSUME TypeOK, NEW c \in Call, EndSave(c)
    PROVE  /\ db' \in Image /\ memo' \in [Process -> SUBSET Memo]
           /\ image' \in [Call -> SUBSET Image]
<1>1. Settle(c) /\ image' = [image EXCEPT ![c] = {}]
  BY DEF EndSave
<1>2. image \in [Call -> SUBSET Image]
  BY DEF TypeOK
<1> QED BY <1>1, <1>2, SettleType

LEMMA OlderLease == ASSUME NEW l \in Lease PROVE Older(l) \in Lease
BY CycleAssumption DEF Older, Less, Lease, Holder

LEMMA OlderImage == ASSUME NEW i \in Image PROVE Older(i) \in Image
<1>1. Less(i.left) \in 0 .. TTL
  BY CycleAssumption DEF Less, Image
<1>2. Older(i) = [i EXCEPT !.left = Less(i.left)]
  BY Zenon DEF Older
<1>3. \A n \in 0 .. TTL : [i EXCEPT !.left = n] \in Image
  BY SMT DEF Image
<1> QED BY <1>1, <1>2, <1>3

-----------------------------------------------------------------------------
(* Type correctness.                                                       *)

\* A cycle that is deciding a comment has not used up its budget.
UnderBudget == \A c \in Call : stage[c] = "deciding" => count[c] < Budget

LEMMA InitType == Init => TypeOK
<1> SUFFICES ASSUME Init PROVE TypeOK
  OBVIOUS
<1>1. db \in Image
  BY CycleAssumption, Zenon, SMT DEF Init, Image
<1>2. lease \in [Process -> Lease]
  BY FreeType DEF Init
<1>3. /\ running \in [Process -> BOOLEAN] /\ subject \in [Call -> SUBSET Comment]
      /\ decided \in [Process -> SUBSET Comment] /\ image \in [Call -> SUBSET Image]
      /\ memo \in [Process -> SUBSET [held : BOOLEAN, decided : SUBSET Comment]]
  BY Zenon DEF Init
<1>4. /\ count \in [Call -> 0 .. Budget] /\ stage \in [Call -> Stage]
      /\ kind \in {"youtube", "other"} /\ restarts \in 0 .. MaxRestarts
  BY CycleAssumption DEF Init, Stage
<1> QED BY <1>1, <1>2, <1>3, <1>4, Zenon DEF TypeOK

\* What a step of one call leaves typed, given the variables it may change.
LEMMA CallStepType ==
    ASSUME TypeOK, UnderBudget, NEW c \in Call,
           Start(c) \/ Advance(c) \/ RouteSave(c)
    PROVE  TypeOK'
<1> DEFINE p == Home(c)
           taken == [holder |-> "mine", left |-> TTL]
           rest == IF lease[p].holder = "mine" THEN Free ELSE lease[p]
<1>0. /\ kind \in {"youtube", "other"} /\ stage \in [Call -> Stage]
      /\ subject \in [Call -> SUBSET Comment] /\ count \in [Call -> 0 .. Budget]
      /\ running \in [Process -> BOOLEAN] /\ lease \in [Process -> Lease]
      /\ decided \in [Process -> SUBSET Comment] /\ image \in [Call -> SUBSET Image]
      /\ memo \in [Process -> SUBSET Memo] /\ db \in Image /\ restarts \in 0 .. MaxRestarts
      /\ p \in Process /\ lease[p] \in Lease /\ decided[p] \in SUBSET Comment
  BY CallType, Zenon DEF TypeOK, Memo
<1>a. taken \in Lease /\ rest \in Lease /\ Free \in Lease
  BY TakenType, RestType, FreeType, <1>0, Zenon
<1>b. \A x \in {"idle", "claiming", "working", "deciding", "saving", "reporting",
                "releasing", "route"} : [stage EXCEPT ![c] = x] \in [Call -> Stage]
  BY <1>0 DEF Stage
<1>c. \A l \in Lease : [lease EXCEPT ![p] = l] \in [Process -> Lease]
  BY <1>0
<1>d. SUFFICES /\ kind' \in {"youtube", "other"} /\ stage' \in [Call -> Stage]
               /\ subject' \in [Call -> SUBSET Comment] /\ count' \in [Call -> 0 .. Budget]
               /\ running' \in [Process -> BOOLEAN] /\ lease' \in [Process -> Lease]
               /\ decided' \in [Process -> SUBSET Comment]
               /\ image' \in [Call -> SUBSET Image]
               /\ memo' \in [Process -> SUBSET Memo] /\ db' \in Image
               /\ restarts' \in 0 .. MaxRestarts
  BY Zenon DEF TypeOK, Memo
<1>1. CASE Start(c)
  <2>1. /\ UNCHANGED <<kind, subject, count, decided, memo, db, restarts>>
        /\ lease' = [lease EXCEPT ![p] = taken]
    BY <1>1, Zenon DEF Start, cycle
  <2>2. CASE kind = "youtube"
    <3>1. /\ running' = [running EXCEPT ![p] = TRUE]
          /\ stage' = [stage EXCEPT ![c] = "claiming"]
          /\ BeginSave(c, taken, decided[p])
      BY <1>1, <2>2, Zenon DEF Start
    <3>2. running' \in [Process -> BOOLEAN]
      BY <3>1, <1>0, Zenon
    <3>3. image' \in [Call -> SUBSET Image]
      BY <3>1, <1>0, <1>a, BeginType
    <3> QED BY <1>0, <1>a, <1>b, <1>c, <2>1, <3>1, <3>2, <3>3, Zenon
  <2>3. CASE kind # "youtube"
    <3>1. /\ running' = running /\ image' = image
          /\ stage' = [stage EXCEPT ![c] = "working"]
      BY <1>1, <2>3, Zenon DEF Start
    <3> QED BY <1>0, <1>a, <1>b, <1>c, <2>1, <3>1, Zenon
  <2> QED BY <2>2, <2>3
<1>2. CASE Claimed(c) \/ Saved(c) \/ Released(c) \/ RouteSaved(c)
  <2>1. /\ EndSave(c)
        /\ UNCHANGED <<kind, subject, count, running, lease, decided, restarts>>
        /\ stage' = [stage EXCEPT ![c] = "working"] \/ stage' = [stage EXCEPT ![c] = "idle"]
    BY <1>2, Zenon DEF Claimed, Saved, Released, RouteSaved, cycle
  <2>2. stage' \in [Call -> Stage]
    BY <1>b, <2>1
  <2>3. db' \in Image /\ memo' \in [Process -> SUBSET Memo] /\ image' \in [Call -> SUBSET Image]
    BY <2>1, EndType
  <2> QED BY <1>0, <2>1, <2>2, <2>3, Zenon
<1>3. CASE Consider(c)
  <2>1. /\ UNCHANGED <<kind, count, running, lease, decided, image, memo, db, restarts>>
        /\ stage' = [stage EXCEPT ![c] = "deciding"]
    BY <1>3, Zenon DEF Consider
  <2>2. PICK x \in Comment : subject' = [subject EXCEPT ![c] = {x}]
    BY <1>3, Zenon DEF Consider
  <2>3. subject' \in [Call -> SUBSET Comment]
    BY <1>0, <2>2
  <2> QED BY <1>0, <1>b, <2>1, <2>3, Zenon
<1>4. CASE Decide(c)
  <2> DEFINE d == decided[p] \union subject[c]
  <2>1. /\ stage[c] = "deciding" /\ UNCHANGED <<kind, running, lease, memo, db, restarts>>
        /\ decided' = [decided EXCEPT ![p] = d]
        /\ count' = [count EXCEPT ![c] = @ + 1]
        /\ subject' = [subject EXCEPT ![c] = {}]
    BY <1>4, Zenon DEF Decide
  <2>2. count' \in [Call -> 0 .. Budget]
    <3>1. count[c] \in 0 .. Budget /\ count[c] < Budget
      BY <2>1, CallType DEF UnderBudget
    <3>2. count[c] + 1 \in 0 .. Budget
      BY <3>1, CycleAssumption
    <3> QED BY <1>0, <2>1, <3>2
  <2>3. d \in SUBSET Comment
    BY <1>0
  <2>4. decided' \in [Process -> SUBSET Comment] /\ subject' \in [Call -> SUBSET Comment]
    BY <1>0, <2>1, <2>3
  <2>5. CASE kind = "youtube"
    <3>1. stage' = [stage EXCEPT ![c] = "saving"] /\ BeginSave(c, lease[p], d)
      BY <1>4, <2>5, Zenon DEF Decide
    <3>2. image' \in [Call -> SUBSET Image]
      BY <3>1, <1>0, <2>3, BeginType
    <3> QED BY <1>0, <1>b, <2>1, <2>2, <2>4, <3>1, <3>2, Zenon
  <2>6. CASE kind # "youtube"
    <3>1. stage' = [stage EXCEPT ![c] = "working"] /\ image' = image
      BY <1>4, <2>6, Zenon DEF Decide
    <3> QED BY <1>0, <1>b, <2>1, <2>2, <2>4, <3>1, Zenon
  <2> QED BY <2>5, <2>6
<1>5. CASE Conclude(c)
  <2>1. /\ stage' = [stage EXCEPT ![c] = "reporting"]
        /\ BeginSave(c, lease[p], decided[p])
        /\ subject' = [subject EXCEPT ![c] = {}] /\ count' = [count EXCEPT ![c] = 0]
        /\ UNCHANGED <<kind, running, lease, decided, memo, db, restarts>>
    BY <1>5, Zenon DEF Conclude
  <2>2. image' \in [Call -> SUBSET Image]
    BY <2>1, <1>0, BeginType
  <2>3. subject' \in [Call -> SUBSET Comment] /\ count' \in [Call -> 0 .. Budget]
    BY <1>0, <2>1, CycleAssumption
  <2> QED BY <1>0, <1>b, <2>1, <2>2, <2>3, Zenon
<1>6. CASE Finally(c)
  <2>1. Settle(c) /\ UNCHANGED <<kind, subject, count, decided, restarts>>
    BY <1>6, Zenon DEF Finally, cycle
  <2>2. db' \in Image /\ memo' \in [Process -> SUBSET Memo]
    BY <2>1, SettleType
  <2>3. CASE kind = "youtube"
    <3>1. /\ running' = [running EXCEPT ![p] = FALSE]
          /\ lease' = [lease EXCEPT ![p] = rest]
          /\ stage' = [stage EXCEPT ![c] = "releasing"]
          /\ BeginSave(c, rest, decided[p])
      BY <1>6, <2>3, Zenon DEF Finally
    <3>2. running' \in [Process -> BOOLEAN]
      BY <3>1, <1>0, Zenon
    <3>3. image' \in [Call -> SUBSET Image]
      BY <3>1, <1>0, <1>a, BeginType
    <3> QED BY <1>0, <1>a, <1>b, <1>c, <2>1, <2>2, <3>1, <3>2, <3>3, Zenon
  <2>4. CASE kind # "youtube"
    <3>1. /\ lease' = [lease EXCEPT ![p] = Free]
          /\ stage' = [stage EXCEPT ![c] = "idle"]
          /\ image' = [image EXCEPT ![c] = {}]
          /\ running' = running
      BY <1>6, <2>4, Zenon DEF Finally
    <3>2. image' \in [Call -> SUBSET Image]
      BY <3>1, <1>0
    <3> QED BY <1>0, <1>a, <1>b, <1>c, <2>1, <2>2, <3>1, <3>2, Zenon
  <2> QED BY <2>3, <2>4
<1>7. CASE RouteSave(c)
  <2>1. /\ UNCHANGED <<kind, subject, count, running, lease, decided, memo, db, restarts>>
        /\ stage' = [stage EXCEPT ![c] = "route"]
        /\ BeginSave(c, lease[p], decided[p])
    BY <1>7, Zenon DEF RouteSave, cycle
  <2>2. image' \in [Call -> SUBSET Image]
    BY <2>1, <1>0, BeginType
  <2> QED BY <1>0, <1>b, <2>1, <2>2, Zenon
<1> QED BY <1>1, <1>2, <1>3, <1>4, <1>5, <1>6, <1>7 DEF Advance

LEMMA RestartType == ASSUME TypeOK, NEW p \in Process, Restart(p) PROVE TypeOK'
<1> DEFINE mine == {c \in Call : Home(c) = p}
           rest == IF lease[p].holder = "mine" THEN Free ELSE lease[p]
<1>0. /\ stage \in [Call -> Stage] /\ subject \in [Call -> SUBSET Comment]
      /\ count \in [Call -> 0 .. Budget] /\ running \in [Process -> BOOLEAN]
      /\ lease \in [Process -> Lease] /\ decided \in [Process -> SUBSET Comment]
      /\ image \in [Call -> SUBSET Image] /\ memo \in [Process -> SUBSET Memo]
      /\ db \in Image /\ lease[p] \in Lease /\ decided[p] \in SUBSET Comment
  BY Zenon DEF TypeOK, Memo
<1>1. /\ restarts < MaxRestarts /\ restarts' = restarts + 1 /\ kind' = kind
      /\ db' \in {db, Snapshot(rest, decided[p])} \union UNION {image[c] : c \in mine}
      /\ stage' = [c \in Call |-> IF c \in mine THEN "idle" ELSE stage[c]]
      /\ image' = [c \in Call |-> IF c \in mine THEN {} ELSE image[c]]
      /\ running' = [running EXCEPT ![p] = FALSE]
      /\ lease' = [lease EXCEPT ![p] =
                     IF db'.held THEN [holder |-> "other", left |-> db'.left] ELSE Free]
      /\ decided' = [decided EXCEPT ![p] = db'.decided]
      /\ memo' = [memo EXCEPT ![p] = {}]
      /\ subject' = [c \in Call |-> IF c \in mine THEN {} ELSE subject[c]]
      /\ count' = [c \in Call |-> IF c \in mine THEN 0 ELSE count[c]]
  BY Zenon DEF Restart
<1>2. db' \in Image
  <2>1. Snapshot(rest, decided[p]) \in Image
    BY <1>0, RestType, SnapshotType
  <2>2. \A c \in mine : image[c] \in SUBSET Image
    BY <1>0
  <2> QED BY <1>0, <1>1, <2>1, <2>2
<1>3. lease' \in [Process -> Lease]
  <2>1. db'.left \in 0 .. TTL
    BY <1>2 DEF Image
  <2>2. [holder |-> "other", left |-> db'.left] \in Lease
    BY <2>1 DEF Lease, Holder
  <2>3. (IF db'.held THEN [holder |-> "other", left |-> db'.left] ELSE Free) \in Lease
    BY <2>2, FreeType, Zenon
  <2> QED BY <1>0, <1>1, <2>3, Zenon
<1>4. decided' \in [Process -> SUBSET Comment]
  <2>1. db'.decided \in SUBSET Comment
    BY <1>2, Zenon DEF Image
  <2> QED BY <1>0, <1>1, <2>1, Zenon
<1>5. /\ running' \in [Process -> BOOLEAN] /\ memo' \in [Process -> SUBSET Memo]
      /\ image' \in [Call -> SUBSET Image] /\ subject' \in [Call -> SUBSET Comment]
  BY <1>0, <1>1, Zenon
<1>6. /\ stage' \in [Call -> Stage] /\ count' \in [Call -> 0 .. Budget]
      /\ kind' \in {"youtube", "other"} /\ restarts' \in 0 .. MaxRestarts
  BY <1>0, <1>1, CycleAssumption DEF TypeOK, Stage
<1> QED BY <1>2, <1>3, <1>4, <1>5, <1>6, Zenon DEF TypeOK, Memo

LEMMA TickType == TypeOK /\ Tick => TypeOK'
<1> SUFFICES ASSUME TypeOK, Tick PROVE TypeOK'
  OBVIOUS
<1>1. /\ lease' = [p \in Process |-> Older(lease[p])] /\ db' = Older(db)
      /\ image' = [c \in Call |-> {Older(i) : i \in image[c]}]
      /\ UNCHANGED <<kind, stage, subject, count, running, decided, memo, restarts>>
  BY Zenon DEF Tick, cycle
<1>2. lease' \in [Process -> Lease]
  <2>1. \A p \in Process : Older(lease[p]) \in Lease
    BY OlderLease DEF TypeOK
  <2> QED BY <1>1, <2>1, Zenon
<1>3. db' \in Image
  BY <1>1, OlderImage DEF TypeOK
<1>4. image' \in [Call -> SUBSET Image]
  <2>1. \A c \in Call : {Older(i) : i \in image[c]} \in SUBSET Image
    BY OlderImage DEF TypeOK
  <2> QED BY <1>1, <2>1, Zenon
<1> QED BY <1>1, <1>2, <1>3, <1>4, Zenon DEF TypeOK

LEMMA BudgetStep == TypeOK /\ UnderBudget /\ [Next]_vars => UnderBudget'
<1> SUFFICES ASSUME TypeOK, UnderBudget, [Next]_vars, NEW d \in Call,
                    stage'[d] = "deciding"
             PROVE  count'[d] < Budget
  BY DEF UnderBudget
<1>0. stage \in [Call -> Stage] /\ count \in [Call -> 0 .. Budget]
  BY DEF TypeOK
<1>1. CASE UNCHANGED vars
  BY <1>1 DEF vars, UnderBudget
<1>2. CASE Tick
  BY <1>2 DEF Tick, cycle, UnderBudget
<1>3. ASSUME NEW p \in Process, Restart(p) PROVE count'[d] < Budget
  BY <1>0, <1>3 DEF Restart, UnderBudget
<1>4. ASSUME NEW c \in Call, Start(c) \/ Advance(c) \/ RouteSave(c)
      PROVE  count'[d] < Budget
  <2>1. CASE c = d
    BY <1>0, <1>4, <2>1 DEF Start, Advance, RouteSave, Claimed, Consider, Decide, Saved,
       Conclude, Finally, Released, RouteSaved, cycle
  <2>2. CASE c # d
    <3>1. stage'[d] = stage[d] /\ count'[d] = count[d]
      BY <1>0, <1>4, <2>2 DEF Start, Advance, RouteSave, Claimed, Consider, Decide, Saved,
         Conclude, Finally, Released, RouteSaved, cycle
    <3> QED BY <3>1 DEF UnderBudget
  <2> QED BY <2>1, <2>2
<1> QED BY <1>1, <1>2, <1>3, <1>4 DEF Next

\* Whatever the storage does, every variable keeps its type and no cycle
\* decides more than its budget.
THEOREM TypeCorrect == Spec => []TypeOK
<1>1. Init => TypeOK /\ UnderBudget
  BY InitType DEF Init, UnderBudget
<1>2. TypeOK /\ UnderBudget /\ [Next]_vars => TypeOK' /\ UnderBudget'
  <2> SUFFICES ASSUME TypeOK, UnderBudget, [Next]_vars PROVE TypeOK'
    BY BudgetStep
  <2>1. CASE UNCHANGED vars
    BY <2>1 DEF vars, TypeOK
  <2>2. CASE Next
    BY <2>2, CallStepType, RestartType, TickType DEF Next
  <2> QED BY <2>1, <2>2
<1> QED BY <1>1, <1>2, PTL DEF Spec

-----------------------------------------------------------------------------
(* One cycle at a time.  A cycle of the YouTube watcher has its flag up;   *)
(* any other cycle that is shorter than its lease has a lease with time    *)
(* left.  Either excludes a second one.                                    *)

Protected(c) ==
    /\ kind = "youtube" => running[Home(c)]
    /\ kind # "youtube" => lease[Home(c)].holder = "mine" /\ lease[Home(c)].left > 0

SingleCycle ==
    kind = "youtube" \/ ~Slow =>
        /\ \A c \in Call : InCycle(c) => Protected(c)
        /\ \A c, d \in Call : Home(c) = Home(d) /\ InCycle(c) /\ InCycle(d) => c = d

\* A step of a call that neither starts nor ends a cycle.
LEMMA QuietStep ==
    ASSUME TypeOK, NEW c \in Call,
           Claimed(c) \/ Consider(c) \/ Decide(c) \/ Saved(c) \/ Conclude(c)
             \/ Released(c) \/ RouteSave(c) \/ RouteSaved(c)
    PROVE  /\ UNCHANGED <<kind, running, lease>>
           /\ \A d \in Call : InCycle(d)' = InCycle(d)
<1>1. UNCHANGED <<kind, running, lease>>
  BY Zenon DEF Claimed, Consider, Decide, Saved, Conclude, Released, RouteSave, RouteSaved
<1>2. stage \in [Call -> Stage]
  BY DEF TypeOK
<1>3. \E x \in Stage : /\ stage' = [stage EXCEPT ![c] = x]
                       /\ (x \in {"idle", "releasing", "route"}) =
                            (stage[c] \in {"idle", "releasing", "route"})
  BY <1>2 DEF Claimed, Consider, Decide, Saved, Conclude, Released, RouteSave, RouteSaved, Stage
<1>4. \A d \in Call : InCycle(d)' = InCycle(d)
  BY <1>2, <1>3 DEF InCycle, Stage
<1> QED BY <1>1, <1>4

LEMMA StartStep ==
    ASSUME TypeOK, SingleCycle, NEW c \in Call, Start(c)
    PROVE  SingleCycle'
<1> SUFFICES ASSUME kind = "youtube" \/ ~Slow
             PROVE  /\ \A d \in Call : InCycle(d)' => Protected(d)'
                    /\ \A d, e \in Call : Home(d) = Home(e) /\ InCycle(d)' /\ InCycle(e)' => d = e
  BY DEF SingleCycle, Start
<1>0. /\ Home(c) \in Process /\ stage \in [Call -> Stage]
      /\ running \in [Process -> BOOLEAN] /\ lease \in [Process -> Lease]
      /\ lease[Home(c)] \in Lease
  BY CallType DEF TypeOK
<1>1. /\ stage[c] = "idle" /\ Acquirable(Home(c)) /\ kind' = kind
      /\ lease' = [lease EXCEPT ![Home(c)] = [holder |-> "mine", left |-> TTL]]
      /\ kind = "youtube" => /\ ~running[Home(c)]
                             /\ running' = [running EXCEPT ![Home(c)] = TRUE]
                             /\ stage' = [stage EXCEPT ![c] = "claiming"]
      /\ kind # "youtube" => running' = running /\ stage' = [stage EXCEPT ![c] = "working"]
  BY Zenon DEF Start
<1>2. \A d \in Call : Home(d) = Home(c) => ~InCycle(d)
  <2>1. SUFFICES ASSUME NEW d \in Call, Home(d) = Home(c), InCycle(d) PROVE FALSE
    OBVIOUS
  <2>2. Protected(d)
    BY <2>1 DEF SingleCycle
  <2>3. CASE kind = "youtube"
    BY <1>1, <2>1, <2>2, <2>3, Zenon DEF Protected
  <2>4. CASE kind # "youtube"
    BY <1>0, <1>1, <2>1, <2>2, <2>4 DEF Protected, Acquirable, Stale, Lease
  <2> QED BY <2>3, <2>4
<1>3. \A d \in Call : d # c => InCycle(d)' = InCycle(d)
  BY <1>0, <1>1 DEF InCycle
<1>4. Protected(c)'
  <2>1. CASE kind = "youtube"
    BY <1>0, <1>1, <2>1, Zenon DEF Protected
  <2>2. CASE kind # "youtube"
    BY <1>0, <1>1, <2>2, CycleAssumption DEF Protected
  <2> QED BY <2>1, <2>2
<1>5. ASSUME NEW d \in Call, Home(d) # Home(c), InCycle(d) PROVE Protected(d)'
  <2>1. Home(d) \in Process /\ Protected(d)
    BY <1>5, CallType DEF SingleCycle
  <2>2. running'[Home(d)] = running[Home(d)] /\ lease'[Home(d)] = lease[Home(d)]
    BY <1>0, <1>1, <1>5, <2>1, Zenon
  <2> QED BY <1>1, <2>1, <2>2, Zenon DEF Protected
<1> QED BY <1>2, <1>3, <1>4, <1>5, Zenon DEF SingleCycle

LEMMA FinallyStep ==
    ASSUME TypeOK, SingleCycle, NEW c \in Call, Finally(c)
    PROVE  SingleCycle'
<1> SUFFICES ASSUME kind = "youtube" \/ ~Slow
             PROVE  /\ \A d \in Call : InCycle(d)' => Protected(d)'
                    /\ \A d, e \in Call : Home(d) = Home(e) /\ InCycle(d)' /\ InCycle(e)' => d = e
  BY DEF SingleCycle, Finally
<1>0. /\ Home(c) \in Process /\ stage \in [Call -> Stage]
      /\ running \in [Process -> BOOLEAN] /\ lease \in [Process -> Lease]
  BY CallType DEF TypeOK
<1>1. /\ stage[c] = "reporting" /\ kind' = kind
      /\ \E l : lease' = [lease EXCEPT ![Home(c)] = l]
      /\ \E b : running' = [running EXCEPT ![Home(c)] = b]
      /\ stage' = [stage EXCEPT ![c] = "releasing"] \/ stage' = [stage EXCEPT ![c] = "idle"]
  <2>1. running = [running EXCEPT ![Home(c)] = running[Home(c)]]
    BY <1>0
  <2> QED BY <2>1, Zenon DEF Finally
<1>2. InCycle(c) /\ ~InCycle(c)' /\ \A d \in Call : d # c => InCycle(d)' = InCycle(d)
  BY <1>0, <1>1 DEF InCycle
<1>3. \A d \in Call : InCycle(d)' => InCycle(d) /\ Home(d) # Home(c)
  BY <1>2, Zenon DEF SingleCycle
<1>4. ASSUME NEW d \in Call, InCycle(d), Home(d) # Home(c) PROVE Protected(d)'
  <2>1. Home(d) \in Process /\ Protected(d)
    BY <1>4, CallType DEF SingleCycle
  <2>2. running'[Home(d)] = running[Home(d)] /\ lease'[Home(d)] = lease[Home(d)]
    BY <1>0, <1>1, <1>4, <2>1, Zenon
  <2> QED BY <1>1, <2>1, <2>2, Zenon DEF Protected
<1> QED BY <1>3, <1>4, Zenon DEF SingleCycle

LEMMA RestartStep ==
    ASSUME TypeOK, SingleCycle, NEW p \in Process, Restart(p)
    PROVE  SingleCycle'
<1> SUFFICES ASSUME kind = "youtube" \/ ~Slow
             PROVE  /\ \A d \in Call : InCycle(d)' => Protected(d)'
                    /\ \A d, e \in Call : Home(d) = Home(e) /\ InCycle(d)' /\ InCycle(e)' => d = e
  BY DEF SingleCycle, Restart
<1>0. /\ stage \in [Call -> Stage]
      /\ running \in [Process -> BOOLEAN] /\ lease \in [Process -> Lease]
  BY DEF TypeOK
<1>1. /\ kind' = kind /\ running' = [running EXCEPT ![p] = FALSE]
      /\ \E l : lease' = [lease EXCEPT ![p] = l]
      /\ stage' = [d \in Call |-> IF d \in {e \in Call : Home(e) = p} THEN "idle" ELSE stage[d]]
  BY Zenon DEF Restart
<1>2. \A d \in Call : InCycle(d)' => InCycle(d) /\ Home(d) # p
  BY <1>1 DEF InCycle
<1>3. ASSUME NEW d \in Call, InCycle(d), Home(d) # p PROVE Protected(d)'
  <2>1. Home(d) \in Process /\ Protected(d)
    BY <1>3, CallType DEF SingleCycle
  <2>2. running'[Home(d)] = running[Home(d)] /\ lease'[Home(d)] = lease[Home(d)]
    BY <1>0, <1>1, <1>3, <2>1, Zenon
  <2> QED BY <1>1, <2>1, <2>2, Zenon DEF Protected
<1> QED BY <1>2, <1>3, Zenon DEF SingleCycle

LEMMA TickStep ==
    ASSUME TypeOK, SingleCycle, Tick
    PROVE  SingleCycle'
<1> SUFFICES ASSUME kind = "youtube" \/ ~Slow
             PROVE  /\ \A d \in Call : InCycle(d)' => Protected(d)'
                    /\ \A d, e \in Call : Home(d) = Home(e) /\ InCycle(d)' /\ InCycle(e)' => d = e
  BY DEF SingleCycle, Tick
<1>1. /\ UNCHANGED <<kind, stage, running>>
      /\ lease' = [p \in Process |-> Older(lease[p])]
      /\ Slow \/ \A c \in Call : InCycle(c) => lease[Home(c)].left > 1
  BY Zenon DEF Tick
<1>2. \A d \in Call : InCycle(d)' = InCycle(d)
  BY <1>1, Zenon DEF InCycle
<1>3. ASSUME NEW d \in Call, InCycle(d) PROVE Protected(d)'
  <2>1. Home(d) \in Process /\ Protected(d) /\ lease[Home(d)] \in Lease
    BY <1>3, CallType DEF SingleCycle
  <2>2. CASE kind = "youtube"
    BY <1>1, <2>1, <2>2, Zenon DEF Protected
  <2>3. CASE kind # "youtube"
    <3>1. lease[Home(d)].holder = "mine" /\ lease[Home(d)].left > 1
      BY <1>1, <1>3, <2>1, <2>3 DEF Protected
    <3>2. lease'[Home(d)] = Older(lease[Home(d)])
      BY <1>1, <2>1
    <3>3. lease'[Home(d)].holder = "mine" /\ lease'[Home(d)].left > 0
      BY <2>1, <3>1, <3>2 DEF Older, Less, Lease
    <3> QED BY <1>1, <2>3, <3>3, Zenon DEF Protected
  <2> QED BY <2>2, <2>3
<1> QED BY <1>2, <1>3, Zenon DEF SingleCycle

\* Of the YouTube watcher a process runs one cycle at a time, however slow; of
\* the others too, provided that a cycle ends before its lease.
THEOREM OneCycleAtATime == Spec => []OneCyclePerProcess
<1>1. Init => SingleCycle
  BY DEF Init, SingleCycle, InCycle
<1>2. TypeOK /\ SingleCycle /\ [Next]_vars => SingleCycle'
  <2> SUFFICES ASSUME TypeOK, SingleCycle, [Next]_vars PROVE SingleCycle'
    OBVIOUS
  <2>1. CASE UNCHANGED vars
    BY <2>1, Zenon DEF vars, SingleCycle, InCycle, Protected
  <2>2. ASSUME NEW c \in Call, Start(c) \/ Advance(c) \/ RouteSave(c) PROVE SingleCycle'
    <3>1. CASE Start(c)
      BY <3>1, StartStep
    <3>2. CASE Finally(c)
      BY <3>2, FinallyStep
    <3>3. CASE ~Start(c) /\ ~Finally(c)
      <4>1. /\ UNCHANGED <<kind, running, lease>>
            /\ \A d \in Call : InCycle(d)' = InCycle(d)
        BY <2>2, <3>3, QuietStep DEF Advance
      <4> QED BY <4>1, Zenon DEF SingleCycle, Protected
    <3> QED BY <3>1, <3>2, <3>3
  <2>3. CASE Next
    BY <2>2, <2>3, RestartStep, TickStep DEF Next
  <2> QED BY <2>1, <2>3
<1>3. SingleCycle => OneCyclePerProcess
  BY DEF SingleCycle, OneCyclePerProcess
<1> QED BY <1>1, <1>2, <1>3, TypeCorrect, PTL DEF Spec

=============================================================================
