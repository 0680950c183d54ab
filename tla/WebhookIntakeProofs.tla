------------------------- MODULE WebhookIntakeProofs -------------------------
(* Machine-checked theorems about WebhookIntake, for every set of events,   *)
(* every number of deliveries at once, every length of the list and of the  *)
(* queue: with providers that wait for an answer before they repeat, what   *)
(* was acknowledged is stored.                                              *)
EXTENDS WebhookIntake, SequenceTheorems, WellFoundedInduction, TLAPS

-----------------------------------------------------------------------------
(* The bounded list.                                                        *)

\* A signed event is on the list once.
Once(rows) ==
    \A i, j \in 1 .. Len(rows) : rows[i] = rows[j] /\ rows[i] \in Signed => i = j

LEMMA Members ==
    ASSUME NEW S, NEW rows \in Seq(S), NEW e
    PROVE  e \in ToSet(rows) <=> \E i \in 1 .. Len(rows) : rows[i] = e
BY DEF ToSet

\* unshift and slice: the new row is first, nothing else is added.
LEMMA ListedRows ==
    ASSUME NEW e \in Event, mem.events \in Seq(Event)
    PROVE  /\ Listed(e) \in Seq(Event)
           /\ Len(Listed(e)) \in 1 .. Capacity
           /\ Len(Listed(e)) <= Len(mem.events) + 1
           /\ Listed(e)[1] = e
           /\ \A i \in 2 .. Len(Listed(e)) : Listed(e)[i] = mem.events[i - 1]
<1> DEFINE old  == mem.events
           rows == <<e>> \o old
           n    == IF Len(rows) <= Capacity THEN Len(rows) ELSE Capacity
<1>1. Capacity \in Nat \ {0} /\ Len(old) \in Nat
  BY IntakeAssumption
<1>2. <<e>> \in Seq(Event) /\ Len(<<e>>) = 1 /\ <<e>>[1] = e
  OBVIOUS
<1>3. /\ rows \in Seq(Event) /\ Len(rows) = Len(old) + 1
      /\ \A i \in 1 .. Len(old) + 1 : rows[i] = IF i <= 1 THEN <<e>>[i] ELSE old[i - 1]
  BY <1>2, ConcatProperties
<1> HIDE DEF rows
<1>4. n \in 1 .. Capacity /\ n <= Len(rows)
  BY <1>1, <1>3
<1>5. \A i \in 1 .. n : rows[i] \in Event
  BY <1>1, <1>3, <1>4
<1>8. rows[1] = e /\ \A i \in 2 .. n : rows[i] = old[i - 1]
  <2>1. 1 \in 1 .. Len(old) + 1 /\ \A i \in 2 .. n : i \in 1 .. Len(old) + 1 /\ ~(i <= 1)
    BY <1>1, <1>3, <1>4
  <2> QED BY <1>2, <1>3, <2>1
<1> HIDE DEF n
<1>6. /\ SubSeq(rows, 1, n) \in Seq(Event) /\ Len(SubSeq(rows, 1, n)) = n
      /\ \A i \in 1 .. n : SubSeq(rows, 1, n)[i] = rows[i]
  BY <1>1, <1>4, <1>5, SubSeqProperties
<1>7. Listed(e) = SubSeq(rows, 1, n)
  BY DEF Listed, rows, n
<1> QED BY <1>1, <1>3, <1>4, <1>6, <1>7, <1>8

LEMMA ListedHolds ==
    ASSUME NEW e \in Event, mem.events \in Seq(Event)
    PROVE  /\ e \in ToSet(Listed(e))
           /\ ToSet(Listed(e)) \subseteq {e} \union Held(mem)
           /\ Once(mem.events) /\ (e \in Signed => e \notin Held(mem)) => Once(Listed(e))
<1> DEFINE new == Listed(e)
           old == mem.events
<1>1. /\ new \in Seq(Event) /\ Len(new) \in Nat /\ 1 \in 1 .. Len(new) /\ new[1] = e
      /\ \A i \in 2 .. Len(new) : i - 1 \in 1 .. Len(old) /\ new[i] = old[i - 1]
  BY ListedRows, IntakeAssumption
<1>2. \A x : x \in ToSet(new) <=> \E i \in 1 .. Len(new) : new[i] = x
  BY <1>1, Members
<1>3. \A x : x \in Held(mem) <=> \E i \in 1 .. Len(old) : old[i] = x
  BY Members DEF Held
<1> HIDE DEF new, old
<1>4. e \in ToSet(new)
  BY <1>1, <1>2
<1>5. \A x \in ToSet(new) : x = e \/ x \in Held(mem)
  <2> SUFFICES ASSUME NEW x \in ToSet(new), x # e PROVE x \in Held(mem)
    OBVIOUS
  <2>1. PICK i \in 1 .. Len(new) : new[i] = x
    BY <1>2
  <2>2. i \in 2 .. Len(new)
    BY <1>1, <2>1
  <2> QED BY <1>1, <1>3, <2>1, <2>2
<1>6. ASSUME Once(old), e \in Signed => e \notin Held(mem) PROVE Once(new)
  <2> SUFFICES ASSUME NEW i \in 1 .. Len(new), NEW j \in 1 .. Len(new),
                      new[i] = new[j], new[i] \in Signed
               PROVE  i = j
    BY DEF Once
  <2>1. CASE i = 1 /\ j = 1
    BY <2>1
  <2>2. CASE i # 1 /\ j # 1
    <3>1. i \in 2 .. Len(new) /\ j \in 2 .. Len(new)
      BY <1>1, <2>2
    <3>2. i - 1 = j - 1
      BY <1>1, <1>6, <3>1 DEF Once
    <3> QED BY <3>1, <3>2
  <2>3. ASSUME NEW k \in 2 .. Len(new), new[k] = e, e \in Signed PROVE FALSE
    BY <1>1, <1>3, <1>6, <2>3
  <2> QED BY <1>1, <2>1, <2>2, <2>3
<1> QED BY <1>4, <1>5, <1>6 DEF new, old

LEMMA LeastIndex ==
    ASSUME NEW I \in SUBSET Nat, I # {}
    PROVE  Min(I) \in I
<1>1. \E x \in I : \A y \in I : ~(<<y, x>> \in OpToRel(<, Nat))
  BY NatLessThanWellFounded, WFMin
<1>2. PICK x \in I : \A y \in I : ~(<<y, x>> \in OpToRel(<, Nat))
  BY <1>1
<1>3. ASSUME NEW y \in I PROVE x <= y
  <2>1. x \in Nat /\ y \in Nat
    OBVIOUS
  <2>2. y < x => <<y, x>> \in OpToRel(<, Nat)
    BY <2>1 DEF OpToRel
  <2>3. ~(y < x)
    BY <1>2, <2>2, Zenon
  <2> QED BY <2>1, <2>3
<1>4. \E z \in I : \A y \in I : z <= y
  BY <1>3
<1> QED BY <1>4 DEF Min

\* Taking off the row i of a list.
LEMMA RemovedAt ==
    ASSUME NEW rows \in Seq(Event), NEW i \in 1 .. Len(rows)
    PROVE  /\ RemoveAt(rows, i) \in Seq(Event)
           /\ Len(RemoveAt(rows, i)) = Len(rows) - 1
           /\ \A j \in 1 .. Len(rows) - 1 :
                 RemoveAt(rows, i)[j] = IF j < i THEN rows[j] ELSE rows[j + 1]
<1> DEFINE front == SubSeq(rows, 1, i - 1)
           back  == SubSeq(rows, i + 1, Len(rows))
<1>0. Len(rows) \in Nat /\ i \in Nat
  OBVIOUS
<1>1. /\ front \in Seq(Event) /\ Len(front) = i - 1
      /\ \A j \in 1 .. i - 1 : front[j] = rows[j]
  <2>1. \A j \in 1 .. i - 1 : rows[j] \in Event
    BY <1>0
  <2>2. /\ front \in Seq(Event) /\ Len(front) = IF 1 <= i - 1 THEN (i - 1) - 1 + 1 ELSE 0
        /\ \A j \in 1 .. (i - 1) - 1 + 1 : front[j] = rows[1 + j - 1]
    BY <1>0, <2>1, SubSeqProperties
  <2> HIDE DEF front
  <2> QED BY <1>0, <2>2
<1>2. /\ back \in Seq(Event) /\ Len(back) = Len(rows) - i
      /\ \A j \in 1 .. Len(rows) - i : back[j] = rows[i + j]
  <2>1. \A j \in i + 1 .. Len(rows) : rows[j] \in Event
    BY <1>0
  <2>2. /\ back \in Seq(Event)
        /\ Len(back) = IF i + 1 <= Len(rows) THEN Len(rows) - (i + 1) + 1 ELSE 0
        /\ \A j \in 1 .. Len(rows) - (i + 1) + 1 : back[j] = rows[(i + 1) + j - 1]
    BY <1>0, <2>1, SubSeqProperties
  <2> HIDE DEF back
  <2> QED BY <1>0, <2>2
<1> HIDE DEF front, back
<1>3. /\ front \o back \in Seq(Event)
      /\ Len(front \o back) = Len(front) + Len(back)
      /\ \A j \in 1 .. Len(front) + Len(back) :
            (front \o back)[j] = IF j <= Len(front) THEN front[j] ELSE back[j - Len(front)]
  BY <1>1, <1>2, ConcatProperties
<1>4. RemoveAt(rows, i) = front \o back
  BY DEF RemoveAt, front, back
<1>5. ASSUME NEW j \in 1 .. Len(rows) - 1
      PROVE  RemoveAt(rows, i)[j] = IF j < i THEN rows[j] ELSE rows[j + 1]
  <2>1. (front \o back)[j] = IF j <= i - 1 THEN front[j] ELSE back[j - (i - 1)]
    BY <1>0, <1>1, <1>2, <1>3
  <2>2. CASE j < i
    BY <1>0, <1>1, <1>4, <2>1, <2>2
  <2>3. CASE ~(j < i)
    <3>1. j - (i - 1) \in 1 .. Len(rows) - i /\ i + (j - (i - 1)) = j + 1
      BY <1>0, <2>3
    <3> QED BY <1>0, <1>2, <1>4, <2>1, <2>3, <3>1
  <2> QED BY <2>2, <2>3
<1>6. /\ RemoveAt(rows, i) \in Seq(Event)
      /\ Len(RemoveAt(rows, i)) = Len(rows) - 1
  <2>1. Len(front) + Len(back) = Len(rows) - 1
    BY <1>0, <1>1, <1>2
  <2> QED BY <1>3, <1>4, <2>1
<1> QED BY <1>5, <1>6

\* filter: of the signed events only the one that is taken off goes.
LEMMA RemoveHolds ==
    ASSUME NEW e \in Event, NEW rows \in Seq(Event)
    PROVE  /\ RemoveFirst(rows, e) \in Seq(Event)
           /\ Len(RemoveFirst(rows, e)) <= Len(rows)
           /\ \A x \in Event : x # e =>
                 (x \in ToSet(RemoveFirst(rows, e)) <=> x \in ToSet(rows))
           /\ Once(rows) => Once(RemoveFirst(rows, e))
           /\ e \in Signed /\ Once(rows) => e \notin ToSet(RemoveFirst(rows, e))
<1> DEFINE I   == {i \in 1 .. Len(rows) : rows[i] = e}
           i   == Min(I)
           new == RemoveAt(rows, i)
<1>0. I \in SUBSET Nat
  OBVIOUS
<1>1. CASE I = {}
  <2>1. RemoveFirst(rows, e) = rows
    BY <1>1 DEF RemoveFirst
  <2>2. e \notin ToSet(rows)
    BY <1>1, Members
  <2> QED BY <2>1, <2>2
<1>2. CASE I # {}
  <2>0. Min(I) \in I
    BY <1>0, <1>2, LeastIndex
  <2>1. i \in 1 .. Len(rows) /\ rows[i] = e
    BY <2>0
  <2>2. RemoveFirst(rows, e) = new
    BY <1>2 DEF RemoveFirst, SelectInSeq
  <2> HIDE DEF I, i
  <2>3. /\ new \in Seq(Event) /\ Len(new) = Len(rows) - 1 /\ Len(rows) \in Nat
        /\ \A j \in 1 .. Len(rows) - 1 : new[j] = IF j < i THEN rows[j] ELSE rows[j + 1]
    BY <2>1, RemovedAt
  <2> HIDE DEF new
  <2>4. \A j \in 1 .. Len(new) : \E k \in 1 .. Len(rows) : k # i /\ new[j] = rows[k]
    <3> SUFFICES ASSUME NEW j \in 1 .. Len(new)
                 PROVE  \E k \in 1 .. Len(rows) : k # i /\ new[j] = rows[k]
      OBVIOUS
    <3>1. CASE j < i
      <4>1. j \in 1 .. Len(rows) /\ j # i /\ new[j] = rows[j]
        BY <2>1, <2>3, <3>1
      <4> QED BY <4>1
    <3>2. CASE ~(j < i)
      <4>1. j + 1 \in 1 .. Len(rows) /\ j + 1 # i /\ new[j] = rows[j + 1]
        BY <2>1, <2>3, <3>2
      <4> QED BY <4>1
    <3> QED BY <3>1, <3>2
  <2>5. \A k \in 1 .. Len(rows) : k # i => \E j \in 1 .. Len(new) : new[j] = rows[k]
    <3> SUFFICES ASSUME NEW k \in 1 .. Len(rows), k # i
                 PROVE  \E j \in 1 .. Len(new) : new[j] = rows[k]
      OBVIOUS
    <3>1. CASE k < i
      <4>1. k \in 1 .. Len(new) /\ new[k] = rows[k]
        BY <2>1, <2>3, <3>1
      <4> QED BY <4>1
    <3>2. CASE ~(k < i)
      <4>1. k - 1 \in 1 .. Len(new) /\ ~(k - 1 < i) /\ (k - 1) + 1 = k
        BY <2>1, <2>3, <3>2
      <4>2. new[k - 1] = rows[k]
        BY <2>3, <4>1
      <4> QED BY <4>1, <4>2
    <3> QED BY <3>1, <3>2
  <2>6. \A x : x \in ToSet(new) <=> \E j \in 1 .. Len(new) : new[j] = x
    BY <2>3, Members
  <2>7. \A x : x \in ToSet(rows) <=> \E j \in 1 .. Len(rows) : rows[j] = x
    BY Members
  <2>8. \A x \in Event : x # e => (x \in ToSet(new) <=> x \in ToSet(rows))
    <3> SUFFICES ASSUME NEW x \in Event, x # e
                 PROVE  x \in ToSet(new) <=> x \in ToSet(rows)
      OBVIOUS
    <3>1. x \in ToSet(new) => x \in ToSet(rows)
      BY <2>4, <2>6, <2>7
    <3>2. ASSUME x \in ToSet(rows) PROVE x \in ToSet(new)
      <4>1. PICK k \in 1 .. Len(rows) : rows[k] = x
        BY <2>7, <3>2
      <4> QED BY <2>1, <2>5, <2>6, <4>1
    <3> QED BY <3>1, <3>2
  <2>9. ASSUME Once(rows) PROVE Once(new)
    <3> SUFFICES ASSUME NEW j \in 1 .. Len(new), NEW k \in 1 .. Len(new),
                        new[j] = new[k], new[j] \in Signed
                 PROVE  j = k
      BY DEF Once
    <3>1. /\ j \in 1 .. Len(rows) /\ j + 1 \in 1 .. Len(rows)
          /\ k \in 1 .. Len(rows) /\ k + 1 \in 1 .. Len(rows)
      BY <2>3
    <3>2. /\ new[j] = IF j < i THEN rows[j] ELSE rows[j + 1]
          /\ new[k] = IF k < i THEN rows[k] ELSE rows[k + 1]
      BY <2>3
    <3>3. (IF j < i THEN j ELSE j + 1) = (IF k < i THEN k ELSE k + 1)
      BY <2>9, <3>1, <3>2 DEF Once
    <3> QED BY <2>1, <3>1, <3>3
  <2>10. ASSUME e \in Signed, Once(rows) PROVE e \notin ToSet(new)
    BY <2>1, <2>4, <2>6, <2>10 DEF Once
  <2>11. Len(new) <= Len(rows)
    BY <2>3
  <2> QED BY <2>2, <2>3, <2>8, <2>9, <2>10, <2>11
<1> QED BY <1>1, <1>2

-----------------------------------------------------------------------------
(* Type correctness.                                                        *)

LEMMA RestType == Rest \in Delivery /\ Empty \in Content /\ Held(Empty) = {}
<1>1. 0 \in 0 .. MaxQueue
  BY IntakeAssumption
<1>2. <<>> \in Seq(Event) /\ ToSet(<<>>) = {}
  BY DEF ToSet
<1> QED BY <1>1, <1>2 DEF Rest, Delivery, Empty, Content, Held

LEMMA HeldEvents ==
    ASSUME NEW c \in Content
    PROVE  Held(c) \in SUBSET Event
BY DEF Held, Content, ToSet

\* A new row: what the memory and the evicted events become.
LEMMA ListedType ==
    ASSUME TypeOK, NEW e \in Event, Evict(e)
    PROVE  /\ [mem EXCEPT !.events = Listed(e)] \in Content
           /\ Len(Listed(e)) <= Capacity
           /\ evicted' \in SUBSET Event
<1>1. mem.events \in Seq(Event) /\ mem.comments \in SUBSET Direct
  BY DEF TypeOK, Content
<1>2. Listed(e) \in Seq(Event) /\ Len(Listed(e)) <= Capacity
  BY <1>1, ListedRows, IntakeAssumption
<1>3. [mem EXCEPT !.events = Listed(e)] = [events |-> Listed(e), comments |-> mem.comments]
  BY DEF TypeOK, Content
<1>4. Held(mem) \in SUBSET Event
  BY HeldEvents DEF TypeOK
<1> QED BY <1>1, <1>2, <1>3, <1>4 DEF Content, Evict, TypeOK

LEMMA WaitType ==
    ASSUME TypeOK, NEW s \in Slot, NEW e \in Event, NEW n \in 0 .. MaxQueue, Wait(s, e, n)
    PROVE  call' \in [Slot -> Delivery]
<1>1. [stage |-> "waiting", event |-> {e}, left |-> n] \in Delivery
  BY DEF Delivery
<1> QED BY <1>1 DEF Wait, TypeOK

\* A request for a lazy write: the queue is as it was, or has one live job more.
LEMMA PersistAdds ==
    ASSUME TypeOK, PersistState
    PROVE  /\ queue' \in Seq(Job) /\ Len(queue') \in 1 .. MaxQueue
           /\ \/ queue' = queue
              \/ queue' = Append(queue, [live |-> TRUE, data |-> Empty])
<1>1. queue \in Seq(Job) /\ Len(queue) <= MaxQueue /\ MaxQueue \in Nat /\ Len(queue) \in Nat
  BY IntakeAssumption DEF TypeOK
<1>2. CASE Scheduled /\ UNCHANGED queue
  <2>1. Len(queue) # 0
    BY <1>1, <1>2 DEF Scheduled
  <2> QED BY <1>1, <1>2, <2>1
<1>3. CASE Len(queue) < MaxQueue /\ queue' = Append(queue, [live |-> TRUE, data |-> Empty])
  <2>1. [live |-> TRUE, data |-> Empty] \in Job
    BY RestType DEF Job
  <2>2. queue' \in Seq(Job) /\ Len(queue') = Len(queue) + 1
    BY <1>1, <1>3, <2>1
  <2> QED BY <1>1, <1>3, <2>2
<1> QED BY <1>2, <1>3, Zenon DEF PersistState

LEMMA SettleType ==
    ASSUME TypeOK, NEW failed \in BOOLEAN, Settle(failed), queue # <<>>
    PROVE  queue' \in Seq(Job) /\ Len(queue') <= MaxQueue /\ call' \in [Slot -> Delivery]
<1>1. queue \in Seq(Job) /\ Len(queue) <= MaxQueue /\ MaxQueue \in Nat /\ Len(queue) \in Nat
  BY IntakeAssumption DEF TypeOK
<1>2. queue' = Tail(queue)
  BY DEF Settle
<1>3. queue' \in Seq(Job) /\ Len(queue') = Len(queue) - 1
  BY <1>1, <1>2
<1>4. ASSUME NEW s \in Slot PROVE call'[s] \in Delivery
  <2> DEFINE c == call[s]
  <2>1. c \in Delivery
    BY DEF TypeOK
  <2>2. call'[s] = IF c.stage # "waiting" THEN c
                   ELSE IF c.left > 1 THEN [c EXCEPT !.left = @ - 1]
                   ELSE [stage |-> IF failed /\ c.event \subseteq Signed
                                   THEN "refused" ELSE "settled",
                         event |-> c.event, left |-> 0]
    BY DEF Settle
  <2> HIDE DEF c
  <2>3. c.left > 1 => [c EXCEPT !.left = @ - 1] \in Delivery
    BY <1>1, <2>1 DEF Delivery
  <2>4. \A st \in {"refused", "settled"} :
           [stage |-> st, event |-> c.event, left |-> 0] \in Delivery
    BY <1>1, <2>1 DEF Delivery
  <2> QED BY <2>1, <2>2, <2>3, <2>4
<1>5. DOMAIN call' = Slot /\ call' = [s \in Slot |-> call'[s]]
  BY DEF Settle
<1> QED BY <1>1, <1>3, <1>4, <1>5

LEMMA InitType == Init => TypeOK
<1>1. <<>> \in Seq(Job) /\ Len(<<>>) = 0 /\ Len(Empty.events) = 0
  BY DEF Empty
<1>2. 0 <= Capacity /\ 0 <= MaxQueue /\ 0 \in 0 .. MaxRestarts
  BY IntakeAssumption
<1> QED BY <1>1, <1>2, RestType DEF Init, TypeOK

\* The lists of all snapshots are cut, and name a signed event once.
Rows(c) == Len(c.events) <= Capacity /\ Once(c.events)

Cut ==
    /\ Rows(mem) /\ Rows(saved)
    /\ \A c \in started : Rows(c)
    /\ \A i \in 1 .. Len(queue) : Rows(queue[i].data)

\* The write that has started is that of the first job.
Running ==
    \A c \in started : /\ queue # <<>> /\ started = {c}
                       /\ queue[1].live \/ c = queue[1].data

LEMMA StepType == TypeOK /\ Cut /\ Running /\ [Next]_vars => TypeOK'
<1> SUFFICES ASSUME TypeOK, Cut, Running, [Next]_vars PROVE TypeOK'
  OBVIOUS
<1>0. /\ queue \in Seq(Job) /\ Len(queue) <= MaxQueue /\ MaxQueue \in Nat
      /\ Len(queue) \in Nat /\ Len(queue) + 1 \in Nat
  BY IntakeAssumption DEF TypeOK
<1>1. ASSUME NEW s \in Slot, NEW e \in Event, DeliverSigned(s, e) PROVE TypeOK'
  <2>1. /\ mem' = [mem EXCEPT !.events = Listed(e)] /\ Evict(e)
        /\ queue' = Append(queue, [live |-> FALSE, data |-> mem'])
        /\ Wait(s, e, Len(queue) + 1) /\ Len(queue) < MaxQueue
        /\ UNCHANGED <<saved, started, acked, restarts>>
    BY <1>1 DEF DeliverSigned
  <2>2. mem' \in Content /\ Len(mem'.events) <= Capacity /\ evicted' \in SUBSET Event
    BY <2>1, ListedType DEF TypeOK, Content
  <2>3. [live |-> FALSE, data |-> mem'] \in Job
    BY <2>2 DEF Job
  <2>4. queue' \in Seq(Job) /\ Len(queue') = Len(queue) + 1
    BY <1>0, <2>1, <2>3
  <2>5. Len(queue) + 1 \in 0 .. MaxQueue
    BY <1>0, <2>1
  <2>6. call' \in [Slot -> Delivery]
    BY <2>1, <2>5, WaitType
  <2> QED BY <2>1, <2>2, <2>4, <2>5, <2>6 DEF TypeOK
<1>2. ASSUME NEW s \in Slot, NEW e \in Event, DeliverComment(s, e) PROVE TypeOK'
  <2>1. queue' \in Seq(Job) /\ Len(queue') \in 1 .. MaxQueue
    BY <1>2, PersistAdds DEF DeliverComment
  <2>2. call' \in [Slot -> Delivery]
    <3>1. Len(queue') \in 0 .. MaxQueue /\ Wait(s, e, Len(queue'))
      BY <1>0, <1>2, <2>1 DEF DeliverComment
    <3> QED BY <3>1, WaitType
  <2>3. mem' \in Content /\ Len(mem'.events) <= Capacity /\ evicted' \in SUBSET Event
    <3>1. CASE mem' = [events |-> Listed(e), comments |-> mem.comments \union {e}] /\ Evict(e)
      <4>1. Listed(e) \in Seq(Event) /\ Len(Listed(e)) <= Capacity /\ evicted' \in SUBSET Event
        BY <3>1, ListedType DEF TypeOK, Content
      <4>2. mem.comments \union {e} \in SUBSET Direct
        BY <1>2 DEF TypeOK, Content, DeliverComment
      <4> QED BY <3>1, <4>1, <4>2 DEF Content
    <3>2. CASE UNCHANGED <<mem, evicted>>
      BY <3>2 DEF TypeOK
    <3> QED BY <1>2, <3>1, <3>2, Zenon DEF DeliverComment
  <2>4. UNCHANGED <<saved, started, acked, restarts>>
    BY <1>2 DEF DeliverComment
  <2>5. Len(queue') <= MaxQueue
    BY <2>1
  <2> QED BY <2>1, <2>2, <2>3, <2>4, <2>5 DEF TypeOK
<1>3. ASSUME NEW s \in Slot, NEW e \in Event, Duplicate(s, e) PROVE TypeOK'
  BY <1>3 DEF Duplicate, TypeOK
<1>4. ASSUME NEW s \in Slot, Answer(s) PROVE TypeOK'
  <2>1. call[s].event \in SUBSET Event
    BY DEF TypeOK, Delivery
  <2>2. call' \in [Slot -> Delivery]
    BY <1>4, RestType DEF Answer, TypeOK
  <2> QED BY <1>4, <2>1, <2>2 DEF Answer, TypeOK
<1>5. ASSUME NEW s \in Slot, Rollback(s) PROVE TypeOK'
  <2>1. PICK e \in call[s].event : mem' = [mem EXCEPT !.events = RemoveFirst(@, e)]
    BY <1>5 DEF Rollback
  <2>2. e \in Event
    BY <2>1 DEF TypeOK, Delivery
  <2>3. /\ mem.events \in Seq(Event) /\ Len(mem.events) <= Capacity
        /\ Capacity \in Nat /\ Len(mem.events) \in Nat
    BY IntakeAssumption DEF TypeOK, Content
  <2>4. /\ RemoveFirst(mem.events, e) \in Seq(Event)
        /\ Len(RemoveFirst(mem.events, e)) <= Len(mem.events)
    BY <2>2, <2>3, RemoveHolds
  <2>5. mem' = [events |-> RemoveFirst(mem.events, e), comments |-> mem.comments]
    BY <2>1 DEF TypeOK, Content
  <2>6. mem' \in Content /\ Len(mem'.events) <= Capacity
    <3>1. Len(RemoveFirst(mem.events, e)) \in Nat
      BY <2>4
    <3> QED BY <2>3, <2>4, <2>5, <3>1 DEF TypeOK, Content
  <2>7. call' \in [Slot -> Delivery]
    BY <1>5, RestType DEF Rollback, TypeOK
  <2> QED BY <1>5, <2>6, <2>7 DEF Rollback, TypeOK
<1>6. CASE Background
  <2>1. queue' \in Seq(Job) /\ Len(queue') <= MaxQueue
    BY <1>6, PersistAdds DEF Background
  <2> QED BY <1>6, <2>1 DEF Background, TypeOK
<1>7. CASE StartJob
  <2>1. Head(queue) \in Job
    BY <1>0, <1>7 DEF StartJob
  <2>2. started' \in SUBSET Content
    BY <1>7, <2>1 DEF StartJob, Job, TypeOK
  <2> QED BY <1>7, <2>2 DEF StartJob, TypeOK
<1>8. CASE CommitJob \/ FailJob
  <2>1. queue # <<>>
    BY <1>8 DEF Running, CommitJob, FailJob
  <2>2. /\ saved' \in started \union {saved} /\ started' = {}
        /\ UNCHANGED <<mem, acked, evicted, restarts>>
    BY <1>8 DEF CommitJob, FailJob, Settle
  <2>3. queue' \in Seq(Job) /\ Len(queue') <= MaxQueue /\ call' \in [Slot -> Delivery]
    BY <1>8, <2>1, SettleType DEF CommitJob, FailJob
  <2> QED BY <2>2, <2>3 DEF TypeOK
<1>9. CASE Restart
  <2>1. saved' \in Content /\ Len(saved'.events) <= Capacity
    BY <1>9 DEF Restart, TypeOK, Cut, Rows
  <2>2. call' \in [Slot -> Delivery]
    BY <1>9, RestType DEF Restart
  <2>3. restarts' \in 0 .. MaxRestarts
    BY <1>9, IntakeAssumption DEF Restart, TypeOK
  <2>4. /\ mem' = saved' /\ queue' = <<>> /\ started' = {} /\ UNCHANGED <<acked, evicted>>
        /\ Len(<<>>) <= MaxQueue /\ <<>> \in Seq(Job)
    BY <1>0, <1>9 DEF Restart
  <2> QED BY <2>1, <2>2, <2>3, <2>4 DEF TypeOK
<1>10. CASE UNCHANGED vars
  BY <1>10 DEF vars, TypeOK
<1> QED BY <1>1, <1>2, <1>3, <1>4, <1>5, <1>6, <1>7, <1>8, <1>9, <1>10 DEF Next, Deliver

-----------------------------------------------------------------------------
(* What an event is promised.  A delivery that waits has its event in the   *)
(* memory, in the job it waits for and in every later one that carries its  *)
(* snapshot; once that job is over, the event is in the database and in     *)
(* whatever will be written there.  Only newer rows push it off the list.   *)

Calls ==
    \A s \in Slot :
       /\ call[s].stage = "idle" => call[s].event = {}
       /\ call[s].stage # "idle" => \E e \in Event : call[s].event = {e}
       /\ call[s].stage = "waiting" => call[s].left \in 1 .. Len(queue)

\* Providers wait for an answer: an event is in one delivery at a time.
Single ==
    \A s, t \in Slot, e \in Event : e \in call[s].event /\ e \in call[t].event => s = t

Shape == TypeOK /\ Cut /\ Running /\ Calls /\ Single

Later(q, e, n) ==
    \A i \in 1 .. Len(q) : i > n => q[i].live \/ e \in Held(q[i].data)

Kept(e) ==
    /\ e \in Held(saved)
    /\ \A c \in started : e \in Held(c)
    /\ Later(queue, e, 0)

WaitsFor(e) ==
    \A s \in Slot : call[s].stage = "waiting" /\ e \in call[s].event =>
       /\ e \in Held(mem) \union evicted
       /\ e \in Held(mem) => /\ ~queue[call[s].left].live
                             /\ e \in Held(queue[call[s].left].data)
                             /\ Later(queue, e, call[s].left)

Written(e) ==
    \A s \in Slot : call[s].stage = "settled" /\ e \in call[s].event =>
       /\ e \in Held(mem) \union evicted
       /\ e \in Held(mem) => Kept(e)

Rested(e) == ~Being(e) /\ e \in Held(mem) => Kept(e)

Promised(e) == e \in acked \ evicted => ~Being(e) /\ e \in Held(mem)

EInv(e) == WaitsFor(e) /\ Written(e) /\ Rested(e) /\ Promised(e)

IInv == Shape /\ \A e \in Signed : EInv(e)

-----------------------------------------------------------------------------
(* The shape of the queue and of the deliveries is kept.                    *)

\* A step that adds at most one job to the end of the queue.
Adds(job) == queue' = queue \/ queue' = Append(queue, job)

LEMMA AddedJob ==
    ASSUME queue \in Seq(Job), NEW job \in Job, Adds(job)
    PROVE  /\ Len(queue) \in Nat /\ Len(queue') \in Nat /\ Len(queue) <= Len(queue')
           /\ \A i \in 1 .. Len(queue) : i \in 1 .. Len(queue') /\ queue'[i] = queue[i]
           /\ \A i \in 1 .. Len(queue') : i \in 1 .. Len(queue) \/ queue'[i] = job
BY DEF Adds

\* One that takes the first job away.
LEMMA TakenJob ==
    ASSUME queue \in Seq(Job), queue # <<>>, queue' = Tail(queue)
    PROVE  /\ Len(queue) \in Nat /\ Len(queue') = Len(queue) - 1 /\ Head(queue) = queue[1]
           /\ 1 \in 1 .. Len(queue) /\ Head(queue) \in Job
           /\ \A i \in 1 .. Len(queue') : i + 1 \in 1 .. Len(queue) /\ queue'[i] = queue[i + 1]
           /\ \A i \in 2 .. Len(queue) : i - 1 \in 1 .. Len(queue') /\ queue'[i - 1] = queue[i]
OBVIOUS

LEMMA EmptyRows == Rows(Empty)
BY IntakeAssumption DEF Rows, Empty, Once

\* An arrival: a row, a job, a delivery that waits.
LEMMA ArrivalShape ==
    ASSUME Shape, ~Impatient, NEW s \in Slot, NEW e \in Event, Arrives(s, e),
           NEW job \in Job, Adds(job), Rows(mem'), Rows(job.data), Len(queue') \in 1 .. MaxQueue,
           Wait(s, e, Len(queue')), UNCHANGED <<saved, started>>
    PROVE  Cut' /\ Running' /\ Calls' /\ Single'
<1>0. queue \in Seq(Job) /\ call \in [Slot -> Delivery]
  BY DEF Shape, TypeOK
<1>1. /\ Len(queue) \in Nat /\ Len(queue') \in Nat /\ Len(queue) <= Len(queue')
      /\ \A i \in 1 .. Len(queue) : i \in 1 .. Len(queue') /\ queue'[i] = queue[i]
      /\ \A i \in 1 .. Len(queue') : i \in 1 .. Len(queue) \/ queue'[i] = job
  BY <1>0, AddedJob
<1>2. Cut'
  BY <1>1 DEF Shape, Cut
<1>3. Running'
  <2> SUFFICES ASSUME NEW c \in started
               PROVE  queue' # <<>> /\ started = {c} /\ (queue'[1].live \/ c = queue'[1].data)
    BY DEF Running
  <2>1. queue # <<>> /\ started = {c} /\ (queue[1].live \/ c = queue[1].data)
    BY DEF Shape, Running
  <2>2. 1 \in 1 .. Len(queue)
    BY <1>0, <2>1
  <2>3. queue'[1] = queue[1] /\ 1 \in 1 .. Len(queue')
    BY <1>1, <2>2
  <2>4. queue' # <<>>
    BY <2>3
  <2> QED BY <2>1, <2>3, <2>4
<1>4. /\ call'[s] = [stage |-> "waiting", event |-> {e}, left |-> Len(queue')]
      /\ \A t \in Slot : t # s => call'[t] = call[t]
  BY <1>0 DEF Wait
<1>5. Calls'
  <2>1. Len(queue') \in 1 .. Len(queue')
    BY <1>1
  <2>2. ASSUME NEW t \in Slot, t # s, call[t].stage = "waiting"
        PROVE  call[t].left \in 1 .. Len(queue')
    BY <1>1, <2>2 DEF Shape, Calls
  <2> QED BY <1>4, <2>1, <2>2 DEF Shape, Calls
<1>6. Single'
  <2>1. \A t \in Slot : e \notin call[t].event
    BY DEF Arrives, Being
  <2> QED BY <1>4, <2>1 DEF Shape, Single
<1> QED BY <1>2, <1>3, <1>5, <1>6

\* A delivery that is over.
LEMMA RestShape ==
    ASSUME Shape, NEW s \in Slot, call' = [call EXCEPT ![s] = Rest], Rows(mem'),
           UNCHANGED <<saved, queue, started>>
    PROVE  Cut' /\ Running' /\ Calls' /\ Single'
<1>1. call'[s] = Rest /\ \A t \in Slot : t # s => call'[t] = call[t]
  BY DEF Shape, TypeOK
<1>2. Rest.stage = "idle" /\ Rest.event = {}
  BY DEF Rest
<1>3. Calls' /\ Single'
  BY <1>1, <1>2 DEF Shape, Calls, Single
<1> QED BY <1>3 DEF Shape, Cut, Running

LEMMA SettleShape ==
    ASSUME Shape, NEW failed \in BOOLEAN, started # {}, Settle(failed),
           saved' \in started \union {saved}, mem' = mem
    PROVE  Cut' /\ Running' /\ Calls' /\ Single'
<1>0. queue \in Seq(Job) /\ call \in [Slot -> Delivery] /\ queue # <<>>
      /\ queue' = Tail(queue) /\ started' = {}
  BY DEF Shape, TypeOK, Running, Settle
<1>1. /\ Len(queue) \in Nat /\ Len(queue') = Len(queue) - 1
      /\ \A i \in 1 .. Len(queue') : i + 1 \in 1 .. Len(queue) /\ queue'[i] = queue[i + 1]
  BY <1>0, TakenJob
<1>2. Cut'
  BY <1>0, <1>1 DEF Shape, Cut
<1>3. Running'
  BY <1>0 DEF Running
<1>4. ASSUME NEW s \in Slot
      PROVE  /\ call'[s].event = call[s].event
             /\ call[s].stage # "waiting" => call'[s] = call[s]
             /\ call[s].stage = "waiting" => \/ /\ call'[s].stage = "waiting"
                                              /\ call'[s].left \in 1 .. Len(queue')
                                           \/ call'[s].stage \in {"refused", "settled"}
  <2>1. call[s] \in Delivery
    BY <1>0
  <2>2. CASE call[s].stage # "waiting"
    BY <2>2 DEF Settle
  <2>3. CASE call[s].stage = "waiting" /\ call[s].left > 1
    <3>1. call'[s] = [call[s] EXCEPT !.left = @ - 1]
      BY <2>3 DEF Settle
    <3>2. call[s].left \in 1 .. Len(queue)
      BY <2>3 DEF Shape, Calls
    <3>3. call'[s] = [stage |-> "waiting", event |-> call[s].event, left |-> call[s].left - 1]
      BY <2>1, <2>3, <3>1 DEF Delivery
    <3> QED BY <1>1, <2>3, <3>2, <3>3
  <2>4. CASE call[s].stage = "waiting" /\ ~(call[s].left > 1)
    <3>1. call'[s] = [stage |-> IF failed /\ call[s].event \subseteq Signed
                                THEN "refused" ELSE "settled",
                      event |-> call[s].event, left |-> 0]
      BY <2>4 DEF Settle
    <3> QED BY <2>4, <3>1
  <2> QED BY <2>2, <2>3, <2>4
<1>5. Calls'
  <2> SUFFICES ASSUME NEW s \in Slot
               PROVE  /\ call'[s].stage = "idle" => call'[s].event = {}
                      /\ call'[s].stage # "idle" => \E e \in Event : call'[s].event = {e}
                      /\ call'[s].stage = "waiting" => call'[s].left \in 1 .. Len(queue')
    BY DEF Calls
  <2>1. /\ call[s].stage = "idle" => call[s].event = {}
        /\ call[s].stage # "idle" => \E e \in Event : call[s].event = {e}
    BY DEF Shape, Calls
  <2>2. CASE call[s].stage # "waiting"
    BY <1>4, <2>1, <2>2
  <2>3. CASE call[s].stage = "waiting"
    BY <1>4, <2>1, <2>3
  <2> QED BY <2>2, <2>3
<1>6. Single'
  BY <1>4 DEF Shape, Single
<1> QED BY <1>2, <1>3, <1>5, <1>6

LEMMA StepShape == Shape /\ ~Impatient /\ [Next]_vars => Shape'
<1> SUFFICES ASSUME Shape, ~Impatient, [Next]_vars PROVE Shape'
  OBVIOUS
<1>0. TypeOK /\ TypeOK' /\ queue \in Seq(Job) /\ Len(queue) \in Nat
  BY StepType DEF Shape, TypeOK
<1>1. ASSUME NEW s \in Slot, NEW e \in Event, DeliverSigned(s, e) PROVE Shape'
  <2> DEFINE job == [live |-> FALSE, data |-> mem']
  <2>1. /\ mem' = [mem EXCEPT !.events = Listed(e)] /\ e \notin Held(mem)
        /\ queue' = Append(queue, job) /\ Wait(s, e, Len(queue) + 1) /\ Arrives(s, e)
        /\ Len(queue) < MaxQueue /\ UNCHANGED <<saved, started>>
    BY <1>1 DEF DeliverSigned
  <2>2. job \in Job
    BY <1>0 DEF Job, TypeOK
  <2>3. mem.events \in Seq(Event) /\ mem'.events = Listed(e)
    BY <1>0, <2>1 DEF TypeOK, Content
  <2>4. Rows(mem')
    <3>1. Once(Listed(e))
      BY <2>1, <2>3, ListedHolds DEF Shape, Cut, Rows
    <3> QED BY <1>0, <2>3, <3>1 DEF Rows, TypeOK
  <2> HIDE DEF job
  <2>5. Adds(job) /\ Len(queue') = Len(queue) + 1 /\ Len(queue') \in 1 .. MaxQueue
    BY <1>0, <2>1, <2>2, IntakeAssumption DEF Adds
  <2>6. Rows(job.data)
    BY <2>4 DEF job
  <2>7. Cut' /\ Running' /\ Calls' /\ Single'
    BY <2>1, <2>2, <2>4, <2>5, <2>6, ArrivalShape
  <2> QED BY <1>0, <2>7 DEF Shape
<1>2. ASSUME NEW s \in Slot, NEW e \in Event, DeliverComment(s, e) PROVE Shape'
  <2> DEFINE job == [live |-> TRUE, data |-> Empty]
  <2>1. /\ Wait(s, e, Len(queue')) /\ Arrives(s, e) /\ PersistState
        /\ UNCHANGED <<saved, started>> /\ e \notin Signed
    BY <1>2, RoutesAssumption DEF DeliverComment
  <2>2. job \in Job /\ Rows(job.data)
    BY RestType, EmptyRows DEF Job
  <2>3. Adds(job) /\ Len(queue') \in 1 .. MaxQueue
    BY <1>0, <2>1, PersistAdds DEF Adds
  <2>4. mem.events \in Seq(Event) /\ (mem' = mem \/ mem'.events = Listed(e))
    BY <1>0, <1>2 DEF DeliverComment, TypeOK, Content
  <2>5. Rows(mem')
    <3>1. Once(mem.events) => Once(Listed(e))
      BY <2>1, <2>4, ListedHolds
    <3> QED BY <1>0, <2>4, <3>1 DEF Rows, TypeOK, Shape, Cut
  <2> HIDE DEF job
  <2>6. Cut' /\ Running' /\ Calls' /\ Single'
    BY <2>1, <2>2, <2>3, <2>5, ArrivalShape
  <2> QED BY <1>0, <2>6 DEF Shape
<1>3. ASSUME NEW s \in Slot, NEW e \in Event, Duplicate(s, e) PROVE Shape'
  BY <1>0, <1>3 DEF Duplicate, Shape, Cut, Running, Calls, Single
<1>4. ASSUME NEW s \in Slot, Answer(s) PROVE Shape'
  <2>1. Cut' /\ Running' /\ Calls' /\ Single'
    BY <1>4, RestShape DEF Answer, Shape, Cut
  <2> QED BY <1>0, <2>1 DEF Shape
<1>5. ASSUME NEW s \in Slot, Rollback(s) PROVE Shape'
  <2>1. PICK e \in call[s].event : mem' = [mem EXCEPT !.events = RemoveFirst(@, e)]
    BY <1>5 DEF Rollback
  <2>2. e \in Event /\ mem.events \in Seq(Event) /\ mem'.events = RemoveFirst(mem.events, e)
    BY <1>0, <2>1 DEF TypeOK, Delivery, Content
  <2>3. Once(mem'.events)
    BY <2>2, RemoveHolds DEF Shape, Cut, Rows
  <2>4. Rows(mem')
    BY <1>0, <2>3 DEF Rows, TypeOK
  <2>5. Cut' /\ Running' /\ Calls' /\ Single'
    BY <1>5, <2>4, RestShape DEF Rollback
  <2> QED BY <1>0, <2>5 DEF Shape
<1>6. CASE Background
  <2> DEFINE job == [live |-> TRUE, data |-> Empty]
  <2>1. job \in Job /\ Rows(job.data)
    BY RestType, EmptyRows DEF Job
  <2>2. Adds(job) /\ UNCHANGED <<mem, saved, started, call>>
    BY <1>0, <1>6, PersistAdds DEF Adds, Background
  <2> HIDE DEF job
  <2>3. /\ Len(queue') \in Nat /\ Len(queue) <= Len(queue')
        /\ \A i \in 1 .. Len(queue) : i \in 1 .. Len(queue') /\ queue'[i] = queue[i]
        /\ \A i \in 1 .. Len(queue') : i \in 1 .. Len(queue) \/ queue'[i] = job
    BY <1>0, <2>1, <2>2, AddedJob
  <2>4. Cut' /\ Calls' /\ Single'
    BY <2>1, <2>2, <2>3 DEF Shape, Cut, Calls, Single
  <2>5. Running'
    <3>1. queue # <<>> => 1 \in 1 .. Len(queue)
      BY <1>0
    <3>2. queue # <<>> => queue'[1] = queue[1] /\ queue' # <<>>
      BY <2>3, <3>1
    <3> QED BY <2>2, <3>2 DEF Shape, Running
  <2> QED BY <1>0, <2>4, <2>5 DEF Shape
<1>7. CASE StartJob
  <2>1. /\ queue # <<>> /\ Head(queue) = queue[1] /\ 1 \in 1 .. Len(queue)
        /\ started' = {IF queue[1].live THEN mem ELSE queue[1].data}
        /\ UNCHANGED <<mem, saved, queue, call>>
    BY <1>0, <1>7 DEF StartJob
  <2>2. Cut'
    BY <2>1 DEF Shape, Cut
  <2>3. Running'
    BY <2>1 DEF Running
  <2>4. Calls' /\ Single'
    BY <2>1 DEF Shape, Calls, Single
  <2> QED BY <1>0, <2>2, <2>3, <2>4 DEF Shape
<1>8. CASE CommitJob \/ FailJob
  <2>1. PICK failed \in BOOLEAN : Settle(failed)
    BY <1>8 DEF CommitJob, FailJob
  <2>2. started # {} /\ saved' \in started \union {saved} /\ mem' = mem
    BY <1>8 DEF CommitJob, FailJob
  <2>3. Cut' /\ Running' /\ Calls' /\ Single'
    BY <2>1, <2>2, SettleShape
  <2> QED BY <1>0, <2>3 DEF Shape
<1>9. CASE Restart
  <2>1. Rows(saved')
    BY <1>9 DEF Restart, Shape, Cut
  <2>2. mem' = saved' /\ queue' = <<>> /\ started' = {} /\ \A s \in Slot : call'[s] = Rest
    BY <1>9 DEF Restart
  <2>3. Len(queue') = 0
    BY <2>2
  <2>4. Cut' /\ Running'
    BY <2>1, <2>2, <2>3 DEF Cut, Running
  <2>5. Calls' /\ Single'
    BY <2>2 DEF Calls, Single, Rest
  <2> QED BY <1>0, <2>4, <2>5 DEF Shape
<1>10. CASE UNCHANGED vars
  BY <1>0, <1>10 DEF vars, Shape, Cut, Running, Calls, Single
<1> QED BY <1>1, <1>2, <1>3, <1>4, <1>5, <1>6, <1>7, <1>8, <1>9, <1>10 DEF Next, Deliver

-----------------------------------------------------------------------------
(* Each event keeps what it is promised.                                    *)

\* A step that concerns other events: the row of e may be pushed off the list.
LEMMA OthersKeep ==
    ASSUME Shape, NEW e \in Signed, EInv(e), NEW job \in Job, Adds(job),
           job.live \/ (e \in Held(mem') => e \in Held(job.data)),
           \A s \in Slot : e \in call[s].event \/ e \in call'[s].event => call'[s] = call[s],
           UNCHANGED <<saved, started>>, evicted \subseteq evicted',
           e \in Held(mem') => e \in Held(mem),
           e \in Held(mem) => e \in Held(mem') \union evicted',
           e \in acked' => e \in acked
    PROVE  EInv(e)'
<1>1. /\ Len(queue) \in Nat /\ Len(queue') \in Nat /\ Len(queue) <= Len(queue')
      /\ \A i \in 1 .. Len(queue) : i \in 1 .. Len(queue') /\ queue'[i] = queue[i]
      /\ \A i \in 1 .. Len(queue') : i \in 1 .. Len(queue) \/ queue'[i] = job
  BY AddedJob DEF Shape, TypeOK
<1>2. ASSUME NEW n \in Nat, Later(queue, e, n), e \in Held(mem') PROVE Later(queue', e, n)
  BY <1>1, <1>2 DEF Later
<1>3. e \in Held(mem') /\ Kept(e) => Kept(e)'
  <2>1. 0 \in Nat
    OBVIOUS
  <2> QED BY <1>2, <2>1 DEF Kept
<1>4. Being(e)' <=> Being(e)
  BY DEF Being
<1>5. WaitsFor(e)'
  <2> SUFFICES ASSUME NEW s \in Slot, call'[s].stage = "waiting", e \in call'[s].event
               PROVE  /\ e \in Held(mem') \union evicted'
                      /\ e \in Held(mem') => /\ ~queue'[call'[s].left].live
                                             /\ e \in Held(queue'[call'[s].left].data)
                                             /\ Later(queue', e, call'[s].left)
    BY DEF WaitsFor
  <2>1. call'[s] = call[s] /\ call[s].left \in 1 .. Len(queue)
    BY DEF Shape, Calls
  <2>2. /\ e \in Held(mem) \union evicted
        /\ e \in Held(mem) => /\ ~queue[call[s].left].live
                              /\ e \in Held(queue[call[s].left].data)
                              /\ Later(queue, e, call[s].left)
    BY <2>1 DEF EInv, WaitsFor
  <2>3. queue'[call'[s].left] = queue[call[s].left] /\ call[s].left \in Nat
    BY <1>1, <2>1
  <2>4. e \in Held(mem') => Later(queue', e, call[s].left)
    BY <1>2, <2>2, <2>3
  <2>5. /\ queue'[call'[s].left] = queue[call[s].left]
        /\ e \in Held(mem') => Later(queue', e, call'[s].left)
    BY <2>1, <2>3, <2>4
  <2> QED BY <2>2, <2>5
<1>6. Written(e)'
  BY <1>3 DEF EInv, Written
<1>7. Rested(e)'
  BY <1>3, <1>4, Zenon DEF EInv, Rested
<1>8. Promised(e)'
  BY <1>4 DEF EInv, Promised
<1> QED BY <1>5, <1>6, <1>7, <1>8 DEF EInv

\* The event that arrives is in the snapshot its delivery waits for.
LEMMA ArrivalPromises ==
    ASSUME Shape, NEW s \in Slot, NEW e \in Signed, EInv(e), DeliverSigned(s, e),
           ~Being(e), e \in Held(mem')
    PROVE  EInv(e)'
<1> DEFINE job == [live |-> FALSE, data |-> mem']
<1>1. /\ queue' = Append(queue, job) /\ Wait(s, e, Len(queue) + 1) /\ e \notin Held(mem)
      /\ queue \in Seq(Job) /\ call \in [Slot -> Delivery] /\ acked' = acked
      /\ evicted \subseteq evicted' /\ evicted' \subseteq evicted \union Held(mem)
  BY DEF DeliverSigned, Shape, TypeOK, Evict
<1>2. Len(queue) \in Nat /\ Len(queue') = Len(queue) + 1 /\ queue'[Len(queue')] = job
  BY <1>1
<1>3. /\ call'[s] = [stage |-> "waiting", event |-> {e}, left |-> Len(queue')]
      /\ \A t \in Slot : t # s => e \notin call'[t].event
  BY <1>1, <1>2 DEF Wait, Being
<1>4. Later(queue', e, Len(queue'))
  BY <1>2 DEF Later
<1>5. WaitsFor(e)' /\ Written(e)'
  <2>1. ASSUME NEW t \in Slot, e \in call'[t].event
        PROVE  t = s
    BY <1>3, <2>1
  <2>2. ~queue'[call'[s].left].live /\ e \in Held(queue'[call'[s].left].data)
    BY <1>2, <1>3
  <2>3. Later(queue', e, call'[s].left)
    BY <1>3, <1>4 DEF Later
  <2>4. call'[s].stage = "waiting"
    BY <1>3
  <2> QED BY <2>1, <2>2, <2>3, <2>4 DEF WaitsFor, Written
<1>6. Being(e)'
  BY <1>3 DEF Being
<1>7. e \notin acked' \ evicted'
  BY <1>1 DEF EInv, Promised
<1> QED BY <1>5, <1>6, <1>7 DEF EInv, Rested, Promised

\* A job starts: what it writes holds every event that is promised.
LEMMA StartKeepsEvent ==
    ASSUME Shape, NEW e \in Signed, EInv(e), StartJob
    PROVE  EInv(e)'
<1>1. /\ queue # <<>> /\ Head(queue) = queue[1] /\ 1 \in 1 .. Len(queue)
      /\ started' = {IF queue[1].live THEN mem ELSE queue[1].data}
      /\ UNCHANGED <<mem, saved, queue, call, acked, evicted>>
  BY DEF StartJob, Shape, TypeOK
<1>2. \A n : Later(queue', e, n) <=> Later(queue, e, n)
  BY <1>1 DEF Later
<1>3. e \in Held(mem) /\ Kept(e) => Kept(e)'
  <2> SUFFICES ASSUME e \in Held(mem), Kept(e) PROVE Kept(e)'
    OBVIOUS
  <2>1. queue[1].live \/ e \in Held(queue[1].data)
    BY <1>1 DEF Kept, Later
  <2>2. \A c \in started' : e \in Held(c)
    BY <1>1, <2>1
  <2> QED BY <1>1, <2>2 DEF Kept, Later
<1>4. WaitsFor(e)'
  BY <1>1 DEF EInv, WaitsFor, Later
<1>5. Being(e)' <=> Being(e)
  BY <1>1 DEF Being
<1>6. Written(e)'
  BY <1>1, <1>3 DEF EInv, Written
<1>7. Rested(e)' /\ Promised(e)'
  BY <1>1, <1>3, <1>5 DEF EInv, Rested, Promised
<1> QED BY <1>4, <1>6, <1>7 DEF EInv

\* The end of the first job, for a delivery: it was the one it waited for, or
\* there is one less before it.
LEMMA SettledCall ==
    ASSUME Shape, NEW failed \in BOOLEAN, Settle(failed), NEW s \in Slot
    PROVE  /\ call'[s].event = call[s].event
           /\ call'[s].stage = "waiting" =>
                 /\ call[s].stage = "waiting" /\ call[s].left \in 2 .. Len(queue)
                 /\ call'[s].left = call[s].left - 1
           /\ call'[s].stage = "settled" /\ call[s].stage # "settled" =>
                 /\ call[s].stage = "waiting" /\ call[s].left = 1
                 /\ ~(failed /\ call[s].event \subseteq Signed)
<1>1. call[s] \in Delivery /\ queue \in Seq(Job) /\ Len(queue) \in Nat
  BY DEF Shape, TypeOK
<1>2. CASE call[s].stage # "waiting"
  BY <1>2 DEF Settle
<1>3. CASE call[s].stage = "waiting"
  <2>1. call[s].left \in 1 .. Len(queue)
    BY <1>3 DEF Shape, Calls
  <2>2. CASE call[s].left > 1
    <3>1. call'[s] = [call[s] EXCEPT !.left = @ - 1]
      BY <1>3, <2>2 DEF Settle
    <3>2. call'[s] = [stage |-> "waiting", event |-> call[s].event, left |-> call[s].left - 1]
      BY <1>1, <1>3, <3>1 DEF Delivery
    <3> QED BY <1>1, <1>3, <2>1, <2>2, <3>2
  <2>3. CASE ~(call[s].left > 1)
    <3>1. call'[s] = [stage |-> IF failed /\ call[s].event \subseteq Signed
                                THEN "refused" ELSE "settled",
                      event |-> call[s].event, left |-> 0]
      BY <1>3, <2>3 DEF Settle
    <3>2. call[s].left = 1
      BY <1>1, <2>1, <2>3
    <3> QED BY <1>3, <3>1, <3>2
  <2> QED BY <2>2, <2>3
<1> QED BY <1>2, <1>3

\* What a job wrote is what its delivery was promised.
LEMMA SettleKeepsEvent ==
    ASSUME Shape, NEW e \in Signed, EInv(e), CommitJob \/ FailJob
    PROVE  EInv(e)'
<1>1. PICK failed \in BOOLEAN : Settle(failed) /\ (~failed => saved' \in started)
  BY DEF CommitJob, FailJob
<1>2. /\ started # {} /\ saved' \in started \union {saved} /\ started' = {}
      /\ queue' = Tail(queue) /\ UNCHANGED <<mem, acked, evicted>>
  BY DEF CommitJob, FailJob, Settle
<1>3. queue \in Seq(Job) /\ queue # <<>>
  BY <1>2 DEF Shape, TypeOK, Running
<1>4. /\ Len(queue) \in Nat /\ Len(queue') = Len(queue) - 1
      /\ \A i \in 1 .. Len(queue') : i + 1 \in 1 .. Len(queue) /\ queue'[i] = queue[i + 1]
      /\ \A i \in 2 .. Len(queue) : i - 1 \in 1 .. Len(queue') /\ queue'[i - 1] = queue[i]
  BY <1>2, <1>3, TakenJob
<1>5. ASSUME NEW n \in Nat, Later(queue, e, n + 1) PROVE Later(queue', e, n)
  <2> SUFFICES ASSUME NEW i \in 1 .. Len(queue'), i > n
               PROVE  queue'[i].live \/ e \in Held(queue'[i].data)
    BY DEF Later
  <2>1. i + 1 \in 1 .. Len(queue) /\ queue'[i] = queue[i + 1] /\ i + 1 > n + 1
    BY <1>4
  <2> QED BY <1>5, <2>1 DEF Later
<1>6. Kept(e) => Kept(e)'
  <2>1. Later(queue, e, 0) => Later(queue, e, 0 + 1)
    BY DEF Later
  <2>2. Later(queue, e, 0) => Later(queue', e, 0)
    BY <1>5, <2>1
  <2> QED BY <1>2, <2>2 DEF Kept
<1>7. \A s \in Slot : call'[s].event = call[s].event
  BY <1>1, SettledCall
<1>8. Being(e)' <=> Being(e)
  BY <1>7 DEF Being
<1>9. WaitsFor(e)'
  <2> SUFFICES ASSUME NEW s \in Slot, call'[s].stage = "waiting", e \in call'[s].event
               PROVE  /\ e \in Held(mem) \union evicted
                      /\ e \in Held(mem) => /\ ~queue'[call'[s].left].live
                                            /\ e \in Held(queue'[call'[s].left].data)
                                            /\ Later(queue', e, call'[s].left)
    BY <1>2 DEF WaitsFor
  <2>1. /\ call[s].stage = "waiting" /\ call[s].left \in 2 .. Len(queue)
        /\ call'[s].left = call[s].left - 1 /\ e \in call[s].event
    BY <1>1, SettledCall
  <2>2. queue'[call'[s].left] = queue[call[s].left]
    BY <1>4, <2>1
  <2>3. call'[s].left \in Nat /\ call'[s].left + 1 = call[s].left
    BY <1>4, <2>1
  <2>4. Later(queue, e, call[s].left) => Later(queue', e, call'[s].left)
    BY <1>5, <2>3
  <2> QED BY <2>1, <2>2, <2>4 DEF EInv, WaitsFor
<1>10. Written(e)'
  <2> SUFFICES ASSUME NEW s \in Slot, call'[s].stage = "settled", e \in call'[s].event
               PROVE  e \in Held(mem) \union evicted /\ (e \in Held(mem) => Kept(e)')
    BY <1>2 DEF Written
  <2>1. e \in call[s].event
    BY <1>7
  <2>2. CASE call[s].stage = "settled"
    BY <1>6, <2>1, <2>2 DEF EInv, Written
  <2>3. CASE call[s].stage # "settled"
    <3>1. /\ call[s].stage = "waiting" /\ call[s].left = 1
          /\ ~(failed /\ call[s].event \subseteq Signed)
      BY <1>1, <2>3, SettledCall
    <3>2. call[s].event = {e}
      BY <2>1, <3>1 DEF Shape, Calls
    <3>3. saved' \in started
      BY <1>1, <3>1, <3>2
    <3>4. ASSUME e \in Held(mem) PROVE Kept(e)'
      <4>1. ~queue[1].live /\ e \in Held(queue[1].data) /\ Later(queue, e, 1)
        BY <2>1, <3>1, <3>4 DEF EInv, WaitsFor
      <4>2. saved' = queue[1].data
        BY <3>3, <4>1 DEF Shape, Running
      <4>3. Later(queue', e, 0)
        <5>1. 0 \in Nat /\ 0 + 1 = 1
          OBVIOUS
        <5> QED BY <1>5, <4>1, <5>1
      <4>4. e \in Held(saved')
        BY <4>1, <4>2
      <4> QED BY <1>2, <4>3, <4>4 DEF Kept
    <3>5. e \in Held(mem) \union evicted
      BY <2>1, <3>1 DEF EInv, WaitsFor
    <3> QED BY <3>4, <3>5
  <2> QED BY <2>2, <2>3
<1>11. Rested(e)'
  BY <1>2, <1>6, <1>8 DEF EInv, Rested
<1>12. Promised(e)'
  BY <1>2, <1>8 DEF EInv, Promised
<1> QED BY <1>9, <1>10, <1>11, <1>12 DEF EInv

\* A step that leaves the queue, the database and the deliveries of e as they
\* are, and does not answer for it.
LEMMA QuietKeeps ==
    ASSUME Shape, NEW e \in Signed, EInv(e), UNCHANGED <<saved, queue, started, evicted>>,
           \A s \in Slot : e \in call[s].event \/ e \in call'[s].event => call'[s] = call[s],
           e \in Held(mem') <=> e \in Held(mem),
           e \in acked' => e \in acked
    PROVE  EInv(e)'
<1> DEFINE job == [live |-> TRUE, data |-> Empty]
<1>1. job \in Job /\ job.live
  BY RestType DEF Job
<1> HIDE DEF job
<1>2. Adds(job)
  BY DEF Adds
<1> QED BY <1>1, <1>2, OthersKeep

\* A delivery that is over is no longer the one of its event.
LEMMA OverIsOut ==
    ASSUME Shape, NEW s \in Slot, call' = [call EXCEPT ![s] = Rest], NEW e \in Event
    PROVE  /\ e \in call[s].event => ~Being(e)'
           /\ e \notin call[s].event =>
                 \A t \in Slot : e \in call[t].event \/ e \in call'[t].event => call'[t] = call[t]
<1>1. call'[s] = Rest /\ \A t \in Slot : t # s => call'[t] = call[t]
  BY DEF Shape, TypeOK
<1>2. e \notin call'[s].event
  BY <1>1 DEF Rest
<1>3. e \in call[s].event => ~Being(e)'
  BY <1>1, <1>2 DEF Being, Shape, Single
<1> QED BY <1>1, <1>2, <1>3

\* An event that no delivery holds is promised nothing by the deliveries.
LEMMA NoDelivery ==
    ASSUME NEW e \in Signed, ~Being(e)'
    PROVE  WaitsFor(e)' /\ Written(e)'
BY DEF Being, WaitsFor, Written

LEMMA AnswerKeepsEvent ==
    ASSUME Shape, NEW e \in Signed, EInv(e), NEW s \in Slot, Answer(s)
    PROVE  EInv(e)'
<1>1. /\ call[s].stage = "settled" /\ acked' = acked \union call[s].event
      /\ call' = [call EXCEPT ![s] = Rest]
      /\ UNCHANGED <<mem, saved, queue, started, evicted>> /\ e \in Event
  BY DEF Answer, Event
<1>2. CASE e \in call[s].event
  <2>1. ~Being(e)'
    BY <1>1, <1>2, OverIsOut
  <2>2. e \in Held(mem) \union evicted /\ (e \in Held(mem) => Kept(e))
    BY <1>1, <1>2 DEF EInv, Written
  <2>3. Kept(e)' <=> Kept(e)
    BY <1>1 DEF Kept, Later
  <2>4. WaitsFor(e)' /\ Written(e)'
    BY <2>1, NoDelivery
  <2> QED BY <1>1, <2>1, <2>2, <2>3, <2>4 DEF EInv, Rested, Promised
<1>3. CASE e \notin call[s].event
  <2>1. \A t \in Slot : e \in call[t].event \/ e \in call'[t].event => call'[t] = call[t]
    BY <1>1, <1>3, OverIsOut
  <2> QED BY <1>1, <1>3, <2>1, QuietKeeps
<1> QED BY <1>2, <1>3

LEMMA RollbackKeepsEvent ==
    ASSUME Shape, NEW e \in Signed, EInv(e), NEW s \in Slot, Rollback(s)
    PROVE  EInv(e)'
<1>1. PICK x \in call[s].event : mem' = [mem EXCEPT !.events = RemoveFirst(@, x)]
  BY DEF Rollback
<1>2. /\ call[s].stage = "refused" /\ call' = [call EXCEPT ![s] = Rest]
      /\ UNCHANGED <<saved, queue, started, acked, evicted>> /\ e \in Event
  BY DEF Rollback, Event
<1>3. call[s].event = {x} /\ x \in Event
  BY <1>1, <1>2 DEF Shape, Calls
<1>4. mem.events \in Seq(Event) /\ mem'.events = RemoveFirst(mem.events, x) /\ Once(mem.events)
  BY <1>1 DEF Shape, TypeOK, Content, Cut, Rows
<1>5. CASE e = x
  <2>1. ~Being(e)'
    BY <1>2, <1>3, <1>5, OverIsOut
  <2>2. e \notin Held(mem')
    BY <1>3, <1>4, <1>5, RemoveHolds DEF Held
  <2>3. Being(e)
    BY <1>3, <1>5 DEF Being
  <2>4. WaitsFor(e)' /\ Written(e)'
    BY <2>1, NoDelivery
  <2> QED BY <1>2, <2>2, <2>3, <2>4 DEF EInv, Rested, Promised
<1>6. CASE e # x
  <2>1. \A t \in Slot : e \in call[t].event \/ e \in call'[t].event => call'[t] = call[t]
    BY <1>2, <1>3, <1>6, OverIsOut
  <2>2. e \in Held(mem') <=> e \in Held(mem)
    BY <1>2, <1>3, <1>4, <1>6, RemoveHolds DEF Held
  <2> QED BY <1>2, <2>1, <2>2, QuietKeeps
<1> QED BY <1>5, <1>6

LEMMA DuplicateKeepsEvent ==
    ASSUME Shape, ~Impatient, NEW e \in Signed, EInv(e), NEW s \in Slot, NEW x \in Event,
           Duplicate(s, x)
    PROVE  EInv(e)'
<1>1. /\ ~Being(x) /\ acked' = acked \union {x}
      /\ UNCHANGED <<mem, saved, queue, started, call, evicted>>
  BY DEF Duplicate, Arrives
<1>2. x = e => e \in Held(mem)
  BY RoutesAssumption DEF Duplicate
<1>3. WaitsFor(e)' /\ Written(e)' /\ Rested(e)'
  BY <1>1 DEF EInv, WaitsFor, Written, Rested, Kept, Later, Being
<1>4. Promised(e)'
  <2>1. Being(e)' <=> Being(e)
    BY <1>1 DEF Being
  <2> QED BY <1>1, <1>2, <2>1 DEF EInv, Promised
<1> QED BY <1>3, <1>4 DEF EInv

\* The arrival of another event may push e off the list, and then says so.
LEMMA OtherArrival ==
    ASSUME Shape, NEW e \in Signed, EInv(e), NEW s \in Slot, NEW x \in Event, x # e,
           Arrives(s, x), NEW n, Wait(s, x, n), NEW job \in Job, Adds(job),
           job.live \/ job.data = mem', UNCHANGED <<saved, started, acked>>,
           \/ mem'.events = Listed(x) /\ Evict(x)
           \/ UNCHANGED <<mem, evicted>>
    PROVE  EInv(e)'
<1>1. /\ call' = [call EXCEPT ![s] = [stage |-> "waiting", event |-> {x}, left |-> n]]
      /\ call \in [Slot -> Delivery] /\ call[s] = Rest
  BY DEF Shape, TypeOK, Wait, Arrives
<1>2. ASSUME NEW t \in Slot, e \in call[t].event \/ e \in call'[t].event
      PROVE  call'[t] = call[t]
  BY <1>1, <1>2 DEF Rest
<1>3. mem.events \in Seq(Event)
  BY DEF Shape, TypeOK, Content
<1>4. /\ evicted \subseteq evicted'
      /\ e \in Held(mem') => e \in Held(mem)
      /\ e \in Held(mem) => e \in Held(mem') \union evicted'
  <2>1. CASE mem'.events = Listed(x) /\ Evict(x)
    <3>1. Held(mem') = ToSet(Listed(x)) /\ evicted' = evicted \union (Held(mem) \ ToSet(Listed(x)))
      BY <2>1 DEF Held, Evict
    <3>2. ToSet(Listed(x)) \subseteq {x} \union Held(mem)
      BY <1>3, ListedHolds
    <3> QED BY <3>1, <3>2
  <2>2. CASE UNCHANGED <<mem, evicted>>
    BY <2>2
  <2> QED BY <2>1, <2>2
<1>5. job.live \/ (e \in Held(mem') => e \in Held(job.data))
  BY Zenon
<1>6. (e \in acked' => e \in acked) /\ UNCHANGED <<saved, started>>
  OBVIOUS
<1> QED BY <1>2, <1>4, <1>5, <1>6, OthersKeep, Zenon

LEMMA SignedKeepsEvent ==
    ASSUME Shape, ~Impatient, NEW e \in Signed, EInv(e), NEW s \in Slot, NEW x \in Event,
           DeliverSigned(s, x)
    PROVE  EInv(e)'
<1>1. /\ Arrives(s, x) /\ ~Being(x) /\ mem' = [mem EXCEPT !.events = Listed(x)] /\ Evict(x)
      /\ queue' = Append(queue, [live |-> FALSE, data |-> mem'])
      /\ Wait(s, x, Len(queue) + 1) /\ UNCHANGED <<saved, started, acked>>
  BY DEF DeliverSigned, Arrives
<1>2. mem.events \in Seq(Event) /\ mem'.events = Listed(x)
  BY <1>1 DEF Shape, TypeOK, Content
<1>3. CASE x = e
  <2>1. e \in Held(mem')
    BY <1>2, <1>3, ListedHolds DEF Held
  <2>2. ~Being(e) /\ DeliverSigned(s, e)
    BY <1>1, <1>3
  <2> QED BY <2>1, <2>2, ArrivalPromises
<1>4. CASE x # e
  <2> DEFINE job == [live |-> FALSE, data |-> mem']
  <2>1. mem' \in Content
    BY <1>1, <1>2, ListedType DEF Shape
  <2>2. job \in Job /\ job.data = mem'
    BY <2>1 DEF Job
  <2>3. Adds(job)
    BY <1>1 DEF Adds
  <2> HIDE DEF job
  <2> QED BY <1>1, <1>2, <1>4, <2>2, <2>3, OtherArrival
<1> QED BY <1>3, <1>4

LEMMA CommentKeepsEvent ==
    ASSUME Shape, NEW e \in Signed, EInv(e), NEW s \in Slot, NEW x \in Event,
           DeliverComment(s, x)
    PROVE  EInv(e)'
<1> DEFINE job == [live |-> TRUE, data |-> Empty]
<1>1. /\ Arrives(s, x) /\ x # e /\ PersistState /\ Wait(s, x, Len(queue'))
      /\ UNCHANGED <<saved, started, acked>>
  BY RoutesAssumption DEF DeliverComment
<1>2. \/ mem'.events = Listed(x) /\ Evict(x)
      \/ UNCHANGED <<mem, evicted>>
  BY DEF DeliverComment
<1>3. job \in Job /\ job.live
  BY RestType DEF Job
<1>4. Adds(job)
  BY <1>1, PersistAdds DEF Adds, Shape
<1> HIDE DEF job
<1> QED BY <1>1, <1>2, <1>3, <1>4, OtherArrival

LEMMA BackgroundKeepsEvent ==
    ASSUME Shape, NEW e \in Signed, EInv(e), Background
    PROVE  EInv(e)'
<1> DEFINE job == [live |-> TRUE, data |-> Empty]
<1>1. job \in Job /\ job.live
  BY RestType DEF Job
<1>2. Adds(job)
  BY PersistAdds DEF Adds, Shape, Background
<1> HIDE DEF job
<1>3. UNCHANGED <<mem, saved, started, call, acked, evicted>>
  BY DEF Background
<1> QED BY <1>1, <1>2, <1>3, OthersKeep

\* A restart brings back what is in the database: all that was acknowledged.
LEMMA RestartKeepsEvent ==
    ASSUME Shape, NEW e \in Signed, EInv(e), Restart
    PROVE  EInv(e)'
<1>1. /\ saved' \in started \union {saved} /\ mem' = saved' /\ queue' = <<>> /\ started' = {}
      /\ \A s \in Slot : call'[s] = Rest
      /\ UNCHANGED <<acked, evicted>>
  BY DEF Restart
<1>2. ~Being(e)'
  BY <1>1 DEF Being, Rest
<1>3. WaitsFor(e)' /\ Written(e)'
  BY <1>2, NoDelivery
<1>4. e \in Held(mem') => Kept(e)'
  <2>1. Len(queue') = 0
    BY <1>1
  <2> QED BY <1>1, <2>1 DEF Kept, Later
<1>5. e \in acked \ evicted => e \in Held(mem')
  BY <1>1 DEF EInv, Promised, Rested, Kept
<1> QED BY <1>1, <1>2, <1>3, <1>4, <1>5 DEF EInv, Rested, Promised

LEMMA StepEvent ==
    ASSUME Shape, ~Impatient, NEW e \in Signed, EInv(e), [Next]_vars
    PROVE  EInv(e)'
<1>1. ASSUME NEW s \in Slot, NEW x \in Event, Deliver(s, x) PROVE EInv(e)'
  BY <1>1, SignedKeepsEvent, CommentKeepsEvent, DuplicateKeepsEvent DEF Deliver
<1>2. ASSUME NEW s \in Slot, Answer(s) \/ Rollback(s) PROVE EInv(e)'
  BY <1>2, AnswerKeepsEvent, RollbackKeepsEvent
<1>3. CASE Background
  BY <1>3, BackgroundKeepsEvent
<1>4. CASE StartJob
  BY <1>4, StartKeepsEvent
<1>5. CASE CommitJob \/ FailJob
  BY <1>5, SettleKeepsEvent
<1>6. CASE Restart
  BY <1>6, RestartKeepsEvent
<1>7. CASE UNCHANGED vars
  BY <1>7 DEF vars, EInv, WaitsFor, Written, Rested, Promised, Kept, Later, Being
<1> QED BY <1>1, <1>2, <1>3, <1>4, <1>5, <1>6, <1>7 DEF Next

-----------------------------------------------------------------------------
(* The theorems.                                                            *)

LEMMA InitIInv == Init => IInv
<1> SUFFICES ASSUME Init PROVE IInv
  OBVIOUS
<1>1. /\ mem = Empty /\ saved = Empty /\ queue = <<>> /\ started = {} /\ acked = {}
      /\ \A s \in Slot : call[s] = Rest
      /\ Len(queue) = 0
  BY DEF Init
<1>2. Shape
  BY <1>1, InitType, EmptyRows DEF Shape, Cut, Running, Calls, Single, Rest
<1>3. ASSUME NEW e \in Signed PROVE EInv(e)
  BY <1>1, RestType DEF EInv, WaitsFor, Written, Rested, Promised, Being, Rest
<1> QED BY <1>2, <1>3 DEF IInv

LEMMA Inductive == ASSUME ~Impatient PROVE Spec => []IInv
<1>1. Init => IInv
  BY InitIInv
<1>2. IInv /\ [Next]_vars => IInv'
  <2> SUFFICES ASSUME IInv, [Next]_vars PROVE IInv'
    OBVIOUS
  <2>1. Shape'
    BY StepShape DEF IInv
  <2>2. ASSUME NEW e \in Signed PROVE EInv(e)'
    BY StepEvent DEF IInv
  <2> QED BY <2>1, <2>2 DEF IInv
<1> QED BY <1>1, <1>2, PTL DEF Spec

\* Every variable keeps its type: the list stays within its capacity through
\* unshift, slice, rollback and restart, and no delivery waits for a job that
\* is not in persistQueue.
THEOREM TypeCorrect == ASSUME ~Impatient PROVE Spec => []TypeOK
<1>1. IInv => TypeOK
  BY DEF IInv, Shape
<1> QED BY <1>1, Inductive, PTL

\* What the signed route acknowledges is in the database: neither a failed
\* write of another delivery, nor the rollback after it, nor a restart takes
\* it away, for any number of deliveries at once and any length of the list,
\* if providers wait for an answer before they repeat.
THEOREM AcknowledgedIsStored == ASSUME ~Impatient PROVE Spec => []AckedStored
<1>1. IInv => AckedStored
  BY DEF IInv, EInv, Promised, Rested, Kept, AckedStored
<1> QED BY <1>1, Inductive, PTL

\* What the duplicate check refuses is in the database, or in the hands of a
\* delivery that will still be answered: the list never refuses an event
\* that was lost.
THEOREM RefusedIsNotLost == ASSUME ~Impatient PROVE Spec => []ListedIsStored
<1>1. IInv => ListedIsStored
  BY DEF IInv, EInv, Rested, Kept, ListedIsStored
<1> QED BY <1>1, Inductive, PTL
=============================================================================
