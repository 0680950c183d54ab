--------------------------- MODULE ServiceProofs ---------------------------
(***************************************************************************)
(* Machine-checked theorems about the services around the delivery, for    *)
(* every value of the constants: the access to an account (AccessControl), *)
(* the requests to the AI provider (AiEngine), the credentials of a        *)
(* platform (TokenRenewal), the tasks of the agent (AgentTask) and the     *)
(* alerts to the owner (OwnerAlerts).  One module for the five, each with  *)
(* an instance of its component; what belongs to one begins with the name  *)
(* of its instance.                                                        *)
(***************************************************************************)
EXTENDS Naturals, Sequences, FiniteSets, FiniteSetTheorems, SequenceTheorems,
        WellFoundedInduction, TLAPS

CONSTANTS Request, MaxWindow, MaxSession, MaxJobs, CacheKey, Caller, Limit, Threshold,
          Cooldown, MaxDays, Account, Operation, Life, Lead, MaxWait, TaskKey, Slot,
          Capacity, MaxTask, Event, Platform, MaxPending, MaxSent, MaxRestarts

VARIABLES now, mem, stored, queue, request, issued, given, opened, left, restarts, cache,
          call, breaker, used, saved, writes, midnight, answered, uncounted, days, link,
          track, leaving, due, removed, order, record, slot, stray, effects, lost, alerts,
          cycle, inFlight, broken, mails, excused, late, cut

Login == INSTANCE AccessControl
Ai == INSTANCE AiEngine WITH Key <- CacheKey
Token == INSTANCE TokenRenewal
Agent == INSTANCE AgentTask WITH Key <- TaskKey
Alerts == INSTANCE OwnerAlerts

-----------------------------------------------------------------------------
(* The access to an account (AccessControl).                               *)

LoginParameters ==
    /\ MaxWindow \in Nat \ {0} /\ MaxSession \in Nat /\ MaxJobs \in Nat
    /\ MaxRestarts \in Nat
    /\ Login!Lazy \notin Request

LoginHandler == [stage : Login!Stage, window : 0 .. MaxWindow, session : Nat]

-----------------------------------------------------------------------------
(* What the operations on the queue do to its elements.                     *)

LEMMA AppendedJob ==
    ASSUME NEW q \in Seq(Login!Writing), NEW job \in Login!Writing
    PROVE  /\ Append(q, job) \in Seq(Login!Writing)
           /\ DOMAIN Append(q, job) = 1 .. Len(q) + 1 /\ DOMAIN q = 1 .. Len(q)
           /\ Len(q) \in Nat
           /\ \A i \in DOMAIN q : Append(q, job)[i] = q[i]
           /\ Append(q, job)[Len(q) + 1] = job
OBVIOUS

LEMMA PoppedJob ==
    ASSUME NEW q \in Seq(Login!Writing), q # << >>
    PROVE  /\ Tail(q) \in Seq(Login!Writing) /\ Head(q) = q[1] /\ Head(q) \in Login!Writing
           /\ 1 \in DOMAIN q
           /\ \A i \in DOMAIN Tail(q) :
                 i + 1 \in DOMAIN q /\ Tail(q)[i] = q[i + 1] /\ i \in Nat
OBVIOUS

LEMMA IdleType == ASSUME LoginParameters PROVE Login!Idle \in LoginHandler
BY DEF LoginParameters, Login!Idle, LoginHandler, Login!Stage

LEMMA WritingType ==
    ASSUME NEW r \in Request \union {Login!Lazy}, NEW a \in Login!Access, NEW b \in BOOLEAN
    PROVE  /\ [by |-> r, snap |-> a, started |-> b] \in Login!Writing
           /\ Login!Eager(r, a) \in Login!Writing
BY DEF Login!Writing, Login!Eager

LEMMA JobParts ==
    ASSUME NEW job \in Login!Writing
    PROVE  job.by \in Request \union {Login!Lazy} /\ job.snap \in Login!Access /\ job.started \in BOOLEAN
BY DEF Login!Writing

LEMMA AccessParts ==
    ASSUME NEW a \in Login!Access
    PROVE  /\ a.consumed \in 0 .. MaxWindow /\ a.revoked \in SUBSET Nat
           /\ a.epoch \in Nat /\ a.active \in BOOLEAN
BY DEF Login!Access

LEMMA AccessUpdates ==
    ASSUME NEW a \in Login!Access
    PROVE  /\ \A w \in 0 .. MaxWindow :
                 /\ [a EXCEPT !.consumed = w] \in Login!Access
                 /\ [a EXCEPT !.consumed = w].consumed = w
                 /\ [a EXCEPT !.consumed = w].revoked = a.revoked
           /\ \A s \in Nat :
                 /\ [a EXCEPT !.revoked = @ \union {s}] \in Login!Access
                 /\ [a EXCEPT !.revoked = @ \union {s}].revoked = a.revoked \union {s}
                 /\ [a EXCEPT !.revoked = @ \union {s}].consumed = a.consumed
           /\ \A e \in Nat, b \in BOOLEAN :
                 /\ [a EXCEPT !.epoch = e, !.active = b] \in Login!Access
                 /\ [a EXCEPT !.epoch = e, !.active = b].revoked = a.revoked
                 /\ [a EXCEPT !.epoch = e, !.active = b].consumed = a.consumed
           /\ \A e \in Nat :
                 /\ [a EXCEPT !.epoch = e] \in Login!Access
                 /\ [a EXCEPT !.epoch = e].revoked = a.revoked
                 /\ [a EXCEPT !.epoch = e].consumed = a.consumed
           /\ \A b \in BOOLEAN :
                 /\ [a EXCEPT !.active = b] \in Login!Access
                 /\ [a EXCEPT !.active = b].revoked = a.revoked
                 /\ [a EXCEPT !.active = b].consumed = a.consumed
BY Zenon DEF Login!Access

LEMMA LandedType ==
    ASSUME NEW job \in Login!Writing, stored \in Login!Access
    PROVE  /\ Login!Landed(job) \in Login!Access
           /\ Login!Landed(job).revoked = job.snap.revoked
           /\ Login!Landed(job).consumed = IF job.by = Login!Lazy THEN stored.consumed
                                           ELSE job.snap.consumed
<1>1. job.snap \in Login!Access /\ stored.consumed \in 0 .. MaxWindow
  BY JobParts, AccessParts
<1>2. CASE job.by = Login!Lazy
  <2>1. Login!Landed(job) = [job.snap EXCEPT !.consumed = stored.consumed]
    BY <1>2 DEF Login!Landed
  <2>2. \A w \in 0 .. MaxWindow :
          /\ [job.snap EXCEPT !.consumed = w] \in Login!Access
          /\ [job.snap EXCEPT !.consumed = w].consumed = w
          /\ [job.snap EXCEPT !.consumed = w].revoked = job.snap.revoked
    BY <1>1, AccessUpdates, Zenon
  <2> QED BY <1>1, <1>2, <2>1, <2>2
<1>3. CASE job.by # Login!Lazy
  BY <1>1, <1>3 DEF Login!Landed
<1> QED BY <1>2, <1>3

-----------------------------------------------------------------------------
(* Type correctness.                                                        *)

LEMMA AccountType ==
    ASSUME LoginParameters, Login!TypeOK, Login!ChangeAccount
    PROVE  /\ mem' \in Login!Access
           /\ mem'.consumed = mem.consumed /\ mem'.revoked = mem.revoked
<1>1. mem \in Login!Access /\ issued \in Nat
  BY DEF Login!TypeOK
<1>2. TRUE \in BOOLEAN /\ FALSE \in BOOLEAN
  OBVIOUS
<1>3. CASE mem' = [mem EXCEPT !.epoch = issued]
  BY <1>1, <1>3, AccessUpdates, Zenon
<1>4. CASE mem' = [mem EXCEPT !.epoch = issued, !.active = FALSE]
  BY <1>1, <1>2, <1>4, AccessUpdates, Zenon
<1>5. CASE mem' = [mem EXCEPT !.active = TRUE]
  BY <1>1, <1>2, <1>5, AccessUpdates, Zenon
<1> QED BY <1>3, <1>4, <1>5, Zenon DEF Login!ChangeAccount

\* What a handler does when its write is over.
LEMMA ResumeType ==
    ASSUME LoginParameters, Login!TypeOK, queue # << >>, NEW r \in Request \union {Login!Lazy}, Login!Resume(r)
    PROVE  /\ queue' \in Seq(Login!Writing)
           /\ request' \in [Request -> LoginHandler]
           /\ issued' \in Nat /\ given' \subseteq Nat /\ left' \subseteq Nat
           /\ opened' \in [Login!Window -> Nat]
<1>1. /\ Tail(queue) \in Seq(Login!Writing) /\ mem \in Login!Access
      /\ request \in [Request -> LoginHandler]
      /\ issued \in Nat /\ given \subseteq Nat /\ left \subseteq Nat
      /\ opened \in [Login!Window -> Nat]
  BY PoppedJob DEF Login!TypeOK, LoginHandler
<1>2. CASE r = Login!Lazy
  BY <1>1, <1>2 DEF Login!Resume, Login!History
<1>3. CASE r # Login!Lazy /\ request[r].stage = "consuming"
  <2> r \in Request
    BY <1>3
  <2>1. Login!Opens(r)
    BY <1>3 DEF Login!Resume
  <2>2. CASE mem.active
    <3>1. /\ issued' = issued + 1
          /\ request' = [request EXCEPT ![r].stage = "opening", ![r].session = issued']
          /\ queue' = Append(Tail(queue), Login!Eager(r, mem))
          /\ UNCHANGED <<given, opened, left>>
      BY <2>1, <2>2 DEF Login!Opens
    <3>2. queue' \in Seq(Login!Writing)
      BY <1>1, <3>1, WritingType, AppendedJob
    <3>3. request' \in [Request -> LoginHandler]
      <4>1. issued' \in Nat /\ request[r] \in LoginHandler
        BY <1>1, <3>1
      <4>2. request' = [request EXCEPT ![r] =
                          [request[r] EXCEPT !.stage = "opening", !.session = issued']]
        BY <1>1, <3>1
      <4>3. [request[r] EXCEPT !.stage = "opening", !.session = issued'] \in LoginHandler
        BY <4>1 DEF LoginHandler, Login!Stage
      <4> QED BY <1>1, <4>2, <4>3
    <3> QED BY <1>1, <3>1, <3>2, <3>3
  <2>3. CASE ~mem.active
    BY <1>1, <2>1, <2>3, IdleType DEF Login!Opens, Login!History
  <2> QED BY <2>2, <2>3
<1>4. CASE r # Login!Lazy /\ request[r].stage # "consuming"
  <2> r \in Request
    BY <1>4
  <2>1. Login!Answered(r)
    BY <1>4 DEF Login!Resume
  <2>2. request[r].session \in Nat
    BY <1>1 DEF LoginHandler
  <2>3. request' \in [Request -> LoginHandler] /\ queue' = Tail(queue) /\ issued' = issued
    BY <1>1, <2>1, IdleType DEF Login!Answered
  <2>4. CASE request[r].stage = "opening"
    <3>1. /\ given' = given \union {request[r].session} /\ left' = left
          /\ opened' = [opened EXCEPT ![request[r].window] = @ + 1]
      BY <2>1, <2>4 DEF Login!Answered
    <3>2. opened' \in [Login!Window -> Nat]
      <4> DEFINE w == request[r].window
      <4>1. opened' = [opened EXCEPT ![w] = opened[w] + 1]
        BY <3>1
      <4> HIDE DEF w
      <4>2. CASE w \in Login!Window
        <5>1. opened[w] + 1 \in Nat
          BY <1>1, <4>2
        <5> QED BY <1>1, <4>1, <4>2, <5>1
      <4>3. CASE w \notin Login!Window
        BY <1>1, <4>1, <4>3
      <4> QED BY <4>2, <4>3
    <3> QED BY <1>1, <2>2, <2>3, <3>1, <3>2
  <2>5. CASE request[r].stage # "opening"
    BY <1>1, <2>1, <2>2, <2>3, <2>5 DEF Login!Answered
  <2> QED BY <2>4, <2>5
<1> QED BY <1>2, <1>3, <1>4

LEMMA LoginTypeInit == ASSUME LoginParameters, Login!Init PROVE Login!TypeOK
<1>1. mem \in Login!Access
  BY DEF Login!Init, Login!Access, LoginParameters
<1>2. request \in [Request -> LoginHandler]
  BY IdleType DEF Login!Init
<1>3. now \in Login!Window /\ restarts \in 0 .. MaxRestarts
  BY DEF Login!Init, Login!Window, LoginParameters
<1> QED BY <1>1, <1>2, <1>3 DEF Login!Init, Login!TypeOK, LoginHandler

LEMMA LoginTypeStep ==
    ASSUME LoginParameters, Login!TypeOK, [Login!Next]_(Login!vars)
    PROVE  Login!TypeOK'
<1>t. /\ mem \in Login!Access /\ stored \in Login!Access /\ queue \in Seq(Login!Writing)
      /\ request \in [Request -> LoginHandler] /\ now \in 0 .. MaxWindow
      /\ \A r \in Request : request[r].session \in Nat
  BY DEF Login!TypeOK, LoginHandler, Login!Window
<1>1. ASSUME NEW r \in Request, Login!Verify(r) PROVE Login!TypeOK'
  <2>1. PICK w \in {now, now - 1} \intersect Login!Window :
          /\ mem' = [mem EXCEPT !.consumed = w]
          /\ request' = [request EXCEPT ![r] =
                            [Login!Idle EXCEPT !.stage = "consuming", !.window = w]]
          /\ queue' = Append(queue, Login!Eager(r, mem'))
    BY <1>1 DEF Login!Verify
  <2>2. w \in 0 .. MaxWindow
    BY DEF Login!Window
  <2>3. mem' \in Login!Access
    BY <1>t, <2>1, <2>2, AccessUpdates
  <2>4. queue' \in Seq(Login!Writing)
    BY <1>t, <2>1, <2>3, WritingType, AppendedJob
  <2>5. request' \in [Request -> LoginHandler]
    BY <1>t, <2>1, <2>2 DEF LoginHandler, Login!Stage, Login!Idle
  <2> QED BY <1>1, <2>3, <2>4, <2>5 DEF Login!Verify, Login!TypeOK, LoginHandler,
             Login!History
<1>2. ASSUME NEW r \in Request, Login!Logout(r) PROVE Login!TypeOK'
  <2>1. PICK s \in given :
          /\ mem' = [mem EXCEPT !.revoked = @ \union {s}]
          /\ request' = [request EXCEPT ![r] =
                            [Login!Idle EXCEPT !.stage = "leaving", !.session = s]]
          /\ queue' = Append(queue, Login!Eager(r, mem'))
    BY <1>2 DEF Login!Logout
  <2>2. s \in Nat
    BY DEF Login!TypeOK
  <2>3. mem' \in Login!Access
    BY <1>t, <2>1, <2>2, AccessUpdates
  <2>4. queue' \in Seq(Login!Writing)
    BY <1>t, <2>1, <2>3, WritingType, AppendedJob
  <2>5. request' \in [Request -> LoginHandler]
    BY <1>t, <2>1, <2>2, IdleType DEF LoginHandler, Login!Stage, Login!Idle
  <2> QED BY <1>2, <2>3, <2>4, <2>5 DEF Login!Logout, Login!TypeOK, LoginHandler,
             Login!History
<1>3. CASE Login!ChangeAccount
  <2>1. queue' \in Seq(Login!Writing)
    <3>1. Append(queue, Login!Eager(Login!Lazy, mem)) \in Seq(Login!Writing)
      BY <1>t, WritingType, AppendedJob
    <3>2. queue' = queue \/ queue' = Append(queue, Login!Eager(Login!Lazy, mem))
      BY <1>3, Zenon DEF Login!ChangeAccount, Login!PersistState
    <3> QED BY <1>t, <3>1, <3>2
  <2> QED BY <1>3, <2>1, AccountType DEF Login!ChangeAccount, Login!TypeOK, Login!History
<1>4. CASE Login!Start
  <2>1. queue' \in Seq(Login!Writing)
    <3>1. queue # << >> /\ queue[1] \in Login!Writing /\ queue[1].snap \in Login!Access
      BY <1>t, <1>4, PoppedJob, JobParts DEF Login!Start
    <3> DEFINE snap == IF queue[1].by = Login!Lazy THEN mem ELSE queue[1].snap
               job  == [queue[1] EXCEPT !.started = TRUE, !.snap = snap]
    <3>2. 1 \in DOMAIN queue
      BY <1>t, <3>1, PoppedJob
    <3>3. queue' = [queue EXCEPT ![1] = job]
      BY <1>4, <3>2 DEF Login!Start
    <3>4. snap \in Login!Access
      BY <1>t, <3>1
    <3>5. job \in Login!Writing
      <4> HIDE DEF snap
      <4> QED BY <3>1, <3>4 DEF Login!Writing
    <3> HIDE DEF job
    <3> QED BY <1>t, <3>2, <3>3, <3>5
  <2> QED BY <1>4, <2>1 DEF Login!Start, Login!TypeOK, Login!History
<1>5. CASE Login!Commit
  <2>1. queue # << >> /\ Head(queue) \in Login!Writing
    BY <1>t, <1>5, PoppedJob DEF Login!Commit
  <2>2. Login!Landed(Head(queue)) \in Login!Access /\ Head(queue).by \in Request \union {Login!Lazy}
    BY <1>t, <2>1, LandedType, JobParts
  <2> QED BY <1>5, <2>1, <2>2, ResumeType DEF Login!Commit, Login!TypeOK, LoginHandler
<1>6. CASE Login!Fail
  <2>1. queue # << >> /\ Head(queue) \in Login!Writing /\ Tail(queue) \in Seq(Login!Writing)
    BY <1>t, <1>6, PoppedJob DEF Login!Fail
  <2>2. stored' \in Login!Access
    BY <1>t, <1>6, <2>1, LandedType DEF Login!Fail
  <2>3. request' \in [Request -> LoginHandler]
    BY <1>t, <1>6, IdleType DEF Login!Fail
  <2> QED BY <1>6, <2>1, <2>2, <2>3 DEF Login!Fail, Login!TypeOK, LoginHandler,
             Login!History
<1>7. CASE Login!Restart
  <2>1. \A i \in 1 .. Len(queue) : queue[i] \in Login!Writing
    BY <1>t
  <2>2. stored' \in Login!Access
    BY <1>t, <1>7, <2>1, LandedType DEF Login!Restart
  <2>3. request' \in [Request -> LoginHandler]
    BY <1>7, IdleType DEF Login!Restart
  <2>4. restarts' \in 0 .. MaxRestarts
    BY <1>7 DEF Login!Restart, Login!TypeOK, LoginParameters
  <2> QED BY <1>7, <2>2, <2>3, <2>4 DEF Login!Restart, Login!TypeOK, LoginHandler,
             Login!History
<1>8. CASE Login!NextWindow
  BY <1>8 DEF Login!NextWindow, Login!TypeOK, Login!Window, Login!History, LoginParameters
<1>9. CASE UNCHANGED Login!vars
  BY <1>9 DEF Login!vars, Login!TypeOK
<1> QED BY <1>1, <1>2, <1>3, <1>4, <1>5, <1>6, <1>7, <1>8, <1>9 DEF Login!Next

\* Every variable keeps its type in every step of the handlers, of the queue of writes and
\* of the owner.
THEOREM LoginTypeCorrect == ASSUME LoginParameters PROVE Login!Spec => []Login!TypeOK
BY LoginTypeInit, LoginTypeStep, PTL DEF Login!Spec

-----------------------------------------------------------------------------
(* What was answered holds.  The writes that are their caller's own snapshot*)
(* wait in the order in which the snapshots were taken, so what one of them *)
(* has recorded none behind it takes back; a lazy write takes its snapshot  *)
(* when it starts and leaves the windows of codes alone.                    *)

LoginOwn(job) == job.by # Login!Lazy

\* Snapshots, the memory they were taken of and the store, in the order of their age.
LoginOrdered(q, m, st) ==
    /\ \A i \in DOMAIN q : q[i].started => i = 1
    /\ \A i \in DOMAIN q : LoginOwn(q[i]) =>
          /\ st.consumed <= q[i].snap.consumed
          /\ q[i].snap.consumed <= m.consumed
          /\ q[i].snap.revoked \subseteq m.revoked
    /\ \A i, j \in DOMAIN q : i < j /\ LoginOwn(q[i]) /\ LoginOwn(q[j]) =>
          /\ q[i].snap.consumed <= q[j].snap.consumed
          /\ q[i].snap.revoked \subseteq q[j].snap.revoked
    /\ st.consumed <= m.consumed

\* The snapshot a request waits for has the change it asked for.
LoginCarries(job, handler) ==
    /\ handler.stage # "idle"
    /\ handler.stage = "consuming" => handler.window <= job.snap.consumed
    /\ handler.stage = "leaving" => handler.session \in job.snap.revoked

\* A request waits for one write at a time.
LoginOwned(q, req) ==
    /\ \A i, j \in DOMAIN q : LoginOwn(q[i]) /\ q[i].by = q[j].by => i = j
    /\ \A i \in DOMAIN q : LoginOwn(q[i]) => LoginCarries(q[i], req[q[i].by])

\* A session is revoked in memory, in the store and in every snapshot that may reach the
\* store without being taken again.
LoginEnded(s, q, m, st) ==
    /\ s \in m.revoked /\ s \in st.revoked
    /\ \A i \in DOMAIN q : LoginOwn(q[i]) \/ q[i].started => s \in q[i].snap.revoked

\* A window that is being used has given no token and is used by one request.
LoginCodes ==
    /\ \A r \in Request : Login!Pending(r) =>
          /\ request[r].window \in Login!Window
          /\ request[r].window <= mem.consumed
          /\ opened[request[r].window] = 0
    /\ \A r \in Request : request[r].stage = "opening" =>
          request[r].window <= stored.consumed
    /\ \A r, q \in Request :
          Login!Pending(r) /\ Login!Pending(q) /\ request[r].window = request[q].window => r = q
    /\ Login!CodeOpensOnce /\ Login!GivenIsStored

LoginInv ==
    /\ Login!TypeOK
    /\ LoginOrdered(queue, mem, stored)
    /\ LoginOwned(queue, request)
    /\ \A s \in left : LoginEnded(s, queue, mem, stored)
    /\ LoginCodes

\* What happens to the queue, for each of these.
LEMMA AppendKeeps ==
    ASSUME NEW q \in Seq(Login!Writing), NEW m \in Login!Access, NEW m2 \in Login!Access, NEW st \in Login!Access,
           NEW r \in Request \union {Login!Lazy},
           m.consumed <= m2.consumed, m.revoked \subseteq m2.revoked
    PROVE  /\ LoginOrdered(q, m, st) => LoginOrdered(Append(q, Login!Eager(r, m2)), m2, st)
           /\ \A s : LoginEnded(s, q, m, st) => LoginEnded(s, Append(q, Login!Eager(r, m2)), m2, st)
           /\ \A req, req2 :
                 /\ LoginOwned(q, req)
                 /\ \A p \in Request \ {r} : req2[p] = req[p]
                 /\ \A i \in DOMAIN q : LoginOwn(q[i]) => q[i].by # r
                 /\ r # Login!Lazy => LoginCarries(Login!Eager(r, m2), req2[r])
                 => LoginOwned(Append(q, Login!Eager(r, m2)), req2)
<1> DEFINE job == Login!Eager(r, m2)
           n   == Len(q) + 1
           q2  == Append(q, job)
<1>1. job \in Login!Writing /\ job.by = r /\ job.snap = m2 /\ job.started = FALSE
  BY WritingType DEF Login!Eager
<1> HIDE DEF job
<1>2. /\ DOMAIN q2 = 1 .. n /\ DOMAIN q = 1 .. Len(q) /\ Len(q) \in Nat
      /\ \A i \in DOMAIN q : q2[i] = q[i]
      /\ q2[n] = job
  BY <1>1, AppendedJob
<1> HIDE DEF q2
<1>3. \A i \in DOMAIN q2 : (i \in DOMAIN q /\ q2[i] = q[i]) \/ (i = n /\ q2[i] = job)
  BY <1>2
<1>4. \A i \in DOMAIN q : i < n /\ i \in Nat /\ q[i] \in Login!Writing
  BY <1>2
<1>5. \A a \in Login!Access : a.consumed \in Nat
  BY AccessParts
<1>6. \A i \in DOMAIN q : q[i].snap.consumed \in Nat
  BY <1>4, <1>5, JobParts
<1>7. ASSUME LoginOrdered(q, m, st) PROVE LoginOrdered(q2, m2, st)
  <2>1. \A i \in DOMAIN q2 : q2[i].started => i = 1
    BY <1>1, <1>3, <1>7 DEF LoginOrdered
  <2>2. \A i \in DOMAIN q2 : LoginOwn(q2[i]) =>
          /\ st.consumed <= q2[i].snap.consumed
          /\ q2[i].snap.consumed <= m2.consumed
          /\ q2[i].snap.revoked \subseteq m2.revoked
    BY <1>1, <1>3, <1>5, <1>6, <1>7 DEF LoginOrdered
  <2>3. ASSUME NEW i \in DOMAIN q2, NEW j \in DOMAIN q2, i < j, LoginOwn(q2[i]), LoginOwn(q2[j])
        PROVE  /\ q2[i].snap.consumed <= q2[j].snap.consumed
               /\ q2[i].snap.revoked \subseteq q2[j].snap.revoked
    <3>1. i \in DOMAIN q /\ q2[i] = q[i]
      BY <1>2, <1>3, <2>3
    <3>2. CASE j \in DOMAIN q /\ q2[j] = q[j]
      BY <1>7, <2>3, <3>1, <3>2 DEF LoginOrdered
    <3>3. CASE q2[j] = job
      BY <1>1, <2>2, <2>3, <3>3
    <3> QED BY <1>3, <3>2, <3>3
  <2>4. st.consumed <= m2.consumed
    BY <1>5, <1>7 DEF LoginOrdered
  <2> QED BY <2>1, <2>2, <2>3, <2>4 DEF LoginOrdered
<1>8. ASSUME NEW s, LoginEnded(s, q, m, st) PROVE LoginEnded(s, q2, m2, st)
  BY <1>1, <1>3, <1>8 DEF LoginEnded
<1>9. ASSUME NEW req, NEW req2, LoginOwned(q, req),
             \A p \in Request \ {r} : req2[p] = req[p],
             \A i \in DOMAIN q : LoginOwn(q[i]) => q[i].by # r,
             r # Login!Lazy => LoginCarries(job, req2[r])
      PROVE  LoginOwned(q2, req2)
  <2>1. ASSUME NEW i \in DOMAIN q2, NEW j \in DOMAIN q2, LoginOwn(q2[i]), q2[i].by = q2[j].by
        PROVE  i = j
    BY <1>1, <1>3, <1>9, <2>1 DEF LoginOwned, LoginOwn
  <2>2. ASSUME NEW i \in DOMAIN q2, LoginOwn(q2[i])
        PROVE  LoginCarries(q2[i], req2[q2[i].by])
    <3>1. CASE i \in DOMAIN q /\ q2[i] = q[i]
      <4>1. q[i].by \in Request \ {r}
        BY <1>4, <1>9, <2>2, <3>1, JobParts DEF LoginOwn
      <4> QED BY <1>9, <2>2, <3>1, <4>1 DEF LoginOwned
    <3>2. CASE q2[i] = job
      BY <1>1, <1>9, <2>2, <3>2 DEF LoginOwn
    <3> QED BY <1>3, <3>1, <3>2
  <2> QED BY <2>1, <2>2 DEF LoginOwned
<1> QED BY <1>7, <1>8, <1>9 DEF q2, job

LEMMA TailKeeps ==
    ASSUME NEW q \in Seq(Login!Writing), q # << >>,
           NEW m \in Login!Access, NEW st \in Login!Access, NEW st2 \in Login!Access,
           LoginOrdered(q, m, st), st2.consumed <= m.consumed,
           \A i \in DOMAIN q : i # 1 /\ LoginOwn(q[i]) => st2.consumed <= q[i].snap.consumed
    PROVE  /\ LoginOrdered(Tail(q), m, st2)
           /\ \A s : LoginEnded(s, q, m, st) /\ s \in st2.revoked => LoginEnded(s, Tail(q), m, st2)
           /\ \A req, req2 :
                 /\ LoginOwned(q, req)
                 /\ \A p \in Request \ {q[1].by} : req2[p] = req[p]
                 => /\ LoginOwned(Tail(q), req2)
                    /\ \A i \in DOMAIN Tail(q) : LoginOwn(Tail(q)[i]) => Tail(q)[i].by # q[1].by
<1> DEFINE q2 == Tail(q)
<1>1. \A i \in DOMAIN q2 :
         i + 1 \in DOMAIN q /\ q2[i] = q[i + 1] /\ i \in Nat /\ i + 1 # 1 /\ q2[i] \in Login!Writing
  <2>1. \A i \in DOMAIN q2 : i \in Nat \ {0}
    BY PoppedJob
  <2> QED BY <2>1, PoppedJob
<1>2. 1 \in DOMAIN q
  BY PoppedJob
<1> HIDE DEF q2
<1>3. LoginOrdered(q2, m, st2)
  <2>1. \A i \in DOMAIN q2 : ~q2[i].started
    BY <1>1 DEF LoginOrdered
  <2>2. \A i \in DOMAIN q2 : LoginOwn(q2[i]) =>
          /\ st2.consumed <= q2[i].snap.consumed
          /\ q2[i].snap.consumed <= m.consumed
          /\ q2[i].snap.revoked \subseteq m.revoked
    BY <1>1 DEF LoginOrdered
  <2>3. ASSUME NEW i \in DOMAIN q2, NEW j \in DOMAIN q2, i < j, LoginOwn(q2[i]), LoginOwn(q2[j])
        PROVE  /\ q2[i].snap.consumed <= q2[j].snap.consumed
               /\ q2[i].snap.revoked \subseteq q2[j].snap.revoked
    <3>1. i + 1 < j + 1
      BY <1>1, <2>3
    <3> QED BY <1>1, <2>3, <3>1 DEF LoginOrdered
  <2> QED BY <2>1, <2>2, <2>3 DEF LoginOrdered
<1>4. ASSUME NEW s, LoginEnded(s, q, m, st), s \in st2.revoked PROVE LoginEnded(s, q2, m, st2)
  BY <1>1, <1>4 DEF LoginEnded
<1>5. ASSUME NEW req, NEW req2, LoginOwned(q, req),
             \A p \in Request \ {q[1].by} : req2[p] = req[p]
      PROVE  /\ LoginOwned(q2, req2)
             /\ \A i \in DOMAIN q2 : LoginOwn(q2[i]) => q2[i].by # q[1].by
  <2>1. \A i \in DOMAIN q2 : LoginOwn(q2[i]) => q2[i].by # q[1].by
    BY <1>1, <1>2, <1>5 DEF LoginOwned
  <2>2. ASSUME NEW i \in DOMAIN q2, NEW j \in DOMAIN q2, LoginOwn(q2[i]), q2[i].by = q2[j].by
        PROVE  i = j
    <3>1. i + 1 = j + 1
      BY <1>1, <1>5, <2>2 DEF LoginOwned
    <3> QED BY <1>1, <3>1
  <2>3. ASSUME NEW i \in DOMAIN q2, LoginOwn(q2[i]) PROVE LoginCarries(q2[i], req2[q2[i].by])
    <3>1. q2[i].by \in Request \ {q[1].by}
      BY <1>1, <2>1, <2>3, JobParts DEF LoginOwn
    <3>2. LoginCarries(q2[i], req[q2[i].by])
      BY <1>1, <1>5, <2>3 DEF LoginOwned
    <3> QED BY <1>5, <3>1, <3>2
  <2> QED BY <2>1, <2>2, <2>3 DEF LoginOwned
<1> QED BY <1>3, <1>4, <1>5 DEF q2

LEMMA StartKeeps ==
    ASSUME NEW q \in Seq(Login!Writing), q # << >>, NEW m \in Login!Access, NEW st \in Login!Access,
           NEW job \in Login!Writing, job.by = q[1].by,
           job.snap = IF q[1].by = Login!Lazy THEN m ELSE q[1].snap
    PROVE  LET q2 == [q EXCEPT ![1] = job]
           IN  /\ LoginOrdered(q, m, st) => LoginOrdered(q2, m, st)
               /\ \A s : LoginEnded(s, q, m, st) => LoginEnded(s, q2, m, st)
               /\ \A req : LoginOwned(q, req) => LoginOwned(q2, req)
<1> DEFINE q2 == [q EXCEPT ![1] = job]
<1>1. DOMAIN q2 = DOMAIN q /\ 1 \in DOMAIN q /\ q2[1] = job
  BY PoppedJob
<1>2. \A i \in DOMAIN q : i # 1 => q2[i] = q[i]
  OBVIOUS
<1> HIDE DEF q2
<1>3. \A i \in DOMAIN q : q2[i].by = q[i].by /\ (LoginOwn(q[i]) => q2[i].snap = q[i].snap)
  BY <1>1, <1>2 DEF LoginOwn
<1>4. \A i \in DOMAIN q : LoginOwn(q2[i]) <=> LoginOwn(q[i])
  BY <1>3 DEF LoginOwn
<1>5. ASSUME LoginOrdered(q, m, st) PROVE LoginOrdered(q2, m, st)
  <2>1. \A i \in DOMAIN q2 : q2[i].started => i = 1
    BY <1>1, <1>2, <1>5 DEF LoginOrdered
  <2> QED BY <1>1, <1>3, <1>4, <1>5, <2>1, Zenon DEF LoginOrdered
<1>6. ASSUME NEW s, LoginEnded(s, q, m, st) PROVE LoginEnded(s, q2, m, st)
  <2>1. ASSUME NEW i \in DOMAIN q2, LoginOwn(q2[i]) \/ q2[i].started
        PROVE  s \in q2[i].snap.revoked
    <3>1. CASE i = 1 /\ q[1].by = Login!Lazy
      BY <1>1, <1>6, <3>1 DEF LoginEnded
    <3>2. CASE i = 1 /\ q[1].by # Login!Lazy
      BY <1>1, <1>6, <3>2 DEF LoginEnded, LoginOwn
    <3>3. CASE i # 1
      BY <1>1, <1>2, <1>6, <2>1, <3>3 DEF LoginEnded
    <3> QED BY <3>1, <3>2, <3>3
  <2> QED BY <1>6, <2>1 DEF LoginEnded
<1>7. ASSUME NEW req, LoginOwned(q, req) PROVE LoginOwned(q2, req)
  BY <1>1, <1>3, <1>4, <1>7, Zenon DEF LoginOwned, LoginCarries
<1> QED BY <1>5, <1>6, <1>7 DEF q2

\* What the write that is under way may leave in the store.
LEMMA LandedKeeps ==
    ASSUME Login!TypeOK, LoginOrdered(queue, mem, stored), NEW i \in DOMAIN queue, queue[i].started
    PROVE  /\ i = 1 /\ queue # << >> /\ Head(queue) = queue[i]
           /\ Login!Landed(queue[i]) \in Login!Access
           /\ stored.consumed <= Login!Landed(queue[i]).consumed
           /\ Login!Landed(queue[i]).consumed <= mem.consumed
           /\ \A j \in DOMAIN queue :
                 j # 1 /\ LoginOwn(queue[j]) => Login!Landed(queue[i]).consumed <= queue[j].snap.consumed
           /\ \A s : LoginEnded(s, queue, mem, stored) => s \in Login!Landed(queue[i]).revoked
<1>1. /\ queue \in Seq(Login!Writing) /\ stored \in Login!Access /\ mem \in Login!Access
      /\ \A j \in DOMAIN queue : queue[j] \in Login!Writing /\ j \in Nat \ {0}
  BY DEF Login!TypeOK
<1>2. i = 1 /\ queue # << >>
  BY <1>1 DEF LoginOrdered
<1>3. Head(queue) = queue[i]
  BY <1>1, <1>2, PoppedJob
<1>4. /\ Login!Landed(queue[i]) \in Login!Access
      /\ Login!Landed(queue[i]).revoked = queue[i].snap.revoked
      /\ Login!Landed(queue[i]).consumed = IF queue[i].by = Login!Lazy THEN stored.consumed
                                           ELSE queue[i].snap.consumed
  BY <1>1, LandedType
<1>5. stored.consumed \in Nat /\ mem.consumed \in Nat
  BY <1>1, AccessParts
<1>6. /\ stored.consumed <= Login!Landed(queue[i]).consumed
      /\ Login!Landed(queue[i]).consumed <= mem.consumed
  BY <1>4, <1>5 DEF LoginOrdered, LoginOwn
<1>7. ASSUME NEW j \in DOMAIN queue, j # 1, LoginOwn(queue[j])
      PROVE  Login!Landed(queue[i]).consumed <= queue[j].snap.consumed
  <2>1. i < j
    BY <1>1, <1>2, <1>7
  <2>2. CASE LoginOwn(queue[i])
    BY <1>4, <1>7, <2>1, <2>2 DEF LoginOrdered, LoginOwn
  <2>3. CASE ~LoginOwn(queue[i])
    BY <1>4, <1>7, <2>3 DEF LoginOrdered, LoginOwn
  <2> QED BY <2>2, <2>3
<1>8. \A s : LoginEnded(s, queue, mem, stored) => s \in Login!Landed(queue[i]).revoked
  BY <1>4 DEF LoginEnded
<1> QED BY <1>2, <1>3, <1>4, <1>6, <1>7, <1>8

\* A step that gives no token and starts no use of a code.
LEMMA CodesKept ==
    ASSUME Login!TypeOK, Login!TypeOK', LoginCodes, opened' = opened,
           mem.consumed <= mem'.consumed, stored.consumed <= stored'.consumed,
           \A r \in Request : Login!Pending(r)' =>
              Login!Pending(r) /\ request'[r].window = request[r].window,
           \A r \in Request : request'[r].stage = "opening" =>
              request'[r].window <= stored'.consumed
    PROVE  LoginCodes'
<1>1. /\ mem.consumed \in Nat /\ mem'.consumed \in Nat
      /\ stored.consumed \in Nat /\ stored'.consumed \in Nat
  BY AccessParts DEF Login!TypeOK
<1>2. \A w \in Login!Window : w \in Nat
  BY DEF Login!Window
<1>3. \A r \in Request : Login!Pending(r)' =>
          /\ request'[r].window \in Login!Window
          /\ request'[r].window <= mem'.consumed
          /\ opened'[request'[r].window] = 0
  BY <1>1, <1>2 DEF LoginCodes
<1>4. \A r, q \in Request :
          Login!Pending(r)' /\ Login!Pending(q)' /\ request'[r].window = request'[q].window => r = q
  BY DEF LoginCodes
<1>5. Login!CodeOpensOnce'
  BY DEF LoginCodes, Login!CodeOpensOnce
<1>6. Login!GivenIsStored'
  BY <1>1, <1>2 DEF LoginCodes, Login!GivenIsStored
<1> QED BY <1>3, <1>4, <1>5, <1>6 DEF LoginCodes

\* A snapshot of what is in memory already.
LEMMA SnapshotQueued ==
    ASSUME NEW q \in Seq(Login!Writing), NEW m \in Login!Access, NEW st \in Login!Access,
           NEW r \in Request \union {Login!Lazy}
    PROVE  /\ LoginOrdered(q, m, st) => LoginOrdered(Append(q, Login!Eager(r, m)), m, st)
           /\ \A s : LoginEnded(s, q, m, st) => LoginEnded(s, Append(q, Login!Eager(r, m)), m, st)
           /\ \A req, req2 :
                 /\ LoginOwned(q, req)
                 /\ \A p \in Request \ {r} : req2[p] = req[p]
                 /\ \A i \in DOMAIN q : LoginOwn(q[i]) => q[i].by # r
                 /\ r # Login!Lazy => LoginCarries(Login!Eager(r, m), req2[r])
                 => LoginOwned(Append(q, Login!Eager(r, m)), req2)
<1>1. m.consumed <= m.consumed /\ m.revoked \subseteq m.revoked
  BY AccessParts
<1> QED BY <1>1, AppendKeeps

\* A change that is made in memory and then waits for its own write.
LEMMA ChangeQueued ==
    ASSUME LoginInv, NEW r \in Request, mem' \in Login!Access,
           queue' = Append(queue, Login!Eager(r, mem')),
           stored' = stored, left' = left,
           mem.consumed <= mem'.consumed, mem.revoked \subseteq mem'.revoked,
           \A p \in Request \ {r} : request'[p] = request[p],
           \A i \in DOMAIN queue : LoginOwn(queue[i]) => queue[i].by # r,
           LoginCarries(Login!Eager(r, mem'), request'[r])
    PROVE  /\ LoginOrdered(queue', mem', stored')
           /\ \A s \in left' : LoginEnded(s, queue', mem', stored')
           /\ LoginOwned(queue', request')
<1>1. queue \in Seq(Login!Writing) /\ mem \in Login!Access /\ stored \in Login!Access
  BY DEF LoginInv, Login!TypeOK
<1> DEFINE q2 == Append(queue, Login!Eager(r, mem'))
<1>2. /\ LoginOrdered(queue, mem, stored) => LoginOrdered(q2, mem', stored)
      /\ \A s : LoginEnded(s, queue, mem, stored) => LoginEnded(s, q2, mem', stored)
      /\ \A req, req2 :
            /\ LoginOwned(queue, req)
            /\ \A p \in Request \ {r} : req2[p] = req[p]
            /\ \A i \in DOMAIN queue : LoginOwn(queue[i]) => queue[i].by # r
            /\ r # Login!Lazy => LoginCarries(Login!Eager(r, mem'), req2[r])
            => LoginOwned(q2, req2)
  BY <1>1, AppendKeeps
<1> HIDE DEF q2
<1>3. LoginOrdered(q2, mem', stored)
  BY <1>2 DEF LoginInv
<1>4. \A s \in left : LoginEnded(s, q2, mem', stored)
  BY <1>2 DEF LoginInv
<1>5. LoginOwned(q2, request')
  BY <1>2, Zenon DEF LoginInv
<1>6. queue' = q2
  BY DEF q2
<1> QED BY <1>3, <1>4, <1>5, <1>6

LEMMA VerifyKeeps ==
    ASSUME LoginParameters, LoginInv, Login!TypeOK', NEW r \in Request, Login!Verify(r)
    PROVE  LoginInv'
<1>1. PICK w \in {now, now - 1} \intersect Login!Window :
        /\ w > mem.consumed
        /\ mem' = [mem EXCEPT !.consumed = w]
        /\ request' = [request EXCEPT ![r] =
                          [Login!Idle EXCEPT !.stage = "consuming", !.window = w]]
        /\ queue' = Append(queue, Login!Eager(r, mem'))
  BY DEF Login!Verify
<1>2. /\ stored' = stored /\ left' = left /\ opened' = opened
      /\ request[r].stage = "idle"
  BY DEF Login!Verify, Login!History
<1>3. /\ queue \in Seq(Login!Writing) /\ mem \in Login!Access /\ mem' \in Login!Access /\ stored \in Login!Access
      /\ request \in [Request -> LoginHandler] /\ opened \in [Login!Window -> Nat]
      /\ w \in 0 .. MaxWindow
  BY DEF LoginInv, Login!TypeOK, LoginHandler, Login!Window
<1>4. mem'.consumed = w /\ mem'.revoked = mem.revoked
  BY <1>1, <1>3, AccessUpdates, Zenon
<1>5. mem.consumed \in Nat /\ stored.consumed \in Nat /\ mem.consumed < w
  BY <1>1, <1>3, AccessParts
<1>6. /\ request'[r].stage = "consuming" /\ request'[r].window = w
      /\ \A p \in Request \ {r} : request'[p] = request[p]
  BY <1>1, <1>3 DEF Login!Idle, LoginHandler
<1>7. \A i \in DOMAIN queue : LoginOwn(queue[i]) => queue[i].by # r
  BY <1>2 DEF LoginInv, LoginOwned, LoginCarries
<1>8. LoginCarries(Login!Eager(r, mem'), request'[r])
  BY <1>3, <1>4, <1>6 DEF LoginCarries, Login!Eager
<1>9. /\ LoginOrdered(queue', mem', stored')
      /\ \A s \in left' : LoginEnded(s, queue', mem', stored')
      /\ LoginOwned(queue', request')
  <2>1. mem.consumed <= mem'.consumed /\ mem.revoked \subseteq mem'.revoked
    BY <1>3, <1>4, <1>5
  <2> QED BY <1>1, <1>2, <1>3, <1>6, <1>7, <1>8, <2>1, ChangeQueued, Zenon
<1>10. LoginCodes'
  <2>1. opened[w] = 0
    <3>1. ~(opened[w] > 0)
      BY <1>1, <1>3, <1>5 DEF LoginInv, LoginOrdered, LoginCodes, Login!GivenIsStored
    <3> QED BY <1>1, <1>3, <3>1
  <2>2. ASSUME NEW p \in Request, p # r, Login!Pending(p)'
        PROVE  /\ Login!Pending(p) /\ request'[p] = request[p]
               /\ request[p].window \in Nat /\ request[p].window <= mem.consumed
    BY <1>6, <2>2 DEF LoginInv, LoginCodes, Login!Pending, Login!Window
  <2>3. \A p \in Request : Login!Pending(p)' =>
          /\ request'[p].window \in Login!Window
          /\ request'[p].window <= mem'.consumed
          /\ opened'[request'[p].window] = 0
    <3>1. r \in Request /\ request'[r].window \in Login!Window
      BY <1>1, <1>6
    <3>2. ASSUME NEW p \in Request, p # r, Login!Pending(p)'
          PROVE  /\ request'[p].window \in Login!Window
                 /\ request'[p].window <= mem'.consumed
                 /\ opened'[request'[p].window] = 0
      BY <1>2, <1>3, <1>4, <1>5, <2>2, <3>2 DEF LoginInv, LoginCodes
    <3> QED BY <1>2, <1>3, <1>4, <1>6, <2>1, <3>1, <3>2
  <2>4. \A p \in Request : request'[p].stage = "opening" =>
          request'[p].window <= stored'.consumed
    BY <1>2, <1>6 DEF LoginInv, LoginCodes
  <2>5. \A p \in Request : Login!Pending(p)' /\ p # r => request'[p].window # request'[r].window
    BY <1>3, <1>5, <1>6, <2>2
  <2>6. \A p, q \in Request :
          Login!Pending(p)' /\ Login!Pending(q)' /\ request'[p].window = request'[q].window => p = q
    BY <1>6, <2>2, <2>5 DEF LoginInv, LoginCodes
  <2>7. Login!CodeOpensOnce' /\ Login!GivenIsStored'
    BY <1>2 DEF LoginInv, LoginCodes, Login!CodeOpensOnce, Login!GivenIsStored
  <2> QED BY <2>3, <2>4, <2>6, <2>7 DEF LoginCodes
<1> QED BY <1>9, <1>10 DEF LoginInv

LEMMA LogoutKeeps ==
    ASSUME LoginParameters, LoginInv, Login!TypeOK', NEW r \in Request, Login!Logout(r)
    PROVE  LoginInv'
<1>1. PICK s \in given :
        /\ mem' = [mem EXCEPT !.revoked = @ \union {s}]
        /\ request' = [request EXCEPT ![r] =
                          [Login!Idle EXCEPT !.stage = "leaving", !.session = s]]
        /\ queue' = Append(queue, Login!Eager(r, mem'))
  BY DEF Login!Logout
<1>2. /\ stored' = stored /\ left' = left /\ opened' = opened
      /\ request[r].stage = "idle"
  BY DEF Login!Logout, Login!History
<1>3. /\ queue \in Seq(Login!Writing) /\ mem \in Login!Access /\ mem' \in Login!Access /\ stored \in Login!Access
      /\ request \in [Request -> LoginHandler] /\ s \in Nat
  BY DEF LoginInv, Login!TypeOK, LoginHandler
<1>4. mem'.consumed = mem.consumed /\ mem'.revoked = mem.revoked \union {s}
  BY <1>1, <1>3, AccessUpdates, Zenon
<1>5. mem.consumed \in Nat /\ stored.consumed \in Nat
  BY <1>3, AccessParts
<1>6. /\ request'[r].stage = "leaving" /\ request'[r].session = s
      /\ \A p \in Request \ {r} : request'[p] = request[p]
  BY <1>1, <1>3 DEF Login!Idle, LoginHandler
<1>7. \A i \in DOMAIN queue : LoginOwn(queue[i]) => queue[i].by # r
  BY <1>2 DEF LoginInv, LoginOwned, LoginCarries
<1>8. LoginCarries(Login!Eager(r, mem'), request'[r])
  BY <1>3, <1>4, <1>6 DEF LoginCarries, Login!Eager
<1>9. /\ LoginOrdered(queue', mem', stored')
      /\ \A x \in left' : LoginEnded(x, queue', mem', stored')
      /\ LoginOwned(queue', request')
  <2>1. mem.consumed <= mem'.consumed /\ mem.revoked \subseteq mem'.revoked
    BY <1>3, <1>4, <1>5
  <2> QED BY <1>1, <1>2, <1>3, <1>6, <1>7, <1>8, <2>1, ChangeQueued, Zenon
<1>10. LoginCodes'
  <2>1. \A p \in Request : Login!Pending(p)' => Login!Pending(p) /\ request'[p].window = request[p].window
    BY <1>6 DEF Login!Pending
  <2>2. \A p \in Request : request'[p].stage = "opening" =>
          request'[p].window <= stored'.consumed
    BY <1>2, <1>6 DEF LoginInv, LoginCodes
  <2> QED BY <1>2, <1>4, <1>5, <2>1, <2>2, CodesKept DEF LoginInv
<1> QED BY <1>9, <1>10 DEF LoginInv

LEMMA AccountKeeps ==
    ASSUME LoginParameters, LoginInv, Login!TypeOK', Login!ChangeAccount
    PROVE  LoginInv'
<1>1. /\ stored' = stored /\ left' = left /\ opened' = opened /\ request' = request
      /\ Login!PersistState
  BY DEF Login!ChangeAccount, Login!History
<1>2. mem' \in Login!Access /\ mem'.consumed = mem.consumed /\ mem'.revoked = mem.revoked
  BY AccountType DEF LoginInv
<1>3. /\ queue \in Seq(Login!Writing) /\ mem \in Login!Access /\ stored \in Login!Access
      /\ mem.consumed \in Nat /\ stored.consumed \in Nat
  BY AccessParts DEF LoginInv, Login!TypeOK
<1>4. LoginCodes'
  BY <1>1, <1>2, <1>3, CodesKept DEF LoginInv, LoginCodes, Login!Pending
<1>5. CASE queue' = queue
  BY <1>1, <1>2, <1>4, <1>5, Zenon DEF LoginInv, LoginOrdered, LoginEnded
<1>6. CASE queue' = Append(queue, Login!Eager(Login!Lazy, mem))
  <2>1. /\ LoginOrdered(queue', mem, stored)
        /\ \A s \in left : LoginEnded(s, queue', mem, stored)
        /\ LoginOwned(queue', request)
    <3>1. mem.consumed <= mem.consumed
      BY <1>3
    <3> QED BY <1>3, <1>6, <3>1, AppendKeeps DEF LoginInv, LoginOwn
  <2> QED BY <1>1, <1>2, <1>4, <2>1, Zenon DEF LoginInv, LoginOrdered, LoginEnded
<1> QED BY <1>1, <1>5, <1>6, Zenon DEF Login!PersistState

LEMMA StartKeepsInv ==
    ASSUME LoginParameters, LoginInv, Login!TypeOK', Login!Start
    PROVE  LoginInv'
<1>1. /\ queue \in Seq(Login!Writing) /\ mem \in Login!Access /\ stored \in Login!Access /\ queue # << >>
      /\ mem.consumed \in Nat /\ stored.consumed \in Nat
  BY AccessParts DEF LoginInv, Login!TypeOK, Login!Start
<1>2. 1 \in DOMAIN queue /\ queue[1] \in Login!Writing
  BY <1>1, PoppedJob
<1> DEFINE snap == IF queue[1].by = Login!Lazy THEN mem ELSE queue[1].snap
           job  == [queue[1] EXCEPT !.started = TRUE, !.snap = snap]
<1>3. queue' = [queue EXCEPT ![1] = job]
  BY <1>2 DEF Login!Start
<1>4. /\ mem' = mem /\ stored' = stored /\ left' = left /\ opened' = opened
      /\ request' = request
  BY DEF Login!Start, Login!History
<1>5. job \in Login!Writing /\ job.by = queue[1].by /\ job.snap = snap
  <2>1. snap \in Login!Access
    BY <1>1, <1>2, JobParts
  <2> HIDE DEF snap
  <2> QED BY <1>2, <2>1 DEF Login!Writing
<1> HIDE DEF job
<1>6. /\ LoginOrdered(queue', mem, stored)
      /\ \A s \in left : LoginEnded(s, queue', mem, stored)
      /\ LoginOwned(queue', request)
  BY <1>1, <1>3, <1>5, StartKeeps DEF LoginInv
<1>7. LoginCodes'
  BY <1>1, <1>4, CodesKept DEF LoginInv, LoginCodes, Login!Pending
<1> QED BY <1>4, <1>6, <1>7 DEF LoginInv

\* The end of the first write: what is in the store is what it was or what was written.
LoginWriteEnds ==
    /\ queue # << >> /\ Head(queue).started
    /\ stored' \in {stored, Login!Landed(Head(queue))}
    /\ mem' = mem

LEMMA StoredKept ==
    ASSUME LoginInv, LoginWriteEnds
    PROVE  /\ stored' \in Login!Access
           /\ stored.consumed <= stored'.consumed /\ stored'.consumed <= mem.consumed
           /\ \A j \in DOMAIN queue :
                 j # 1 /\ LoginOwn(queue[j]) => stored'.consumed <= queue[j].snap.consumed
           /\ \A s \in left : s \in stored'.revoked
           /\ 1 \in DOMAIN queue /\ Head(queue) = queue[1] /\ queue[1].started
<1>1. /\ queue \in Seq(Login!Writing) /\ queue # << >> /\ stored \in Login!Access /\ mem \in Login!Access
      /\ stored.consumed \in Nat
  BY AccessParts DEF LoginInv, Login!TypeOK, LoginWriteEnds
<1>2. 1 \in DOMAIN queue /\ Head(queue) = queue[1] /\ queue[1].started
  BY <1>1, PoppedJob DEF LoginWriteEnds
<1>3. CASE stored' = Login!Landed(queue[1])
  BY <1>2, <1>3, LandedKeeps DEF LoginInv
<1>4. CASE stored' = stored
  BY <1>1, <1>2, <1>4 DEF LoginInv, LoginOrdered, LoginEnded
<1> QED BY <1>2, <1>3, <1>4 DEF LoginWriteEnds

\* The queue without the write that has ended.
LEMMA PoppedKeeps ==
    ASSUME LoginInv, LoginWriteEnds
    PROVE  /\ LoginOrdered(Tail(queue), mem, stored')
           /\ \A s \in left : LoginEnded(s, Tail(queue), mem, stored')
           /\ \A s : LoginEnded(s, queue, mem, stored) /\ s \in stored'.revoked =>
                        LoginEnded(s, Tail(queue), mem, stored')
           /\ \A req \in [Request -> LoginHandler] :
                 (\A p \in Request \ {queue[1].by} : req[p] = request[p])
                 => /\ LoginOwned(Tail(queue), req)
                    /\ \A i \in DOMAIN Tail(queue) :
                          LoginOwn(Tail(queue)[i]) => Tail(queue)[i].by # queue[1].by
<1>1. /\ queue \in Seq(Login!Writing) /\ queue # << >> /\ stored \in Login!Access /\ mem \in Login!Access
      /\ stored' \in Login!Access
  BY StoredKept DEF LoginInv, Login!TypeOK, LoginWriteEnds
<1>2. /\ LoginOrdered(Tail(queue), mem, stored')
      /\ \A s : LoginEnded(s, queue, mem, stored) /\ s \in stored'.revoked =>
                   LoginEnded(s, Tail(queue), mem, stored')
      /\ \A req, req2 :
            /\ LoginOwned(queue, req)
            /\ \A p \in Request \ {queue[1].by} : req2[p] = req[p]
            => /\ LoginOwned(Tail(queue), req2)
               /\ \A i \in DOMAIN Tail(queue) :
                     LoginOwn(Tail(queue)[i]) => Tail(queue)[i].by # queue[1].by
  BY <1>1, StoredKept, TailKeeps DEF LoginInv
<1>3. \A s \in left : LoginEnded(s, Tail(queue), mem, stored')
  BY <1>2, StoredKept DEF LoginInv
<1> QED BY <1>2, <1>3, Zenon DEF LoginInv

\* The write's caller is answered, or there is none.
LEMMA AnsweredKeeps ==
    ASSUME LoginParameters, LoginInv, Login!TypeOK', LoginWriteEnds, queue' = Tail(queue),
           \A p \in Request : request'[p] = request[p] \/ request'[p] = Login!Idle,
           \A p \in Request \ {queue[1].by} : request'[p] = request[p]
    PROVE  /\ LoginOrdered(queue', mem', stored')
           /\ \A s \in left : LoginEnded(s, queue', mem', stored')
           /\ LoginOwned(queue', request')
           /\ opened' = opened => LoginCodes'
<1>1. mem' = mem /\ stored.consumed <= stored'.consumed
  BY StoredKept DEF LoginWriteEnds
<1>2. request' \in [Request -> LoginHandler]
  BY DEF Login!TypeOK, LoginHandler
<1>3. /\ LoginOrdered(queue', mem', stored')
      /\ \A s \in left : LoginEnded(s, queue', mem', stored')
      /\ LoginOwned(queue', request')
  BY <1>1, <1>2, PoppedKeeps
<1>4. ASSUME opened' = opened PROVE LoginCodes'
  <2>1. mem.consumed \in Nat /\ stored.consumed \in Nat /\ stored'.consumed \in Nat
    BY AccessParts DEF LoginInv, Login!TypeOK
  <2>2. \A p \in Request : Login!Pending(p)' => Login!Pending(p) /\ request'[p].window = request[p].window
    BY DEF Login!Pending, Login!Idle
  <2>3. \A p \in Request : request'[p].stage = "opening" =>
          request'[p].window <= stored.consumed
    BY DEF LoginInv, LoginCodes, Login!Idle
  <2>4. \A p \in Request : request'[p].window \in Nat
    BY <1>2 DEF LoginHandler
  <2>5. \A p \in Request : request'[p].stage = "opening" =>
          request'[p].window <= stored'.consumed
    BY <1>1, <2>1, <2>3, <2>4
  <2> QED BY <1>1, <1>4, <2>1, <2>2, <2>5, CodesKept DEF LoginInv
<1> QED BY <1>3, <1>4

LEMMA FailKeeps ==
    ASSUME LoginParameters, LoginInv, Login!TypeOK', Login!Fail
    PROVE  LoginInv'
<1>1. /\ LoginWriteEnds /\ left' = left /\ opened' = opened /\ queue' = Tail(queue)
      /\ request' = [r \in Request |-> IF r = Head(queue).by THEN Login!Idle ELSE request[r]]
  BY DEF Login!Fail, LoginWriteEnds, Login!History
<1>2. Head(queue) = queue[1]
  BY <1>1, StoredKept
<1>3. /\ \A p \in Request : request'[p] = request[p] \/ request'[p] = Login!Idle
      /\ \A p \in Request \ {queue[1].by} : request'[p] = request[p]
  BY <1>1, <1>2
<1> QED BY <1>1, <1>3, AnsweredKeeps DEF LoginInv

\* The first write of a login has ended: what it consumed is stored.
LEMMA OpensKeeps ==
    ASSUME LoginParameters, LoginInv, Login!TypeOK', LoginWriteEnds, NEW r \in Request, queue[1].by = r,
           stored' = Login!Landed(queue[1]), request[r].stage = "consuming", Login!Opens(r)
    PROVE  LoginInv'
<1>1. /\ queue \in Seq(Login!Writing) /\ queue # << >> /\ 1 \in DOMAIN queue
      /\ queue[1] \in Login!Writing /\ Tail(queue) \in Seq(Login!Writing)
      /\ mem \in Login!Access /\ stored \in Login!Access /\ stored' \in Login!Access
      /\ request \in [Request -> LoginHandler] /\ request' \in [Request -> LoginHandler]
      /\ mem' = mem /\ stored.consumed <= stored'.consumed
  BY PoppedJob, StoredKept DEF LoginInv, Login!TypeOK, LoginWriteEnds, LoginHandler
<1>2. CASE ~mem.active
  <2>1. /\ queue' = Tail(queue) /\ left' = left /\ opened' = opened
        /\ request' = [request EXCEPT ![r] = Login!Idle]
    BY <1>2 DEF Login!Opens, Login!History
  <2>2. /\ \A p \in Request : request'[p] = request[p] \/ request'[p] = Login!Idle
        /\ \A p \in Request \ {queue[1].by} : request'[p] = request[p]
    BY <1>1, <2>1
  <2> QED BY <2>1, <2>2, AnsweredKeeps DEF LoginInv
<1>3. CASE mem.active
  <2>1. /\ queue' = Append(Tail(queue), Login!Eager(r, mem)) /\ left' = left /\ opened' = opened
        /\ request' = [request EXCEPT ![r].stage = "opening", ![r].session = issued']
    BY <1>3 DEF Login!Opens
  <2>2. /\ \A p \in Request \ {r} : request'[p] = request[p]
        /\ request'[r].stage = "opening" /\ request'[r].window = request[r].window
    BY <1>1, <2>1 DEF LoginHandler
  <2>3. request[r].window <= stored'.consumed
    <3>1. request[r].window <= queue[1].snap.consumed
      BY <1>1, Zenon DEF LoginInv, LoginOwned, LoginCarries, LoginOwn, LoginParameters
    <3>2. stored'.consumed = queue[1].snap.consumed
      BY <1>1, LandedType DEF LoginParameters
    <3> QED BY <3>1, <3>2
  <2>4. /\ LoginOrdered(Tail(queue), mem, stored')
        /\ \A s \in left : LoginEnded(s, Tail(queue), mem, stored')
        /\ LoginOwned(Tail(queue), request)
        /\ \A i \in DOMAIN Tail(queue) : LoginOwn(Tail(queue)[i]) => Tail(queue)[i].by # r
    BY <1>1, PoppedKeeps
  <2>5. LoginCarries(Login!Eager(r, mem), request'[r])
    BY <2>2 DEF LoginCarries
  <2>6. /\ LoginOrdered(queue', mem, stored')
        /\ \A s \in left : LoginEnded(s, queue', mem, stored')
        /\ LoginOwned(queue', request')
    <3> DEFINE q == Tail(queue)
    <3>t. /\ q \in Seq(Login!Writing) /\ r \in Request \union {Login!Lazy}
          /\ mem \in Login!Access /\ stored' \in Login!Access
      BY <1>1
    <3> HIDE DEF q
    <3>2. /\ LoginOrdered(q, mem, stored') => LoginOrdered(Append(q, Login!Eager(r, mem)), mem, stored')
          /\ \A s : LoginEnded(s, q, mem, stored') =>
                       LoginEnded(s, Append(q, Login!Eager(r, mem)), mem, stored')
          /\ \A req, req2 :
                /\ LoginOwned(q, req)
                /\ \A p \in Request \ {r} : req2[p] = req[p]
                /\ \A i \in DOMAIN q : LoginOwn(q[i]) => q[i].by # r
                /\ r # Login!Lazy => LoginCarries(Login!Eager(r, mem), req2[r])
                => LoginOwned(Append(q, Login!Eager(r, mem)), req2)
      BY <3>t, SnapshotQueued
    <3>3. LoginOwned(Append(q, Login!Eager(r, mem)), request')
      BY <2>2, <2>4, <2>5, <3>2, Zenon DEF q
    <3> QED BY <2>1, <2>4, <3>2, <3>3 DEF q
  <2>7. LoginCodes'
    <3>1. \A p \in Request : Login!Pending(p)' => Login!Pending(p) /\ request'[p].window = request[p].window
      BY <2>2 DEF Login!Pending
    <3>2. ASSUME NEW p \in Request, request'[p].stage = "opening"
          PROVE  request'[p].window <= stored'.consumed
      <4>1. CASE p = r
        BY <2>2, <2>3, <4>1
      <4>2. CASE p # r
        <5>1. request'[p].window <= stored.consumed
          BY <2>2, <3>2, <4>2 DEF LoginInv, LoginCodes
        <5>2. request'[p].window \in Nat /\ stored.consumed \in Nat /\ stored'.consumed \in Nat
          BY <1>1, AccessParts DEF LoginHandler
        <5> QED BY <1>1, <5>1, <5>2
      <4> QED BY <4>1, <4>2
    <3>3. mem.consumed <= mem'.consumed
      BY <1>1, AccessParts
    <3> QED BY <1>1, <2>1, <3>1, <3>2, <3>3, CodesKept DEF LoginInv
  <2> QED BY <1>1, <2>1, <2>6, <2>7 DEF LoginInv
<1> QED BY <1>2, <1>3

\* The second write of a login, or the write of a logout, has ended.
LEMMA AnswerKeeps ==
    ASSUME LoginParameters, LoginInv, Login!TypeOK', LoginWriteEnds, NEW r \in Request, queue[1].by = r,
           stored' = Login!Landed(queue[1]), request[r].stage # "consuming", Login!Answered(r)
    PROVE  LoginInv'
<1>1. /\ queue \in Seq(Login!Writing) /\ queue # << >> /\ 1 \in DOMAIN queue
      /\ queue[1] \in Login!Writing
      /\ mem \in Login!Access /\ stored \in Login!Access /\ stored' \in Login!Access
      /\ request \in [Request -> LoginHandler]
      /\ mem' = mem /\ stored.consumed <= stored'.consumed
      /\ opened \in [Login!Window -> Nat]
  BY PoppedJob, StoredKept DEF LoginInv, Login!TypeOK, LoginWriteEnds, LoginHandler
<1>2. /\ queue' = Tail(queue)
      /\ request' = [request EXCEPT ![r] = Login!Idle]
  BY DEF Login!Answered
<1>3. /\ \A p \in Request : request'[p] = request[p] \/ request'[p] = Login!Idle
      /\ \A p \in Request \ {queue[1].by} : request'[p] = request[p]
      /\ request'[r] = Login!Idle
  BY <1>1, <1>2
<1>4. /\ LoginOrdered(queue', mem', stored')
      /\ \A s \in left : LoginEnded(s, queue', mem', stored')
      /\ LoginOwned(queue', request')
      /\ opened' = opened => LoginCodes'
  BY <1>2, <1>3, AnsweredKeeps
<1>5. CASE request[r].stage = "opening"
  <2> DEFINE w == request[r].window
  <2>1. left' = left /\ opened' = [opened EXCEPT ![w] = opened[w] + 1]
    BY <1>5 DEF Login!Answered
  <2>2. /\ w \in Login!Window /\ opened[w] = 0 /\ w <= stored.consumed
        /\ \A p \in Request : p # r /\ Login!Pending(p) => request[p].window # w
    BY <1>5 DEF LoginInv, LoginCodes, Login!Pending
  <2> HIDE DEF w
  <2>3. opened'[w] = 1 /\ \A v \in Login!Window : v # w => opened'[v] = opened[v]
    BY <1>1, <2>1, <2>2
  <2>4. \A p \in Request : Login!Pending(p)' =>
          p # r /\ Login!Pending(p) /\ request'[p].window = request[p].window
    BY <1>3 DEF Login!Pending, Login!Idle
  <2>5. \A p \in Request : Login!Pending(p)' =>
          /\ request'[p].window \in Login!Window
          /\ request'[p].window <= mem'.consumed
          /\ opened'[request'[p].window] = 0
    BY <1>1, <2>2, <2>3, <2>4 DEF LoginInv, LoginCodes
  <2>6. stored.consumed \in Nat /\ stored'.consumed \in Nat /\ \A v \in Login!Window : v \in Nat
    BY <1>1, AccessParts DEF Login!Window
  <2>7. ASSUME NEW p \in Request, request'[p].stage = "opening"
        PROVE  request'[p].window <= stored'.consumed
    <3>1. Login!Pending(p)'
      BY <2>7 DEF Login!Pending
    <3>2. request'[p].window \in Login!Window
      BY <2>5, <3>1
    <3>3. request'[p].window <= stored.consumed
      BY <1>3, <2>4, <2>7, <3>1 DEF LoginInv, LoginCodes
    <3> QED BY <1>1, <2>6, <3>2, <3>3
  <2>8. \A p, q \in Request :
          Login!Pending(p)' /\ Login!Pending(q)' /\ request'[p].window = request'[q].window => p = q
    BY <2>4 DEF LoginInv, LoginCodes
  <2>9. Login!CodeOpensOnce' /\ Login!GivenIsStored'
    <3>1. ASSUME NEW v \in Login!Window PROVE opened'[v] <= 1 /\ (opened'[v] > 0 => stored'.consumed >= v)
      <4>1. CASE v = w
        BY <1>1, <2>2, <2>3, <2>6, <4>1
      <4>2. CASE v # w
        BY <1>1, <2>3, <2>6, <4>2 DEF LoginInv, LoginCodes, Login!CodeOpensOnce,
           Login!GivenIsStored
      <4> QED BY <4>1, <4>2
    <3> QED BY <3>1 DEF Login!CodeOpensOnce, Login!GivenIsStored
  <2> QED BY <1>4, <2>1, <2>5, <2>7, <2>8, <2>9 DEF LoginInv, LoginCodes
<1>6. CASE request[r].stage # "opening"
  <2>1. opened' = opened /\ left' = left \union {request[r].session}
    BY <1>6 DEF Login!Answered
  <2>2. request[r].stage = "leaving" /\ request[r].session \in queue[1].snap.revoked
    <3>1. LoginCarries(queue[1], request[r])
      BY <1>1, Zenon DEF LoginInv, LoginOwned, LoginOwn, LoginParameters
    <3>2. request[r].stage \in Login!Stage
      BY <1>1 DEF LoginHandler
    <3> QED BY <1>6, <3>1, <3>2 DEF LoginCarries, Login!Stage
  <2>3. stored'.revoked = queue[1].snap.revoked
    BY <1>1, LandedType
  <2>4. LoginEnded(request[r].session, queue', mem', stored')
    <3> DEFINE s == request[r].session
    <3>1. s \in mem.revoked /\ s \in stored'.revoked
      BY <1>1, <2>2, <2>3, Zenon DEF LoginInv, LoginOrdered, LoginOwn, LoginParameters
    <3>2. ASSUME NEW i \in DOMAIN Tail(queue),
                 LoginOwn(Tail(queue)[i]) \/ Tail(queue)[i].started
          PROVE  s \in Tail(queue)[i].snap.revoked
      <4>1. i + 1 \in DOMAIN queue /\ Tail(queue)[i] = queue[i + 1] /\ i \in Nat \ {0}
        BY <1>1, PoppedJob
      <4>2. LoginOwn(queue[1]) /\ LoginOwn(queue[i + 1]) /\ 1 < i + 1
        BY <3>2, <4>1 DEF LoginInv, LoginOrdered, LoginOwn, LoginParameters
      <4>3. queue[1].snap.revoked \subseteq queue[i + 1].snap.revoked
        BY <1>1, <4>1, <4>2 DEF LoginInv, LoginOrdered
      <4> QED BY <2>2, <4>1, <4>3
    <3> QED BY <1>1, <1>2, <3>1, <3>2 DEF LoginEnded
  <2> QED BY <1>4, <2>1, <2>4 DEF LoginInv
<1> QED BY <1>5, <1>6

LEMMA CommitKeeps ==
    ASSUME LoginParameters, LoginInv, Login!TypeOK', Login!Commit
    PROVE  LoginInv'
<1>1. /\ LoginWriteEnds /\ stored' = Login!Landed(Head(queue)) /\ Login!Resume(Head(queue).by)
  BY DEF Login!Commit, LoginWriteEnds
<1>2. Head(queue) = queue[1] /\ queue[1] \in Login!Writing
  BY <1>1, StoredKept, PoppedJob DEF LoginInv, Login!TypeOK, LoginWriteEnds
<1>3. CASE queue[1].by = Login!Lazy
  <2>1. /\ queue' = Tail(queue) /\ request' = request /\ left' = left /\ opened' = opened
    BY <1>1, <1>2, <1>3 DEF Login!Resume, Login!History
  <2> QED BY <1>1, <2>1, AnsweredKeeps DEF LoginInv
<1>4. CASE queue[1].by # Login!Lazy
  <2>1. queue[1].by \in Request
    BY <1>2, <1>4, JobParts
  <2>2. CASE request[queue[1].by].stage = "consuming"
    BY <1>1, <1>2, <1>4, <2>1, <2>2, OpensKeeps DEF Login!Resume
  <2>3. CASE request[queue[1].by].stage # "consuming"
    BY <1>1, <1>2, <1>4, <2>1, <2>3, AnswerKeeps DEF Login!Resume
  <2> QED BY <2>2, <2>3
<1> QED BY <1>3, <1>4

LEMMA LoginRestartKeeps ==
    ASSUME LoginParameters, LoginInv, Login!TypeOK', Login!Restart
    PROVE  LoginInv'
<1>1. /\ mem' = stored' /\ queue' = << >> /\ left' = left /\ opened' = opened
      /\ request' = [r \in Request |-> Login!Idle]
  BY DEF Login!Restart, Login!History
<1>2. /\ stored.consumed <= stored'.consumed /\ stored'.consumed \in Nat
      /\ stored.consumed \in Nat
      /\ \A s \in left : s \in stored'.revoked
  <2>1. stored \in Login!Access /\ stored' \in Login!Access /\ queue \in Seq(Login!Writing)
    BY DEF LoginInv, Login!TypeOK
  <2>2. CASE stored' = stored
    BY <2>1, <2>2, AccessParts DEF LoginInv, LoginEnded
  <2>3. CASE stored' # stored
    <3>1. PICK i \in DOMAIN queue : queue[i].started /\ stored' = Login!Landed(queue[i])
      BY <2>1, <2>3 DEF Login!Restart
    <3> QED BY <2>1, <3>1, LandedKeeps, AccessParts DEF LoginInv
  <2> QED BY <2>2, <2>3
<1>3. LoginOrdered(queue', mem', stored') /\ LoginOwned(queue', request')
  BY <1>1, <1>2 DEF LoginOrdered, LoginOwned
<1>4. \A s \in left' : LoginEnded(s, queue', mem', stored')
  BY <1>1, <1>2 DEF LoginEnded
<1>5. \A p \in Request : request'[p].stage = "idle" /\ ~Login!Pending(p)'
  BY <1>1 DEF Login!Idle, Login!Pending
<1>6. Login!CodeOpensOnce' /\ Login!GivenIsStored'
  BY <1>1, <1>2 DEF LoginInv, LoginCodes, Login!CodeOpensOnce, Login!GivenIsStored,
     Login!Window
<1> QED BY <1>3, <1>4, <1>5, <1>6 DEF LoginInv, LoginCodes

LEMMA LoginInit == ASSUME LoginParameters PROVE Login!Init => LoginInv
<1> SUFFICES ASSUME Login!Init PROVE LoginInv
  OBVIOUS
<1>1. queue = << >> /\ left = {} /\ stored = mem /\ mem.consumed = 0
  BY DEF Login!Init
<1>2. \A r \in Request : request[r].stage = "idle" /\ ~Login!Pending(r)
  BY DEF Login!Init, Login!Idle, Login!Pending
<1>3. Login!CodeOpensOnce /\ Login!GivenIsStored
  BY DEF Login!Init, Login!CodeOpensOnce, Login!GivenIsStored
<1>4. LoginOrdered(queue, mem, stored) /\ LoginOwned(queue, request)
  BY <1>1 DEF LoginOrdered, LoginOwned
<1> QED BY <1>1, <1>2, <1>3, <1>4, LoginTypeInit DEF LoginInv, LoginCodes

LEMMA LoginStep ==
    ASSUME LoginParameters
    PROVE  LoginInv /\ [Login!Next]_(Login!vars) => LoginInv'
<1> SUFFICES ASSUME LoginInv, [Login!Next]_(Login!vars) PROVE LoginInv'
  OBVIOUS
<1>1. Login!TypeOK'
  BY LoginTypeStep DEF LoginInv
<1>2. CASE Login!NextWindow \/ UNCHANGED Login!vars
  <2>1. /\ mem' = mem /\ stored' = stored /\ queue' = queue /\ request' = request
        /\ left' = left /\ opened' = opened
    BY <1>2 DEF Login!NextWindow, Login!vars, Login!History
  <2> QED BY <1>1, <2>1, Zenon
          DEF LoginInv, LoginCodes, Login!Pending, Login!CodeOpensOnce, Login!GivenIsStored
<1> QED BY <1>1, <1>2, VerifyKeeps, LogoutKeeps, AccountKeeps, StartKeepsInv, CommitKeeps,
           FailKeeps, LoginRestartKeeps DEF Login!Next

LEMMA LoginImplies == ASSUME LoginParameters PROVE LoginInv => Login!AnswersHold
<1> SUFFICES ASSUME LoginInv PROVE Login!AnswersHold
  OBVIOUS
<1>1. Login!LogoutHolds
  BY DEF LoginInv, LoginEnded, Login!LogoutHolds, Login!Accepted
<1> QED BY <1>1 DEF LoginInv, LoginCodes, Login!AnswersHold

\* What a login or a logout was answered holds: a code gives one token, a session that was
\* left is never accepted again, and no restart makes a code valid again - for every
\* number of requests, every length of the queue of writes, and writes that fail after they
\* were carried out.
THEOREM LoginAnswersHeld == ASSUME LoginParameters PROVE Login!Spec => []Login!AnswersHold
BY LoginInit, LoginStep, LoginImplies, PTL DEF Login!Spec

-----------------------------------------------------------------------------
(* The requests to the AI provider (AiEngine).                             *)

AiParameters ==
    /\ Limit \in Nat /\ Threshold \in Nat /\ Cooldown \in Nat
    /\ MaxDays \in Nat /\ MaxRestarts \in Nat
    /\ IsFiniteSet(Caller)

AiCall    == [key : SUBSET CacheKey, overnight : BOOLEAN]
AiBreaker == [open : BOOLEAN, failures : 0 .. Threshold, left : 0 .. Cooldown]

-----------------------------------------------------------------------------
(* Lemmas about the definitions the steps are built from.                   *)

LEMMA ClosedType == ASSUME AiParameters PROVE Ai!Closed \in AiBreaker
BY DEF AiParameters, Ai!Closed, AiBreaker

LEMMA AskedType == ASSUME AiParameters, Ai!TypeOK PROVE Ai!Asked \in AiBreaker
BY ClosedType DEF Ai!TypeOK, Ai!Asked, AiBreaker

LEMMA FailedType == ASSUME AiParameters, Ai!TypeOK PROVE Ai!Failed \in AiBreaker
<1> DEFINE n == IF breaker.failures < Threshold THEN breaker.failures + 1 ELSE Threshold
<1>1. breaker \in AiBreaker
  BY DEF Ai!TypeOK, AiBreaker
<1>2. n \in 0 .. Threshold
  BY <1>1 DEF AiBreaker, AiParameters
<1>3. [open |-> TRUE, failures |-> n, left |-> Cooldown] \in AiBreaker
  BY <1>2 DEF AiBreaker, AiParameters
<1>4. [breaker EXCEPT !.failures = n] \in AiBreaker
  BY <1>1, <1>2 DEF AiBreaker
<1> HIDE DEF n
<1> QED BY <1>3, <1>4, Zenon DEF Ai!Failed, n

LEMMA NoneType == Ai!None \in [Caller -> AiCall]
BY DEF Ai!None, Ai!Idle, AiCall

LEMMA DatedType == ASSUME Ai!TypeOK, NEW d \in Caller PROVE Ai!Dated(d) \in AiCall
<1>1. call[d] \in AiCall
  BY DEF Ai!TypeOK, AiCall
<1>2. (call[d].overnight \/ (Ai!Busy(d) /\ midnight)) \in BOOLEAN
  OBVIOUS
<1>3. \A b \in BOOLEAN : [call[d] EXCEPT !.overnight = b] \in AiCall
  BY <1>1 DEF AiCall
<1> QED BY <1>2, <1>3, Zenon DEF Ai!Dated

\* What the guard leaves is within the limit.
LEMMA GuardedType ==
    ASSUME AiParameters, Ai!TypeOK, NEW n \in 0 .. Limit, Ai!Guarded(n)
    PROVE  /\ used' \in 0 .. Limit /\ saved' \in 0 .. Limit /\ writes' \subseteq 0 .. Limit
           /\ midnight' \in BOOLEAN /\ answered' \in Nat /\ uncounted' \in Nat
<1>1. CASE midnight
  <2>1. used' = n /\ saved' = 0 /\ answered' = 0 /\ uncounted' = 0 /\ midnight' = FALSE
    BY <1>1 DEF Ai!Guarded
  <2>2. 0 \in 0 .. Limit
    BY DEF AiParameters
  <2>3. writes' = {0, n}
    BY <1>1 DEF Ai!Guarded
  <2>4. writes' \subseteq 0 .. Limit
    BY <2>2, <2>3
  <2> QED BY <2>1, <2>2, <2>4
<1>2. CASE ~midnight
  BY <1>2 DEF AiParameters, Ai!TypeOK, Ai!Guarded, Ai!SaveUsage
<1> QED BY <1>1, <1>2

LEMMA ReleaseType ==
    ASSUME AiParameters, Ai!TypeOK, NEW c \in Caller, Ai!Release(c)
    PROVE  used' \in 0 .. Limit /\ writes' \subseteq 0 .. Limit /\ uncounted' \in Nat
BY DEF AiParameters, Ai!TypeOK, Ai!Release, Ai!SaveUsage

\* Cardinality in the instance is Cardinality.
LEMMA AiCardinality ==
    Ai!Today = Cardinality(Ai!Charged) /\ Ai!Today' = Cardinality(Ai!Charged')
BY DEF Ai!Today, Cardinality, IsFiniteSet, Ai!Cardinality, Ai!IsFiniteSet

\* The executions charged to the day are finitely many.
LEMMA ChargedFinite ==
    ASSUME AiParameters
    PROVE  IsFiniteSet(Ai!Charged) /\ Ai!Today \in Nat
BY AiCardinality, FS_Subset, FS_CardinalityType DEF AiParameters, Ai!Charged

\* The end of an execution takes one away, if it was charged to this day.
LEMMA EndLeavesDay ==
    ASSUME AiParameters, Ai!TypeOK, NEW c \in Caller, Ai!Busy(c), call' = [call EXCEPT ![c] = Ai!Idle]
    PROVE  Ai!Today' = IF call[c].overnight THEN Ai!Today ELSE Ai!Today - 1
<1>1. Ai!Charged' = Ai!Charged \ {c}
  BY DEF Ai!TypeOK, Ai!Charged, Ai!Busy, Ai!Idle
<1>2. c \in Ai!Charged <=> ~call[c].overnight
  BY DEF Ai!Charged
<1> QED BY <1>1, <1>2, ChargedFinite, AiCardinality, FS_RemoveElement

\* A request that has reached the guard leaves those charged to the present day.
LEMMA GuardKeepsDay ==
    ASSUME AiParameters, Ai!TypeOK, NEW S \in SUBSET Caller, \A d \in S : ~Ai!Busy(d),
           \A d \in Caller : call'[d] = IF d \in S THEN call'[d] ELSE Ai!Dated(d),
           \A d \in S : call'[d].key # {} /\ ~call'[d].overnight
    PROVE  Ai!Charged' = IF midnight THEN S ELSE Ai!Charged \union S
<1>1. \A d \in Caller \ S :
         /\ call'[d].key = call[d].key
         /\ call'[d].overnight = (call[d].overnight \/ (Ai!Busy(d) /\ midnight))
  <2> TAKE d \in Caller \ S
  <2>1. call[d] \in AiCall
    BY DEF Ai!TypeOK, AiCall
  <2>2. call'[d] = Ai!Dated(d)
    OBVIOUS
  <2> QED BY <2>1, <2>2 DEF Ai!Dated, AiCall
<1>2. \A d \in Caller \ S : d \in Ai!Charged' <=> (d \in Ai!Charged /\ ~midnight)
  BY <1>1, Zenon DEF Ai!Charged, Ai!Busy
<1>3. \A d \in S : d \in Ai!Charged'
  BY Zenon DEF Ai!Charged, Ai!Busy
<1>4. Ai!Charged' \subseteq Caller /\ Ai!Charged \subseteq Caller
  BY DEF Ai!Charged
<1> QED BY <1>2, <1>3, <1>4

-----------------------------------------------------------------------------
(* Type correctness.                                                        *)

LEMMA AiTypeInit == ASSUME AiParameters PROVE Ai!Init => Ai!TypeOK
<1> SUFFICES ASSUME Ai!Init PROVE Ai!TypeOK
  OBVIOUS
<1>1. call \in [Caller -> AiCall] /\ breaker \in AiBreaker
  BY NoneType, ClosedType DEF Ai!Init
<1>2. \A n \in {Limit, MaxDays, MaxRestarts} : 0 \in 0 .. n
  BY DEF AiParameters
<1> QED BY <1>1, <1>2 DEF Ai!Init, Ai!TypeOK, AiCall, AiBreaker

LEMMA AiTypeStep == ASSUME AiParameters PROVE Ai!TypeOK /\ [Ai!Next]_(Ai!vars) => Ai!TypeOK'
<1> SUFFICES ASSUME Ai!TypeOK, [Ai!Next]_(Ai!vars) PROVE Ai!TypeOK'
  OBVIOUS
<1>1. ASSUME NEW c \in Caller, NEW k \in CacheKey, Ai!Begin(c, k) PROVE Ai!TypeOK'
  <2>1. Ai!Counted + 1 \in 0 .. Limit
    BY <1>1 DEF Ai!Begin, Ai!Counted, Ai!TypeOK, AiParameters
  <2>2. call' \in [Caller -> AiCall]
    BY <1>1, DatedType DEF Ai!Begin, AiCall
  <2>3. breaker' \in AiBreaker
    BY <1>1, AskedType DEF Ai!Begin
  <2> QED BY <1>1, <2>1, <2>2, <2>3, GuardedType DEF Ai!Begin, Ai!TypeOK, AiCall,
             AiBreaker
<1>2. ASSUME NEW k \in CacheKey, Ai!GuardBlocks(k) PROVE Ai!TypeOK'
  <2>1. call' \in [Caller -> AiCall]
    BY <1>2, DatedType DEF Ai!GuardBlocks
  <2>2. breaker' \in AiBreaker
    BY <1>2, AskedType DEF Ai!GuardBlocks
  <2>3. CASE midnight
    <3>1. Ai!Guarded(0) /\ 0 \in 0 .. Limit
      BY <1>2, <2>3 DEF Ai!GuardBlocks, AiParameters
    <3> QED BY <1>2, <2>1, <2>2, <3>1, GuardedType DEF Ai!GuardBlocks, Ai!TypeOK, AiCall,
               AiBreaker
  <2>4. CASE ~midnight
    BY <1>2, <2>1, <2>2, <2>4 DEF Ai!GuardBlocks, Ai!TypeOK, AiCall, AiBreaker, Ai!budget
  <2> QED BY <2>3, <2>4
<1>3. ASSUME NEW c \in Caller, Ai!Succeed(c) PROVE Ai!TypeOK'
  <2>1. call[c].key \subseteq CacheKey
    BY DEF Ai!TypeOK
  <2>2. breaker' \in AiBreaker
    BY <1>3, ClosedType DEF Ai!Succeed
  <2>3. call' \in [Caller -> AiCall]
    BY <1>3 DEF Ai!Succeed, Ai!TypeOK, Ai!Idle, AiCall
  <2> QED BY <1>3, <2>1, <2>2, <2>3 DEF Ai!Succeed, Ai!TypeOK, AiCall, AiBreaker
<1>4. ASSUME NEW c \in Caller, Ai!Fail(c) PROVE Ai!TypeOK'
  <2>1. breaker' \in AiBreaker
    BY <1>4, FailedType DEF Ai!Fail
  <2>2. call' \in [Caller -> AiCall]
    BY <1>4 DEF Ai!Fail, Ai!TypeOK, Ai!Idle, AiCall
  <2> QED BY <1>4, <2>1, <2>2, ReleaseType DEF Ai!Fail, Ai!TypeOK, AiCall, AiBreaker
<1>5. ASSUME NEW k \in CacheKey, Ai!TurnedAway(k) PROVE Ai!TypeOK'
  BY <1>5 DEF Ai!TurnedAway, Ai!TypeOK, Ai!vars, Ai!budget
<1>6. ASSUME NEW k \in CacheKey, Ai!Expire(k) PROVE Ai!TypeOK'
  BY <1>6 DEF Ai!Expire, Ai!TypeOK, Ai!budget
<1>7. CASE Ai!Look
  BY <1>7, AskedType DEF Ai!Look, Ai!TypeOK, Ai!budget, AiBreaker
<1>8. CASE Ai!Tick
  BY <1>8 DEF Ai!Tick, Ai!TypeOK, Ai!budget, AiParameters
<1>9. CASE Ai!Settle
  BY <1>9 DEF Ai!Settle, Ai!TypeOK
<1>10. CASE Ai!DayChanges
  BY <1>10 DEF Ai!DayChanges, Ai!TypeOK, AiParameters
<1>11. CASE Ai!Restart
  <2>1. breaker' \in AiBreaker /\ call' \in [Caller -> AiCall]
    BY <1>11, ClosedType, NoneType DEF Ai!Restart
  <2>2. used' \in 0 .. Limit /\ saved' \in 0 .. Limit
    BY <1>11 DEF Ai!Restart, Ai!TypeOK, AiParameters
  <2>3. answered' \in Nat /\ uncounted' \in Nat
    <3>1. Ai!Today \in Nat /\ answered \in Nat
      BY ChargedFinite DEF Ai!TypeOK
    <3>2. PICK n \in writes \union {saved} :
            /\ answered' = IF midnight THEN 0 ELSE answered + Ai!Today
            /\ uncounted' = IF (IF midnight THEN 0 ELSE answered + Ai!Today)
                                 > (IF midnight THEN 0 ELSE n)
                            THEN (IF midnight THEN 0 ELSE answered + Ai!Today)
                                 - (IF midnight THEN 0 ELSE n)
                            ELSE 0
      BY <1>11, Zenon DEF Ai!Restart
    <3>3. n \in Nat
      BY DEF Ai!TypeOK, AiParameters
    <3> QED BY <3>1, <3>2, <3>3
  <2>4. restarts' \in 0 .. MaxRestarts
    BY <1>11 DEF Ai!Restart, Ai!TypeOK, AiParameters
  <2> QED BY <1>11, <2>1, <2>2, <2>3, <2>4 DEF Ai!Restart, Ai!TypeOK, AiCall, AiBreaker
<1>12. CASE UNCHANGED Ai!vars
  BY <1>12 DEF Ai!TypeOK, Ai!vars, Ai!budget
<1> QED
  BY <1>1, <1>2, <1>3, <1>4, <1>5, <1>6, <1>7, <1>8, <1>9, <1>10, <1>11, <1>12
  DEF Ai!Next, Ai!Step

\* Calls, counts and the breaker keep their types, through failures that arrive late, a day
\* that ends under a request, and restarts that read an older count.
THEOREM AiTypeCorrect == ASSUME AiParameters PROVE Ai!Spec => []Ai!TypeOK
BY AiTypeInit, AiTypeStep, PTL DEF Ai!Spec

-----------------------------------------------------------------------------
(* The budget.  What the provider has answered or may still answer for this *)
(* day is in the count, or among the charges that the count has lost; the   *)
(* count itself never exceeds the limit.                                    *)

AiCovered == answered + Ai!Today <= used + uncounted

AiInv == Ai!TypeOK /\ AiCovered

LEMMA AiInit == ASSUME AiParameters PROVE Ai!Init => AiInv
<1> SUFFICES ASSUME Ai!Init PROVE AiInv
  OBVIOUS
<1>1. Ai!Charged = {}
  BY DEF Ai!Init, Ai!None, Ai!Idle, Ai!Charged, Ai!Busy
<1>2. AiCovered
  BY <1>1, FS_EmptySet, AiCardinality DEF Ai!Init, AiCovered
<1> QED BY <1>2, AiTypeInit DEF AiInv

LEMMA AiStep == ASSUME AiParameters PROVE AiInv /\ [Ai!Next]_(Ai!vars) => AiInv'
<1> SUFFICES ASSUME Ai!TypeOK, AiCovered, [Ai!Next]_(Ai!vars) PROVE AiCovered'
  BY AiTypeStep DEF AiInv
<1> USE DEF AiCovered
<1>t. /\ Ai!Today \in Nat /\ IsFiniteSet(Ai!Charged)
      /\ answered \in Nat /\ uncounted \in Nat /\ used \in Nat
  BY ChargedFinite DEF Ai!TypeOK, AiParameters
<1>1. ASSUME NEW c \in Caller, NEW k \in CacheKey, Ai!Begin(c, k) PROVE AiCovered'
  <2>1. Ai!Charged' = IF midnight THEN {c} ELSE Ai!Charged \union {c}
    <3> DEFINE S == {c}
    <3>1. S \in SUBSET Caller /\ \A d \in S : ~Ai!Busy(d)
      BY <1>1 DEF Ai!Begin
    <3>2. \A d \in Caller : call'[d] = IF d \in S THEN call'[d] ELSE Ai!Dated(d)
      BY <1>1 DEF Ai!Begin
    <3>3. \A d \in S : call'[d].key # {} /\ ~call'[d].overnight
      BY <1>1 DEF Ai!Begin
    <3> HIDE DEF S
    <3>4. Ai!Charged' = IF midnight THEN S ELSE Ai!Charged \union S
      BY <3>1, <3>2, <3>3, GuardKeepsDay
    <3> QED BY <3>4 DEF S
  <2>2. c \notin Ai!Charged
    BY <1>1 DEF Ai!Begin, Ai!Charged
  <2>3. Ai!Today' = IF midnight THEN 1 ELSE Ai!Today + 1
    BY <2>1, <2>2, <1>t, FS_Singleton, FS_AddElement, AiCardinality
  <2> QED BY <1>1, <1>t, <2>3 DEF Ai!Begin, Ai!Guarded, Ai!Counted
<1>2. ASSUME NEW k \in CacheKey, Ai!GuardBlocks(k) PROVE AiCovered'
  <2>1. Ai!Charged' = IF midnight THEN {} ELSE Ai!Charged
    <3> DEFINE S == {}
    <3>1. \A d \in Caller : call'[d] = IF d \in S THEN call'[d] ELSE Ai!Dated(d)
      BY <1>2 DEF Ai!GuardBlocks
    <3>2. S \in SUBSET Caller /\ \A d \in S : FALSE
      OBVIOUS
    <3> HIDE DEF S
    <3>3. Ai!Charged' = IF midnight THEN S ELSE Ai!Charged \union S
      BY <3>1, <3>2, GuardKeepsDay
    <3> QED BY <3>3 DEF S
  <2>2. Ai!Today' = IF midnight THEN 0 ELSE Ai!Today
    BY <2>1, FS_EmptySet, AiCardinality
  <2> QED BY <1>2, <1>t, <2>2 DEF Ai!GuardBlocks, Ai!Guarded, Ai!budget
<1>3. ASSUME NEW c \in Caller, Ai!Succeed(c) PROVE AiCovered'
  <2>1. Ai!Today' = IF call[c].overnight THEN Ai!Today ELSE Ai!Today - 1
    BY <1>3, EndLeavesDay DEF Ai!Succeed
  <2> QED BY <1>3, <1>t, <2>1 DEF Ai!Succeed
<1>4. ASSUME NEW c \in Caller, Ai!Fail(c) PROVE AiCovered'
  <2>1. Ai!Today' = IF call[c].overnight THEN Ai!Today ELSE Ai!Today - 1
    BY <1>4, EndLeavesDay DEF Ai!Fail
  <2> QED BY <1>4, <1>t, <2>1 DEF Ai!Fail, Ai!Release
<1>5. ASSUME UNCHANGED call, UNCHANGED <<used, answered, uncounted>> PROVE AiCovered'
  BY <1>5 DEF Ai!Today, Ai!Charged, Ai!Busy
<1>6. CASE Ai!Restart
  <2>1. Ai!Charged' = {}
    BY <1>6 DEF Ai!Restart, Ai!None, Ai!Idle, Ai!Charged, Ai!Busy
  <2>2. Ai!Today' = 0
    BY <2>1, FS_EmptySet, AiCardinality
  <2>3. PICK n \in writes \union {saved} :
          /\ used' = IF midnight THEN 0 ELSE n
          /\ answered' = IF midnight THEN 0 ELSE answered + Ai!Today
          /\ uncounted' = IF (IF midnight THEN 0 ELSE answered + Ai!Today)
                               > (IF midnight THEN 0 ELSE n)
                          THEN (IF midnight THEN 0 ELSE answered + Ai!Today)
                               - (IF midnight THEN 0 ELSE n)
                          ELSE 0
    BY <1>6, Zenon DEF Ai!Restart
  <2>4. n \in Nat
    BY DEF Ai!TypeOK, AiParameters
  <2> QED BY <1>t, <2>2, <2>3, <2>4
<1> QED
  BY <1>1, <1>2, <1>3, <1>4, <1>5, <1>6
  DEF Ai!Next, Ai!Step, Ai!TurnedAway, Ai!Expire, Ai!Look, Ai!Tick, Ai!Settle, Ai!DayChanges, Ai!vars, Ai!budget

LEMMA AiImplies == ASSUME AiParameters PROVE AiInv => Ai!BudgetHeld
BY ChargedFinite DEF AiInv, Ai!TypeOK, AiCovered, Ai!BudgetHeld, AiParameters

\* For every number of callers, every limit and every order of successes, failures and
\* midnights, a day's answers and charges exceed the limit by the lost charges at most.
THEOREM AiWithinBudget == ASSUME AiParameters PROVE Ai!Spec => []Ai!BudgetHeld
BY AiInit, AiStep, AiImplies, PTL DEF Ai!Spec

-----------------------------------------------------------------------------
(* The credentials of a platform (TokenRenewal).                           *)

TokenParameters ==
    /\ Life \in Nat /\ Lead \in Nat /\ MaxWait \in Nat
    /\ Limit \in Nat \ {0}

\* There is never more than one set of credentials, no call asks with none, and one that
\* has not been overtaken asks with those that are held.
TokenHeld ==
    /\ \A t, u \in link.held : t = u
    /\ \A c \in Token!Asker :
          /\ call[c].stage \in {"asking", "proving"} => call[c].with # {}
          /\ call[c].stage = "asking" /\ ~call[c].late => call[c].with = link.held

TokenInv == Token!TypeOK /\ TokenHeld /\ Token!LinkIsWhole

\* Retiring credentials keeps whose they are, and makes none good.
LEMMA TokenRetired ==
    ASSUME NEW set \in SUBSET Token!Credentials, NEW accounts
    PROVE  /\ Token!Retired(set, accounts) \in SUBSET Token!Credentials
           /\ Token!Owner(Token!Retired(set, accounts)) = Token!Owner(set)
           /\ Token!Retired(set, accounts) = {} <=> set = {}
           /\ \A t \in Token!Retired(set, accounts) :
                 \E u \in set : t.account = u.account /\ (t.good => u.good)
           /\ (\A t, u \in set : t = u) =>
                 \A t, u \in Token!Retired(set, accounts) : t = u
<1> DEFINE R(t) == [t EXCEPT !.good = @ /\ t.account \notin accounts]
<1>1. \A t \in set : /\ R(t) \in Token!Credentials
                     /\ R(t).account = t.account
                     /\ R(t).good => t.good
  BY Zenon DEF Token!Credentials
<1>2. Token!Retired(set, accounts) = {R(t) : t \in set}
  BY DEF Token!Retired
<1> HIDE DEF R
<1> QED BY <1>1, <1>2 DEF Token!Owner

\* So does the passing of time, which leaves them as good as they are.
LEMMA TokenAged ==
    ASSUME TokenParameters, NEW set \in SUBSET Token!Credentials
    PROVE  /\ Token!Aged(set) \in SUBSET Token!Credentials
           /\ Token!Aged(set) = {} <=> set = {}
           /\ \A t \in Token!Aged(set) :
                 \E u \in set : t.account = u.account /\ t.good = u.good
           /\ (\A t, u \in set : t = u) => \A t, u \in Token!Aged(set) : t = u
<1> DEFINE A(t) == [t EXCEPT !.left = Token!Less(@)]
<1>1. ASSUME NEW t \in set
      PROVE  A(t) \in Token!Credentials /\ A(t).account = t.account /\ A(t).good = t.good
  <2>1. Token!Less(t.left) \in 0 .. Life
    BY DEF Token!Credentials, Token!Less, TokenParameters
  <2> QED BY <2>1, Zenon DEF Token!Credentials
<1>2. Token!Aged(set) = {A(t) : t \in set}
  BY DEF Token!Aged
<1> HIDE DEF A
<1> QED BY <1>1, <1>2

\* New credentials.
LEMMA TokenNew ==
    ASSUME TokenParameters, NEW a \in Account
    PROVE  /\ {Token!New(a)} \in SUBSET Token!Credentials
           /\ Token!New(a).account = a /\ Token!New(a).good = TRUE
BY DEF TokenParameters, Token!New, Token!Credentials

TokenCall == [stage : {"idle", "asking", "saving", "proving"}, with : SUBSET Token!Credentials,
              late : BOOLEAN]
TokenLink == [held : SUBSET Token!Credentials, account : SUBSET Account, disturbed : BOOLEAN,
              status : {"connected", "reauth_needed", "disconnected"}]
TokenTrack == [failures : 0 .. Limit, permanent : BOOLEAN, wait : 0 .. MaxWait]

\* What the updates of the calls do to each.
LEMMA TokenRetireCalls ==
    ASSUME NEW f \in [Token!Asker -> TokenCall], NEW accounts
    PROVE  /\ Token!RetireCalls(f, accounts) \in [Token!Asker -> TokenCall]
           /\ \A c \in Token!Asker :
                 /\ Token!RetireCalls(f, accounts)[c].stage = f[c].stage
                 /\ Token!RetireCalls(f, accounts)[c].late = f[c].late
                 /\ Token!RetireCalls(f, accounts)[c].with = Token!Retired(f[c].with, accounts)
<1>1. ASSUME NEW c \in Token!Asker
      PROVE  Token!Retired(f[c].with, accounts) \in SUBSET Token!Credentials
  BY TokenRetired DEF TokenCall
<1> QED BY <1>1 DEF Token!RetireCalls, TokenCall

LEMMA TokenOutdate ==
    ASSUME NEW f \in [Token!Asker -> TokenCall]
    PROVE  /\ Token!Outdate(f) \in [Token!Asker -> TokenCall]
           /\ \A c \in Token!Asker :
                 /\ Token!Outdate(f)[c].stage = f[c].stage
                 /\ Token!Outdate(f)[c].late = (f[c].stage = "asking")
                 /\ Token!Outdate(f)[c].with = f[c].with
BY Zenon DEF Token!Outdate, TokenCall

LEMMA TokenInit == ASSUME TokenParameters PROVE Token!Init => TokenInv
<1> SUFFICES ASSUME Token!Init PROVE TokenInv
  OBVIOUS
<1>1. Token!TypeOK
  <2>1. Token!Clear \in TokenLink
    BY DEF Token!Clear, TokenLink
  <2>2. Token!Rest \in TokenCall
    BY DEF Token!Rest, TokenCall
  <2>3. Token!Fresh \in TokenTrack
    BY DEF Token!Fresh, TokenTrack, TokenParameters
  <2> QED BY <2>1, <2>2, <2>3 DEF Token!Init, Token!TypeOK, TokenLink, TokenCall,
             TokenTrack
<1>2. TokenHeld /\ Token!LinkIsWhole
  BY DEF Token!Init, TokenHeld, Token!LinkIsWhole, Token!Clear, Token!Rest, Token!Linked
<1> QED BY <1>1, <1>2 DEF TokenInv

\* The answers to a renewal.
LEMMA TokenFailure ==
    ASSUME TokenParameters, track \in TokenTrack, NEW p \in BOOLEAN
    PROVE  Token!Failure(p) \in TokenTrack /\ Token!Failure(p).permanent = p
<1> DEFINE n == IF track.failures < Limit THEN track.failures + 1 ELSE Limit
<1>1. n \in 1 .. Limit
  BY DEF TokenParameters, TokenTrack
<1>2. Token!Failure(p) = [failures |-> n, permanent |-> p,
                          wait |-> IF n - 1 < MaxWait THEN n - 1 ELSE MaxWait]
  BY DEF Token!Failure
<1> HIDE DEF n
<1> QED BY <1>1, <1>2 DEF TokenParameters, TokenTrack

LEMMA TokenStep == ASSUME TokenParameters PROVE TokenInv /\ [Token!Next]_(Token!vars) => TokenInv'
<1> SUFFICES ASSUME TokenInv, [Token!Next]_(Token!vars) PROVE TokenInv'
  OBVIOUS
<1> USE TokenParameters
<1>t. /\ link \in TokenLink /\ call \in [Token!Asker -> TokenCall] /\ track \in TokenTrack
      /\ leaving \in BOOLEAN /\ due \in BOOLEAN /\ removed \subseteq Account
  BY DEF TokenInv, Token!TypeOK, TokenLink, TokenCall, TokenTrack
<1>u. /\ link' \in TokenLink /\ call' \in [Token!Asker -> TokenCall] /\ track' \in TokenTrack
      /\ leaving' \in BOOLEAN /\ due' \in BOOLEAN /\ removed' \subseteq Account
      /\ TokenHeld' /\ Token!LinkIsWhole'
      => TokenInv'
  BY DEF TokenInv, Token!TypeOK, TokenLink, TokenCall, TokenTrack
<1>h. TokenHeld /\ Token!LinkIsWhole
  BY DEF TokenInv
<1>c. link.held \in SUBSET Token!Credentials
      /\ \A c \in Token!Asker : call[c].with \in SUBSET Token!Credentials
  BY <1>t DEF TokenLink, TokenCall
<1>k. Token!Keeper \in Token!Asker /\ Token!Proof \in Token!Asker
      /\ Operation \subseteq Token!Asker
  BY DEF Token!Asker
<1>r. Token!Rest \in TokenCall /\ [Token!Rest EXCEPT !.stage = "saving"] \in TokenCall
  BY DEF Token!Rest, TokenCall
<1>f. Token!Fresh \in TokenTrack /\ Token!Fresh.permanent = FALSE
  BY DEF Token!Fresh, TokenTrack, TokenParameters
<1>1. ASSUME NEW a \in Account, Token!Connect(a) PROVE TokenInv'
  <2>1. PICK retired \in {{}, {a}} :
           call' = Token!Outdate(Token!RetireCalls(call, retired))
    BY <1>1 DEF Token!Connect
  <2>2. /\ call' \in [Token!Asker -> TokenCall]
        /\ \A c \in Token!Asker :
              /\ call'[c].stage = call[c].stage
              /\ call'[c].late = (call[c].stage = "asking")
              /\ call'[c].with = {} <=> call[c].with = {}
    <3> DEFINE f == Token!RetireCalls(call, retired)
    <3>1. /\ f \in [Token!Asker -> TokenCall]
          /\ \A c \in Token!Asker :
                f[c].stage = call[c].stage /\ f[c].with = Token!Retired(call[c].with, retired)
      BY <1>t, TokenRetireCalls
    <3>2. call' = Token!Outdate(f)
      BY <2>1
    <3> HIDE DEF f
    <3>3. \A c \in Token!Asker : Token!Retired(call[c].with, retired) = {} <=> call[c].with = {}
      BY <1>c, TokenRetired
    <3>4. /\ call' \in [Token!Asker -> TokenCall]
          /\ \A c \in Token!Asker :
                /\ call'[c].stage = f[c].stage
                /\ call'[c].late = (f[c].stage = "asking")
                /\ call'[c].with = f[c].with
      BY <3>1, <3>2, TokenOutdate
    <3> QED BY <3>1, <3>3, <3>4, Zenon
  <2>3. link' = [held |-> {Token!New(a)}, status |-> "connected", account |-> {a},
                 disturbed |-> track.permanent]
        /\ UNCHANGED <<track, leaving, due, removed>>
    BY <1>1 DEF Token!Connect
  <2>4. link' \in TokenLink
    BY <2>3, <1>t, TokenNew DEF TokenLink, TokenTrack
  <2>5. TokenHeld'
    BY <2>2, <2>3, <1>h DEF TokenHeld
  <2>6. Token!LinkIsWhole'
    BY <2>3, TokenNew DEF Token!LinkIsWhole, Token!Linked
  <2> QED BY <1>t, <1>u, <2>2, <2>3, <2>4, <2>5, <2>6
<1>2. ASSUME NEW accounts,
             link' = [link EXCEPT !.held = Token!Retired(@, accounts)],
             call' = Token!RetireCalls(call, accounts),
             leaving' \in BOOLEAN, removed' \subseteq Account,
             UNCHANGED <<track, due>>
      PROVE  TokenInv'
  <2>1. /\ call' \in [Token!Asker -> TokenCall]
        /\ \A c \in Token!Asker :
              /\ call'[c].stage = call[c].stage
              /\ call'[c].late = call[c].late
              /\ call'[c].with = Token!Retired(call[c].with, accounts)
    BY <1>2, <1>t, TokenRetireCalls
  <2>2. /\ link'.held = Token!Retired(link.held, accounts)
        /\ link'.status = link.status /\ link'.account = link.account
        /\ link'.disturbed = link.disturbed
        /\ link' \in TokenLink
    BY <1>2, <1>t, <1>c, TokenRetired DEF TokenLink
  <2>3. TokenHeld'
    <3>1. \A t, u \in Token!Retired(link.held, accounts) : t = u
      BY <1>h, <1>c, TokenRetired DEF TokenHeld
    <3>2. \A c \in Token!Asker : Token!Retired(call[c].with, accounts) = {} <=> call[c].with = {}
      BY <1>c, TokenRetired
    <3> QED BY <3>1, <3>2, <2>1, <2>2, <1>h DEF TokenHeld
  <2>4. Token!LinkIsWhole'
    BY <2>2, <1>2, <1>h, <1>c, TokenRetired DEF Token!LinkIsWhole, Token!Linked
  <2> QED BY <1>t, <1>u, <1>2, <2>1, <2>2, <2>3, <2>4
<1>3. CASE Token!Disconnect
  BY <1>2, <1>3, <1>t DEF Token!Disconnect
<1>4. ASSUME NEW a \in Account, Token!Withdraw(a) PROVE TokenInv'
  BY <1>2, <1>4, <1>t DEF Token!Withdraw
<1>5. CASE Token!EndDisconnect
  <2>1. /\ call' \in [Token!Asker -> TokenCall]
        /\ \A c \in Token!Asker :
              /\ call'[c].stage = call[c].stage
              /\ call'[c].late = (call[c].stage = "asking")
              /\ call'[c].with = call[c].with
    BY <1>5, <1>t, TokenOutdate DEF Token!EndDisconnect
  <2>2. link' = Token!Clear /\ leaving' = FALSE /\ UNCHANGED <<track, due, removed>>
    BY <1>5 DEF Token!EndDisconnect
  <2>3. link' \in TokenLink /\ TokenHeld' /\ Token!LinkIsWhole'
    BY <2>1, <2>2, <1>h
       DEF Token!Clear, TokenLink, TokenHeld, Token!LinkIsWhole, Token!Linked
  <2> QED BY <1>t, <1>u, <2>1, <2>2, <2>3
<1>6. ASSUME NEW a \in Account, Token!ToldRemoved(a) PROVE TokenInv'
  <2>1. /\ UNCHANGED <<call, track, leaving, due>> /\ removed' = removed \ {a}
        /\ link' = IF a \in Token!Owner(link.held)
                   THEN [link EXCEPT !.status = "reauth_needed", !.account = {a}]
                   ELSE link
    BY <1>6 DEF Token!ToldRemoved
  <2>2. link' \in TokenLink /\ link'.held = link.held
    BY <2>1, <1>t DEF TokenLink
  <2>3. TokenHeld' /\ Token!LinkIsWhole'
    BY <2>1, <2>2, <1>h, <1>t
       DEF TokenLink, TokenHeld, Token!LinkIsWhole, Token!Linked, Token!Owner
  <2> QED BY <1>t, <1>u, <2>1, <2>2, <2>3
\* A caller asks with what is held.
<1>7. ASSUME NEW c \in Token!Asker, NEW stage \in {"asking", "proving"}, link.held # {},
             call' = [call EXCEPT ![c] = [stage |-> stage, with |-> link.held,
                                          late |-> FALSE]],
             due' \in BOOLEAN, UNCHANGED <<link, track, leaving, removed>>
      PROVE  TokenInv'
  <2>1. [stage |-> stage, with |-> link.held, late |-> FALSE] \in TokenCall
    BY <1>c DEF TokenCall
  <2>2. call' \in [Token!Asker -> TokenCall]
    BY <1>7, <2>1, <1>t
  <2>3. TokenHeld'
    BY <1>7, <1>h, <1>t DEF TokenHeld
  <2> QED BY <1>7, <1>t, <1>u, <1>h, <2>2, <2>3 DEF Token!LinkIsWhole, Token!Linked
<1>8. CASE Token!KeeperLooks
  <2>1. CASE UNCHANGED call
    BY <1>8, <2>1, <1>t, <1>u, <1>h
       DEF Token!KeeperLooks, TokenHeld, Token!LinkIsWhole, Token!Linked
  <2>2. CASE Token!Renews /\ Token!Ask(Token!Keeper)
    <3>1. link.held # {}
      BY <2>2 DEF Token!Renews
    <3> QED BY <1>7, <1>8, <2>2, <3>1, <1>k DEF Token!KeeperLooks, Token!Ask
  <2> QED BY <1>8, <2>1, <2>2 DEF Token!KeeperLooks
<1>9. ASSUME NEW o \in Operation, Token!Use(o) PROVE TokenInv'
  <2>1. link.held # {}
    BY <1>9 DEF Token!Use, Token!Expired
  <2> QED BY <1>7, <1>9, <2>1, <1>k, <1>t DEF Token!Use, Token!Ask
<1>10. CASE Token!Prove
  BY <1>7, <1>10, <1>k, <1>t DEF Token!Prove
<1>11. ASSUME NEW c \in Token!Asker, Token!Renewed(c) PROVE TokenInv'
  <2>0. PICK a \in Token!Owner(call[c].with) : \E retired \in {{}, {a}} :
           /\ link' = [link EXCEPT !.held = {Token!New(a)},
                                   !.disturbed = @ \/ Token!Foreign(c)]
           /\ call' = Token!Outdate(Token!RetireCalls(
                         [call EXCEPT ![c] = [Token!Rest EXCEPT !.stage = "saving"]], retired))
    BY <1>11 DEF Token!Renewed
  <2>1. PICK retired \in {{}, {a}} :
           /\ link' = [link EXCEPT !.held = {Token!New(a)},
                                   !.disturbed = @ \/ Token!Foreign(c)]
           /\ call' = Token!Outdate(Token!RetireCalls(
                         [call EXCEPT ![c] = [Token!Rest EXCEPT !.stage = "saving"]], retired))
    BY <2>0
  <2>2. a \in Account
    BY <1>c DEF Token!Owner, Token!Credentials
  <2>3. /\ call' \in [Token!Asker -> TokenCall]
        /\ \A d \in Token!Asker :
              /\ call'[d].stage = IF d = c THEN "saving" ELSE call[d].stage
              /\ call'[d].late = (call'[d].stage = "asking")
              /\ d # c => (call'[d].with = {} <=> call[d].with = {})
    <3> DEFINE g == [call EXCEPT ![c] = [Token!Rest EXCEPT !.stage = "saving"]]
               f == Token!RetireCalls(g, retired)
    <3>1. /\ g \in [Token!Asker -> TokenCall]
          /\ \A d \in Token!Asker :
                /\ g[d].stage = IF d = c THEN "saving" ELSE call[d].stage
                /\ d # c => g[d].with = call[d].with
      BY <1>t, <1>r DEF Token!Rest
    <3> HIDE DEF g
    <3>2. /\ f \in [Token!Asker -> TokenCall]
          /\ \A d \in Token!Asker :
                f[d].stage = g[d].stage /\ f[d].with = Token!Retired(g[d].with, retired)
      BY <3>1, TokenRetireCalls
    <3>3. call' = Token!Outdate(f)
      BY <2>1 DEF g
    <3> HIDE DEF f
    <3>4. /\ call' \in [Token!Asker -> TokenCall]
          /\ \A d \in Token!Asker :
                /\ call'[d].stage = f[d].stage
                /\ call'[d].late = (f[d].stage = "asking")
                /\ call'[d].with = f[d].with
      BY <3>2, <3>3, TokenOutdate
    <3>5. \A d \in Token!Asker : Token!Retired(call[d].with, retired) = {} <=> call[d].with = {}
      BY <1>c, TokenRetired
    <3>6. \A d \in Token!Asker :
             call'[d].stage = (IF d = c THEN "saving" ELSE call[d].stage)
             /\ (d # c => (call'[d].with = {} <=> call[d].with = {}))
      <4> SUFFICES ASSUME NEW d \in Token!Asker
                   PROVE  /\ call'[d].stage = (IF d = c THEN "saving" ELSE call[d].stage)
                          /\ (d # c => (call'[d].with = {} <=> call[d].with = {}))
        OBVIOUS
      <4>1. call'[d].stage = g[d].stage /\ call'[d].with = Token!Retired(g[d].with, retired)
        BY <3>2, <3>4
      <4> QED BY <4>1, <3>1, <3>5
    <3> QED BY <3>4, <3>6, Zenon
  <2>4. /\ link'.held = {Token!New(a)} /\ link'.status = link.status
        /\ link'.account = link.account /\ (link'.disturbed <=> link.disturbed \/ Token!Foreign(c))
    BY <2>1, <1>t, Zenon DEF TokenLink
  <2>5. link' \in TokenLink
    BY <2>1, <2>2, <1>t, TokenNew, Zenon DEF TokenLink, Token!Foreign
  <2>6. track' = Token!Fresh /\ UNCHANGED <<leaving, due, removed>>
    BY <1>11 DEF Token!Renewed
  <2>7. TokenHeld'
    BY <2>3, <2>4, <1>h DEF TokenHeld
  <2>8. Token!LinkIsWhole'
    <3>1. CASE ~link'.disturbed
      <4>1. ~link.disturbed /\ a \in Token!Owner(link.held)
        BY <2>4, <3>1 DEF Token!Foreign
      <4>2. Token!Linked /\ link.account = {a}
        BY <4>1, <1>h DEF Token!LinkIsWhole, Token!Owner
      <4> QED BY <4>2, <2>2, <2>4, <2>6, <1>f, TokenNew DEF Token!LinkIsWhole,
                 Token!Linked
    <3> QED BY <3>1 DEF Token!LinkIsWhole
  <2> QED BY <1>f, <1>t, <1>u, <2>3, <2>5, <2>6, <2>7, <2>8
<1>12. ASSUME NEW c \in Token!Asker, Token!EndRenewal(c) PROVE TokenInv'
  <2>1. /\ call' = [call EXCEPT ![c] = Token!Rest] /\ UNCHANGED <<track, leaving, due, removed>>
        /\ link' = IF c = Token!Keeper /\ link.status = "reauth_needed"
                   THEN [link EXCEPT !.status = "connected"]
                   ELSE link
    BY <1>12 DEF Token!EndRenewal
  <2>2. call' \in [Token!Asker -> TokenCall]
    BY <2>1, <1>t, <1>r
  <2>3. link' \in TokenLink /\ link'.held = link.held
    BY <2>1, <1>t DEF TokenLink
  <2>4. TokenHeld'
    BY <2>1, <2>3, <1>h, <1>t DEF TokenHeld, Token!Rest
  <2>5. Token!LinkIsWhole'
    BY <2>1, <1>h, <1>t DEF TokenLink, Token!LinkIsWhole, Token!Linked
  <2> QED BY <1>t, <1>u, <2>1, <2>2, <2>3, <2>4, <2>5
\* What the keeper makes of a failure, before what the provider retires.
<1>13. ASSUME NEW c \in Token!Asker, NEW p \in BOOLEAN, call[c].stage = "asking",
              track' = Token!Failure(p)
       PROVE  /\ Token!MarkReauth(c) \in TokenLink
              /\ Token!MarkReauth(c).held = link.held
              /\ ~Token!MarkReauth(c).disturbed =>
                    /\ ~link.disturbed
                    /\ link.held # {} => Token!MarkReauth(c).status # "disconnected"
                    /\ link.held = {} => Token!MarkReauth(c).status = "disconnected"
                    /\ \A t \in link.held :
                          /\ Token!MarkReauth(c).account = {t.account}
                          /\ track'.permanent => ~t.good
  <2>1. track' \in TokenTrack /\ track'.permanent = p
    BY <1>13, <1>t, TokenFailure
  <2>2. call[c].with \in SUBSET Token!Credentials /\ call[c].with # {}
    BY <1>13, <1>c, <1>h DEF TokenHeld
  <2>3. Token!Owner(call[c].with) \subseteq Account /\ Token!Owner(call[c].with) # {}
    BY <2>2 DEF Token!Owner, Token!Credentials
  <2>4. CASE ~Token!Marks(c)
    <3>1. Token!MarkReauth(c) = link /\ ~track'.permanent
      BY <2>4 DEF Token!MarkReauth, Token!Marks
    <3> QED BY <3>1, <1>t, <1>h DEF Token!LinkIsWhole, Token!Linked, TokenLink
  <2>5. CASE Token!Marks(c)
    <3> DEFINE m == Token!MarkReauth(c)
    <3>1. m = [link EXCEPT !.status = "reauth_needed", !.account = Token!Owner(call[c].with),
                           !.disturbed = @ \/ Token!Foreign(c)
                              \/ (track'.permanent /\ (call[c].late \/ Token!Asking(c, TRUE)))]
      BY <2>5 DEF Token!MarkReauth
    <3>2. /\ m.held = link.held /\ m.status = "reauth_needed"
          /\ m.account = Token!Owner(call[c].with)
          /\ m.disturbed <=> \/ link.disturbed \/ Token!Foreign(c)
                             \/ track'.permanent /\ (call[c].late \/ Token!Asking(c, TRUE))
      BY <3>1, <1>t, Zenon DEF TokenLink
    <3>3. m \in TokenLink
      BY <3>1, <2>3, <1>t, Zenon DEF TokenLink
    <3> HIDE DEF m
    <3>4. ASSUME ~m.disturbed
          PROVE  /\ ~link.disturbed /\ link.held # {}
                 /\ \A t \in link.held :
                       m.account = {t.account} /\ (track'.permanent => ~t.good)
      <4>1. ~link.disturbed /\ Token!Owner(call[c].with) = Token!Owner(link.held)
            /\ (track'.permanent => ~call[c].late /\ ~Token!Asking(c, TRUE))
        BY <3>2, <3>4 DEF Token!Foreign
      <4>2. link.held # {}
        BY <4>1, <2>3 DEF Token!Owner
      <4>3. ASSUME NEW t \in link.held PROVE m.account = {t.account}
        BY <4>1, <3>2, <1>h DEF TokenHeld, Token!Owner
      <4>4. ASSUME NEW t \in link.held, track'.permanent PROVE ~t.good
        <5>1. t \in call[c].with
          BY <4>1, <4>4, <1>13, <1>h DEF TokenHeld
        <5>2. t.good # TRUE
          BY <5>1, <4>1, <4>4, <1>13 DEF Token!Asking
        <5> QED BY <5>1, <5>2, <2>2 DEF Token!Credentials
      <4> QED BY <4>1, <4>2, <4>3, <4>4
    <3> QED BY <3>2, <3>3, <3>4 DEF m
  <2> QED BY <2>4, <2>5
<1>14. ASSUME NEW c \in Token!Asker, Token!Refused(c) PROVE TokenInv'
  <2>1. /\ call[c].stage = "asking" /\ track' = Token!Failure(TRUE)
        /\ link' = Token!MarkReauth(c) /\ call' = [call EXCEPT ![c] = Token!Rest]
        /\ UNCHANGED <<leaving, due, removed>>
    BY <1>14 DEF Token!Refused, Token!Asking
  <2>2. /\ link' \in TokenLink /\ link'.held = link.held
        /\ ~link'.disturbed =>
              /\ link.held # {} => link'.status # "disconnected"
              /\ link.held = {} => link'.status = "disconnected"
              /\ \A t \in link.held :
                    link'.account = {t.account} /\ (track'.permanent => ~t.good)
    BY <1>13, <2>1
  <2>3. call' \in [Token!Asker -> TokenCall] /\ track' \in TokenTrack
    BY <2>1, <1>t, <1>r, TokenFailure
  <2>4. TokenHeld'
    BY <2>1, <2>2, <1>h, <1>t DEF TokenHeld, Token!Rest
  <2>5. Token!LinkIsWhole'
    BY <2>2 DEF TokenLink, Token!LinkIsWhole, Token!Linked
  <2> QED BY <1>t, <1>u, <2>1, <2>2, <2>3, <2>4, <2>5
<1>15. ASSUME NEW c \in Token!Asker, Token!Failed(c) PROVE TokenInv'
  <2>1. /\ call[c].stage = "asking" /\ track' = Token!Failure(FALSE)
        /\ UNCHANGED <<leaving, due, removed>>
    BY <1>15 DEF Token!Failed
  <2>2. PICK retired \in {{}, Token!Owner(call[c].with)} :
           /\ link' = [Token!MarkReauth(c) EXCEPT !.held = Token!Retired(@, retired)]
           /\ call' = Token!RetireCalls([call EXCEPT ![c] = Token!Rest], retired)
    BY <1>15 DEF Token!Failed
  <2>3. track' \in TokenTrack /\ track'.permanent = FALSE
    BY <2>1, <1>t, TokenFailure
  <2> DEFINE m == Token!MarkReauth(c)
             g == [call EXCEPT ![c] = Token!Rest]
  <2>4. /\ m \in TokenLink /\ m.held = link.held
        /\ ~m.disturbed =>
              /\ link.held # {} => m.status # "disconnected"
              /\ link.held = {} => m.status = "disconnected"
              /\ \A t \in link.held : m.account = {t.account}
    BY <1>13, <2>1
  <2>5. g \in [Token!Asker -> TokenCall]
        /\ \A d \in Token!Asker : /\ d = c => g[d].stage = "idle"
                                  /\ d # c => g[d] = call[d]
    BY <1>t, <1>r DEF Token!Rest
  <2>6. link' = [m EXCEPT !.held = Token!Retired(m.held, retired)]
        /\ call' = Token!RetireCalls(g, retired)
    BY <2>2
  <2> HIDE DEF m, g
  <2>7. /\ call' \in [Token!Asker -> TokenCall]
        /\ \A d \in Token!Asker :
              /\ call'[d].stage = g[d].stage
              /\ call'[d].late = g[d].late
              /\ call'[d].with = Token!Retired(g[d].with, retired)
    BY <2>5, <2>6, TokenRetireCalls
  <2>8. /\ link'.held = Token!Retired(link.held, retired)
        /\ link'.status = m.status /\ link'.account = m.account
        /\ link'.disturbed = m.disturbed
        /\ link' \in TokenLink
    BY <2>4, <2>6, <1>c, TokenRetired DEF TokenLink
  <2>9. TokenHeld'
    <3>1. \A t, u \in Token!Retired(link.held, retired) : t = u
      BY <1>h, <1>c, TokenRetired DEF TokenHeld
    <3>2. \A d \in Token!Asker : Token!Retired(call[d].with, retired) = {} <=> call[d].with = {}
      BY <1>c, TokenRetired
    <3> QED BY <3>1, <3>2, <2>5, <2>7, <2>8, <1>h DEF TokenHeld
  <2>10. Token!LinkIsWhole'
    <3>1. link'.status \in {"connected", "reauth_needed", "disconnected"}
      BY <2>8 DEF TokenLink
    <3>2. Token!Retired(link.held, retired) = {} <=> link.held = {}
      BY <1>c, TokenRetired
    <3>3. \A t \in link'.held : \E u \in link.held : t.account = u.account
      BY <2>8, <1>c, TokenRetired
    <3> QED BY <3>1, <3>2, <3>3, <2>3, <2>4, <2>8 DEF Token!LinkIsWhole, Token!Linked
  <2> QED BY <1>t, <1>u, <2>1, <2>3, <2>7, <2>8, <2>9, <2>10
<1>16. CASE Token!Proved
  <2>1. /\ call[Token!Proof].stage = "proving"
        /\ call' = [call EXCEPT ![Token!Proof] = Token!Rest]
        /\ UNCHANGED <<track, leaving, due, removed>>
    BY <1>16 DEF Token!Proved
  <2>2. call' \in [Token!Asker -> TokenCall]
    BY <2>1, <1>t, <1>r
  <2>3. /\ link' \in TokenLink /\ link'.held = link.held
        /\ link' # link =>
              /\ link'.status = "connected"
              /\ link'.account = Token!Owner(call[Token!Proof].with)
              /\ link'.disturbed <=> link.disturbed \/ Token!Foreign(Token!Proof)
    <3>1. CASE link' = link
      BY <3>1, <1>t
    <3>2. CASE link' = [link EXCEPT !.status = "connected",
                           !.account = Token!Owner(call[Token!Proof].with),
                           !.disturbed = @ \/ Token!Foreign(Token!Proof)]
      <4>1. Token!Owner(call[Token!Proof].with) \subseteq Account
        BY <1>c, <1>k DEF Token!Owner, Token!Credentials
      <4>2. link' \in TokenLink
        BY <3>2, <4>1, <1>t, Zenon DEF TokenLink
      <4> QED BY <3>2, <4>2, <1>t, Zenon DEF TokenLink
    <3>3. link' \in {link} \union {[link EXCEPT !.status = "connected",
                           !.account = Token!Owner(call[Token!Proof].with),
                           !.disturbed = @ \/ Token!Foreign(Token!Proof)]}
      BY <1>16, Zenon DEF Token!Proved
    <3> QED BY <3>1, <3>2, <3>3
  <2>4. TokenHeld'
    BY <2>1, <2>3, <1>h, <1>t, <1>k DEF TokenHeld, Token!Rest
  <2>5. Token!LinkIsWhole'
    <3>1. CASE link' = link
      BY <3>1, <2>1, <1>h DEF Token!LinkIsWhole, Token!Linked
    <3>2. ASSUME link' # link, ~link'.disturbed
          PROVE  Token!LinkIsWhole'
      <4>1. /\ ~link.disturbed
            /\ Token!Owner(call[Token!Proof].with) = Token!Owner(link.held)
        BY <3>2, <2>3 DEF Token!Foreign
      <4>2. call[Token!Proof].with # {}
        BY <2>1, <1>h, <1>k DEF TokenHeld
      <4>3. link.held # {}
        BY <4>1, <4>2 DEF Token!Owner
      <4>4. \A t \in link.held : link'.account = {t.account} /\ (track.permanent => ~t.good)
        BY <4>1, <3>2, <2>3, <1>h DEF TokenHeld, Token!Owner, Token!LinkIsWhole
      <4> QED BY <4>3, <4>4, <3>2, <2>1, <2>3 DEF Token!LinkIsWhole, Token!Linked
    <3> QED BY <3>1, <3>2 DEF Token!LinkIsWhole
  <2> QED BY <1>t, <1>u, <2>1, <2>2, <2>3, <2>4, <2>5
<1>17. CASE Token!Tick
  <2>1. /\ link' = [link EXCEPT !.held = Token!Aged(@)] /\ due' = TRUE
        /\ call' = [c \in Token!Asker |-> [call[c] EXCEPT !.with = Token!Aged(@)]]
        /\ track' = [track EXCEPT !.wait = Token!Less(@)] /\ UNCHANGED <<leaving, removed>>
    BY <1>17 DEF Token!Tick
  <2>2. track' \in TokenTrack /\ track'.permanent = track.permanent
    <3>1. Token!Less(track.wait) \in 0 .. MaxWait
      BY <1>t DEF TokenTrack, TokenParameters, Token!Less
    <3> QED BY <3>1, <2>1, <1>t DEF TokenTrack
  <2>3. /\ call' \in [Token!Asker -> TokenCall]
        /\ \A c \in Token!Asker :
              /\ call'[c].stage = call[c].stage
              /\ call'[c].late = call[c].late
              /\ call'[c].with = Token!Aged(call[c].with)
    <3>1. \A c \in Token!Asker : Token!Aged(call[c].with) \in SUBSET Token!Credentials
      BY <1>c, TokenAged
    <3> QED BY <3>1, <2>1, <1>t DEF TokenCall
  <2>4. /\ link'.held = Token!Aged(link.held)
        /\ link'.status = link.status /\ link'.account = link.account
        /\ link'.disturbed = link.disturbed
        /\ link' \in TokenLink
    BY <2>1, <1>t, <1>c, TokenAged DEF TokenLink
  <2>5. TokenHeld'
    BY <2>3, <2>4, <1>h, <1>c, TokenAged DEF TokenHeld
  <2>6. Token!LinkIsWhole'
    BY <2>2, <2>4, <1>h, <1>c, TokenAged DEF Token!LinkIsWhole, Token!Linked
  <2> QED BY <1>t, <1>u, <2>1, <2>2, <2>3, <2>4, <2>5, <2>6
<1>18. CASE UNCHANGED Token!vars
  BY <1>18, <1>t, <1>u, <1>h DEF Token!vars, TokenHeld, Token!LinkIsWhole, Token!Linked
<1> QED
  BY <1>1, <1>3, <1>4, <1>5, <1>6, <1>8, <1>9, <1>10, <1>11, <1>12, <1>14, <1>15, <1>16,
     <1>17,
     <1>18 DEF Token!Next, Token!Answer

\* Credentials are held exactly while their account is linked, however a renewal, a new link,
\* a disconnect and an operation that finds the token refused overlap.
THEOREM TokenLinkStaysWhole ==
    ASSUME TokenParameters
    PROVE  Token!Spec => [](Token!TypeOK /\ Token!LinkIsWhole)
BY TokenInit, TokenStep, PTL DEF Token!Spec, TokenInv

-----------------------------------------------------------------------------
(* The tasks of the agent (AgentTask).                                     *)

AgentParameters ==
    /\ Capacity \in Nat \ {0} /\ MaxTask \in Nat /\ MaxRestarts \in Nat

\* The tasks whose tool may still do its work.
AgentRunning == (UNION {slot[s] : s \in Slot}) \union stray

\* Tasks keep their key, and a tool works for one task in one place.
AgentShape ==
    /\ \A i \in DOMAIN order : order[i] \in DOMAIN record
    /\ \A i \in DOMAIN saved.order : saved.order[i] \in DOMAIN record
    /\ AgentRunning \subseteq DOMAIN record
    /\ Len(saved.record) <= Len(record)
    /\ \A t \in DOMAIN saved.record : saved.record[t].key = record[t].key
    /\ \A s \in Slot : \A t, u \in slot[s] : t = u
    /\ \A s \in Slot : slot[s] \intersect stray = {}
    /\ \A s, z \in Slot : s # z => slot[s] \intersect slot[z] = {}

AgentCount == \A k \in TaskKey : effects[k] + Cardinality(AgentRunning) <= Len(record)

\* The only task of a key that is not lost is on the list, and its tool has not done its
\* work as long as it may.
AgentOnce ==
    \A k \in TaskKey \ lost :
       /\ effects[k] <= 1
       /\ effects[k] = 1 => \E t \in DOMAIN record : k \in record[t].key
       /\ \A t \in DOMAIN record : k \in record[t].key =>
             /\ \E i \in DOMAIN order : order[i] = t
             /\ \A u \in DOMAIN record : k \in record[u].key => u = t
             /\ t \in AgentRunning => effects[k] = 0

AgentInv == Agent!TypeOK /\ AgentShape /\ AgentCount /\ AgentOnce

LEMMA AgentLists ==
    ASSUME AgentParameters, NEW list
    PROVE  list \in Agent!Lists <=> list \in Seq(Agent!Task) /\ Len(list) <= Capacity
<1>1. ASSUME list \in Agent!Lists
      PROVE  list \in Seq(Agent!Task) /\ Len(list) <= Capacity
  <2>1. PICK n \in 0 .. Capacity : list \in [1 .. n -> Agent!Task]
    BY <1>1 DEF Agent!Lists
  <2>2. list \in Seq(Agent!Task)
    BY <2>1, SeqDef DEF AgentParameters
  <2>3. Len(list) = n
    BY <2>1, <2>2, LenProperties DEF AgentParameters
  <2> QED BY <2>2, <2>3
<1>2. ASSUME list \in Seq(Agent!Task), Len(list) <= Capacity
      PROVE  list \in Agent!Lists
  <2>1. Len(list) \in 0 .. Capacity /\ list \in [1 .. Len(list) -> Agent!Task]
    BY <1>2, LenProperties DEF AgentParameters
  <2> QED BY <2>1 DEF Agent!Lists
<1> QED BY <1>1, <1>2

\* The new task is on the list, and nothing else comes onto it.
LEMMA AgentListed ==
    ASSUME AgentParameters, order \in Agent!Lists, NEW t \in Agent!Task
    PROVE  /\ Agent!Listed(t) \in Agent!Lists
           /\ \E i \in DOMAIN Agent!Listed(t) : Agent!Listed(t)[i] = t
           /\ \A i \in DOMAIN Agent!Listed(t) :
                 \/ Agent!Listed(t)[i] = t
                 \/ \E j \in DOMAIN order : order[j] = Agent!Listed(t)[i]
<1> DEFINE longer == Append(order, t)
<1>1. order \in Seq(Agent!Task) /\ Len(order) <= Capacity /\ Len(order) \in Nat
  BY AgentLists, LenProperties
<1>2. /\ longer \in Seq(Agent!Task) /\ Len(longer) = Len(order) + 1
      /\ longer[Len(order) + 1] = t
      /\ \A i \in 1 .. Len(order) : longer[i] = order[i]
  BY <1>1
<1>3. DOMAIN order = 1 .. Len(order) /\ DOMAIN longer = 1 .. Len(order) + 1
  BY <1>1, <1>2
<1>4. Agent!Listed(t) = IF Len(longer) <= Capacity THEN longer ELSE Tail(longer)
  BY DEF Agent!Listed
<1> HIDE DEF longer
<1>5. CASE Len(longer) <= Capacity
  BY <1>1, <1>2, <1>3, <1>4, <1>5, AgentLists
<1>6. CASE ~(Len(longer) <= Capacity)
  <2> DEFINE rest == Tail(longer)
  <2>1. /\ rest \in Seq(Agent!Task) /\ Len(rest) = Len(order)
        /\ DOMAIN rest = 1 .. Len(order)
        /\ \A i \in 1 .. Len(order) : rest[i] = longer[i + 1]
    <3>1. longer # << >>
      BY <1>1, <1>2
    <3> QED BY <1>1, <1>2, <3>1, HeadTailProperties, LenProperties
  <2>2. Agent!Listed(t) = rest
    BY <1>4, <1>6
  <2> HIDE DEF rest
  <2>3. Len(order) >= 1
    BY <1>1, <1>2, <1>6 DEF AgentParameters
  <2>4. rest \in Agent!Lists
    BY <2>1, <1>1, AgentLists
  <2>5. rest[Len(order)] = t /\ Len(order) \in DOMAIN rest
    BY <2>1, <2>3, <1>1, <1>2
  <2>6. \A i \in DOMAIN rest : rest[i] = t \/ \E j \in DOMAIN order : order[j] = rest[i]
    <3>1. ASSUME NEW i \in 1 .. Len(order), i # Len(order)
          PROVE  i + 1 \in DOMAIN order /\ order[i + 1] = rest[i]
      <4>1. i + 1 \in 1 .. Len(order)
        BY <3>1, <1>1
      <4> QED BY <4>1, <3>1, <2>1, <1>2, <1>3
    <3> QED BY <3>1, <2>1, <2>5
  <2> QED BY <2>2, <2>4, <2>5, <2>6
<1> QED BY <1>5, <1>6

LEMMA AgentRecords ==
    ASSUME NEW r \in Seq(Agent!Record)
    PROVE  /\ Len(r) \in Nat /\ DOMAIN r = 1 .. Len(r)
           /\ \A t \in 1 .. Len(r) : r[t] \in Agent!Record
BY LenProperties

\* The running tasks are finitely many.
LEMMA AgentFinite ==
    ASSUME NEW n \in Nat, NEW S, S \subseteq 1 .. n
    PROVE  IsFiniteSet(S) /\ Cardinality(S) \in Nat
<1>1. IsFiniteSet(1 .. n)
  BY FS_Interval
<1>2. IsFiniteSet(S)
  BY <1>1, FS_Subset
<1> QED BY <1>2, FS_CardinalityType

LEMMA AgentCardinality == ASSUME NEW S PROVE Agent!Cardinality(S) = Cardinality(S)
BY DEF Cardinality, IsFiniteSet, Agent!Cardinality, Agent!IsFiniteSet

LEMMA AgentInit == ASSUME AgentParameters PROVE Agent!Init => AgentInv
<1> SUFFICES ASSUME Agent!Init PROVE AgentInv
  OBVIOUS
<1>1. << >> \in Agent!Lists /\ << >> \in Seq(Agent!Record) /\ Len(<< >>) = 0
  <2>1. << >> \in Seq(Agent!Task) /\ << >> \in Seq(Agent!Record) /\ Len(<< >>) = 0
    OBVIOUS
  <2>2. Len(<< >>) <= Capacity
    BY <2>1 DEF AgentParameters
  <2> QED BY <2>1, <2>2, AgentLists
<1>2. /\ order = << >> /\ record = << >> /\ saved = [order |-> << >>, record |-> << >>]
      /\ slot = [s \in Slot |-> {}] /\ stray = {} /\ effects = [k \in TaskKey |-> 0]
      /\ lost = {} /\ restarts = 0
  BY DEF Agent!Init
<1>3. Agent!TypeOK
  BY <1>1, <1>2 DEF Agent!TypeOK, AgentParameters
<1>4. AgentRunning = {}
  BY <1>2 DEF AgentRunning
<1>5. AgentShape
  BY <1>2, <1>4 DEF AgentShape
<1>6. AgentCount /\ AgentOnce
  BY <1>1, <1>2, <1>4, FS_EmptySet DEF AgentCount, AgentOnce
<1> QED BY <1>3, <1>5, <1>6 DEF AgentInv

LEMMA AgentStep ==
    ASSUME AgentParameters PROVE AgentInv /\ [Agent!Next]_(Agent!vars) => AgentInv'
<1> SUFFICES ASSUME AgentInv, [Agent!Next]_(Agent!vars) PROVE AgentInv'
  OBVIOUS
<1> USE AgentParameters
<1> DEFINE Lists == order \in Agent!Lists /\ saved.order \in Agent!Lists
           n == Len(record)
<1>t. /\ order \in Agent!Lists /\ record \in Seq(Agent!Record) /\ Len(record) <= MaxTask
      /\ saved \in [order : Agent!Lists, record : Seq(Agent!Record)]
      /\ slot \in [Slot -> SUBSET Agent!Task] /\ stray \subseteq Agent!Task
      /\ effects \in [TaskKey -> 0 .. MaxTask]
      /\ lost \subseteq TaskKey /\ restarts \in 0 .. MaxRestarts
      /\ AgentShape /\ AgentCount /\ AgentOnce
  BY DEF AgentInv, Agent!TypeOK
<1>u. /\ order' \in Agent!Lists /\ record' \in Seq(Agent!Record) /\ Len(record') <= MaxTask
      /\ saved' \in [order : Agent!Lists, record : Seq(Agent!Record)]
      /\ slot' \in [Slot -> SUBSET Agent!Task] /\ stray' \subseteq Agent!Task
      /\ effects' \in [TaskKey -> 0 .. MaxTask]
      /\ lost' \subseteq TaskKey /\ restarts' \in 0 .. MaxRestarts
      /\ AgentShape' /\ AgentCount' /\ AgentOnce'
      => AgentInv'
  BY DEF AgentInv, Agent!TypeOK
<1>n. /\ Len(record) \in Nat /\ DOMAIN record = 1 .. Len(record)
      /\ \A t \in 1 .. Len(record) : record[t] \in Agent!Record /\ record[t].key \subseteq TaskKey
      /\ \A k \in TaskKey : effects[k] \in Nat
  <2>1. Len(record) \in Nat /\ DOMAIN record = 1 .. Len(record)
        /\ \A t \in 1 .. Len(record) : record[t] \in Agent!Record
    BY <1>t, AgentRecords
  <2> QED BY <2>1, <1>t DEF Agent!Record
<1>s. /\ \A i \in DOMAIN order : order[i] \in 1 .. Len(record)
      /\ \A i \in DOMAIN saved.order : saved.order[i] \in 1 .. Len(record)
      /\ AgentRunning \subseteq 1 .. Len(record)
      /\ Len(saved.record) <= Len(record)
      /\ \A t \in DOMAIN saved.record : saved.record[t].key = record[t].key
      /\ \A s \in Slot : \A t, u \in slot[s] : t = u
      /\ \A s \in Slot : slot[s] \intersect stray = {}
      /\ \A s, z \in Slot : s # z => slot[s] \intersect slot[z] = {}
  BY <1>t, <1>n DEF AgentShape
<1>r. /\ \A t \in AgentRunning : (\E s \in Slot : t \in slot[s]) \/ t \in stray
      /\ \A s \in Slot : slot[s] \subseteq AgentRunning
      /\ stray \subseteq AgentRunning
  <2> DEFINE held == UNION {slot[z] : z \in Slot}
  <2>1. \A s \in Slot : slot[s] \subseteq held
    OBVIOUS
  <2>2. \A t \in held : \E s \in Slot : t \in slot[s]
    OBVIOUS
  <2>3. AgentRunning = held \union stray
    BY DEF AgentRunning
  <2> HIDE DEF held
  <2> QED BY <2>1, <2>2, <2>3
<1>p. /\ \A t \in AgentRunning' : (\E s \in Slot : t \in slot'[s]) \/ t \in stray'
      /\ \A s \in Slot : slot'[s] \subseteq AgentRunning'
      /\ stray' \subseteq AgentRunning'
  <2> DEFINE held == UNION {slot'[z] : z \in Slot}
  <2>1. \A s \in Slot : slot'[s] \subseteq held
    OBVIOUS
  <2>2. \A t \in held : \E s \in Slot : t \in slot'[s]
    OBVIOUS
  <2>3. AgentRunning' = held \union stray'
    BY DEF AgentRunning
  <2> HIDE DEF held
  <2> QED BY <2>1, <2>2, <2>3
<1>o. \A k \in TaskKey \ lost :
         /\ effects[k] <= 1
         /\ effects[k] = 1 => \E t \in 1 .. Len(record) : k \in record[t].key
         /\ \A t \in 1 .. Len(record) : k \in record[t].key =>
               /\ \E i \in DOMAIN order : order[i] = t
               /\ \A u \in 1 .. Len(record) : k \in record[u].key => u = t
               /\ t \in AgentRunning => effects[k] = 0
  BY <1>t, <1>n DEF AgentOnce
<1>f. IsFiniteSet(AgentRunning) /\ Cardinality(AgentRunning) \in Nat
  BY <1>s, <1>n, AgentFinite
<1>1. ASSUME NEW s \in Slot, NEW key \in SUBSET TaskKey, Agent!Create(s, key),
             \A k \in key : ~Agent!Found(k)
      PROVE  AgentInv'
  <2> DEFINE t == Len(record) + 1
             entry == [key |-> key, status |-> "executing"]
  <2>1. /\ slot[s] = {} /\ Len(record) < MaxTask
        /\ record' = Append(record, entry) /\ order' = Agent!Listed(t)
        /\ slot' = [slot EXCEPT ![s] = {t}]
        /\ lost' = lost \union Agent!KeysOf(Agent!Dropped(order'))
        /\ UNCHANGED <<saved, stray, effects, restarts>>
    BY <1>1 DEF Agent!Create
  <2>2. entry \in Agent!Record
    BY DEF Agent!Record, Agent!Status
  <2>3. /\ record' \in Seq(Agent!Record) /\ Len(record') = t /\ DOMAIN record' = 1 .. t
        /\ \A u \in 1 .. Len(record) : record'[u] = record[u]
        /\ record'[t] = entry
    <3> HIDE DEF entry
    <3> QED BY <2>1, <2>2, <1>t, <1>n
  <2>4. t \in Nat /\ t \in Agent!Task /\ t \in 1 .. t
        /\ t \notin 1 .. Len(record) /\ 1 .. Len(record) \subseteq 1 .. t
    <3>1. Len(record) + 1 \in 1 .. MaxTask
      BY <2>1, <1>n DEF AgentParameters
    <3> QED BY <3>1, <1>n DEF Agent!Task, t
  <2> HIDE DEF t
  <2>5. /\ order' \in Agent!Lists
        /\ \E i \in DOMAIN order' : order'[i] = t
        /\ \A i \in DOMAIN order' :
              order'[i] = t \/ \E j \in DOMAIN order : order[j] = order'[i]
    BY <2>1, <2>4, <1>t, AgentListed
  <2>6. slot' \in [Slot -> SUBSET Agent!Task]
    BY <2>1, <2>4, <1>t
  <2>7. AgentRunning' = AgentRunning \union {t} /\ t \notin AgentRunning
    <3>1. slot'[s] = {t} /\ \A x \in Slot : x # s => slot'[x] = slot[x]
      BY <2>1, <1>t
    <3>2. t \notin AgentRunning
      BY <2>4, <1>s
    <3>3. AgentRunning' \subseteq AgentRunning \union {t}
      BY <2>1, <3>1, <1>r, <1>p
    <3>4. AgentRunning \union {t} \subseteq AgentRunning'
      <4>1. t \in AgentRunning'
        BY <3>1, <1>p
      <4>2. ASSUME NEW x \in Slot, NEW u \in slot[x] PROVE u \in AgentRunning'
        <5>1. x # s
          BY <2>1, <4>2
        <5> QED BY <5>1, <4>2, <3>1, <1>p
      <4> QED BY <2>1, <4>1, <4>2, <1>r, <1>p
    <3> QED BY <3>2, <3>3, <3>4
  <2>8. AgentShape'
    <3>1. \A i \in DOMAIN order' : order'[i] \in DOMAIN record'
      BY <2>3, <2>4, <2>5, <1>s
    <3>2. \A i \in DOMAIN saved'.order : saved'.order[i] \in DOMAIN record'
      BY <2>1, <2>3, <2>4, <1>s
    <3>3. AgentRunning' \subseteq DOMAIN record'
      BY <2>3, <2>4, <2>7, <1>s
    <3>4. Len(saved'.record) <= Len(record')
          /\ \A u \in DOMAIN saved'.record : saved'.record[u].key = record'[u].key
      <4>1. saved.record \in Seq(Agent!Record)
        BY <1>t
      <4>2. Len(saved.record) \in Nat /\ DOMAIN saved.record = 1 .. Len(saved.record)
        BY <4>1, AgentRecords
      <4>3. Len(saved.record) <= Len(record) /\ DOMAIN saved.record \subseteq 1 .. Len(record)
        BY <4>2, <1>t, <1>n DEF AgentShape
      <4>4. t = Len(record) + 1
        BY DEF t
      <4> QED BY <2>1, <2>3, <4>2, <4>3, <4>4, <1>t, <1>n DEF AgentShape
    <3>5. /\ \A x \in Slot : \A v, w \in slot'[x] : v = w
          /\ \A x \in Slot : slot'[x] \intersect stray' = {}
          /\ \A x, y \in Slot : x # y => slot'[x] \intersect slot'[y] = {}
      <4>1. /\ slot'[s] = {t} /\ \A x \in Slot : x # s => slot'[x] = slot[x]
            /\ stray' = stray /\ t \notin stray /\ \A x \in Slot : t \notin slot[x]
        <5>1. slot'[s] = {t} /\ \A x \in Slot : x # s => slot'[x] = slot[x]
          BY <2>1, <1>t
        <5> QED BY <5>1, <2>1, <2>7, <1>r
      <4>2. \A x \in Slot : \A v, w \in slot'[x] : v = w
        BY <4>1, <1>s
      <4>3. \A x \in Slot : slot'[x] \intersect stray' = {}
        BY <4>1, <1>s
      <4>4. \A x, y \in Slot : x # y => slot'[x] \intersect slot'[y] = {}
        BY <4>1, <1>s
      <4> QED BY <4>2, <4>3, <4>4
    <3> QED BY <3>1, <3>2, <3>3, <3>4, <3>5 DEF AgentShape
  <2>9. /\ lost' \subseteq TaskKey /\ lost \subseteq lost'
        /\ \A k \in TaskKey \ lost' : \A j \in DOMAIN order : k \in record[order[j]].key =>
              \E i \in DOMAIN order' : order'[i] = order[j]
    <3>1. Agent!Dropped(order') \subseteq 1 .. Len(record)
      BY <1>t, <1>n DEF Agent!Dropped, Agent!ToSet, AgentShape
    <3>2. Agent!KeysOf(Agent!Dropped(order')) \subseteq TaskKey
      BY <3>1, <1>n DEF Agent!KeysOf
    <3>3. ASSUME NEW k \in TaskKey \ lost', NEW j \in DOMAIN order, k \in record[order[j]].key,
                 ~\E i \in DOMAIN order' : order'[i] = order[j]
          PROVE  FALSE
      <4>1. order[j] \in Agent!Dropped(order')
        BY <3>3 DEF Agent!Dropped, Agent!ToSet
      <4>2. k \in Agent!KeysOf(Agent!Dropped(order'))
        BY <3>3, <4>1 DEF Agent!KeysOf
      <4> QED BY <2>1, <3>3, <4>2
    <3> QED BY <2>1, <3>2, <3>3, <1>t
  <2>10. AgentCount'
    <3>1. Cardinality(AgentRunning') = Cardinality(AgentRunning) + 1
      BY <2>7, <1>f, FS_AddElement
    <3>2. t = Len(record) + 1
      BY DEF t
    <3> QED BY <2>1, <2>3, <3>1, <3>2, <1>t, <1>n, <1>f DEF AgentCount
  <2>11. ASSUME NEW k \in TaskKey \ lost', k \in key
         PROVE  \A u \in 1 .. Len(record) : k \notin record[u].key
    <3>1. ~\E j \in DOMAIN order : k \in record[order[j]].key
      BY <1>1, <2>11 DEF Agent!Found, Agent!ToSet
    <3>2. k \in TaskKey \ lost
      BY <2>9
    <3> QED BY <3>1, <3>2, <1>t, <1>n DEF AgentOnce
  <2>12. AgentOnce'
    <3> SUFFICES ASSUME NEW k \in TaskKey \ lost'
                 PROVE  /\ effects[k] <= 1
                        /\ effects[k] = 1 => \E v \in 1 .. t : k \in record'[v].key
                        /\ \A v \in 1 .. t : k \in record'[v].key =>
                              /\ \E i \in DOMAIN order' : order'[i] = v
                              /\ \A w \in 1 .. t : k \in record'[w].key => w = v
                              /\ v \in AgentRunning' => effects[k] = 0
      BY <2>1, <2>3 DEF AgentOnce
    <3>1. /\ effects[k] <= 1
          /\ effects[k] = 1 => \E v \in 1 .. Len(record) : k \in record[v].key
          /\ \A v \in 1 .. Len(record) : k \in record[v].key =>
                /\ \E i \in DOMAIN order : order[i] = v
                /\ \A w \in 1 .. Len(record) : k \in record[w].key => w = v
                /\ v \in AgentRunning => effects[k] = 0
      <4>1. k \in TaskKey \ lost
        BY <2>9
      <4> QED BY <4>1, <1>o
    <3>2. \A v \in 1 .. t : v = t \/ v \in 1 .. Len(record)
      BY <1>n DEF t
    <3>3. effects[k] = 1 => \E v \in 1 .. t : k \in record'[v].key
      BY <2>3, <2>4, <3>1
    <3>4. CASE k \in key
      <4>1. effects[k] # 1 /\ \A v \in 1 .. Len(record) : k \notin record'[v].key
        BY <2>3, <2>11, <3>1, <3>4
      <4>2. effects[k] = 0
        BY <3>1, <4>1, <1>n
      <4> QED BY <2>5, <3>1, <3>2, <4>1, <4>2
    <3>5. CASE k \notin key
      <4>1. k \notin record'[t].key
        BY <2>3, <3>5
      <4>2. ASSUME NEW v \in 1 .. t, k \in record'[v].key
            PROVE  /\ \E i \in DOMAIN order' : order'[i] = v
                   /\ \A w \in 1 .. t : k \in record'[w].key => w = v
                   /\ v \in AgentRunning' => effects[k] = 0
        <5>1. v \in 1 .. Len(record) /\ k \in record[v].key /\ v # t
          BY <2>3, <3>2, <4>1, <4>2
        <5>2. PICK j \in DOMAIN order : order[j] = v
          BY <3>1, <5>1
        <5>3. \E i \in DOMAIN order' : order'[i] = v
          BY <2>9, <5>1, <5>2
        <5>4. \A w \in 1 .. t : k \in record'[w].key => w = v
          BY <2>3, <3>1, <3>2, <4>1, <5>1
        <5> QED BY <2>7, <3>1, <5>1, <5>3, <5>4
      <4> QED BY <3>1, <3>3, <4>2
    <3> QED BY <3>4, <3>5
  <2>13. Len(record') <= MaxTask
    BY <2>1, <2>3, <1>n DEF t, AgentParameters
  <2>14. /\ saved' \in [order : Agent!Lists, record : Seq(Agent!Record)]
         /\ stray' \subseteq Agent!Task /\ effects' \in [TaskKey -> 0 .. MaxTask]
         /\ restarts' \in 0 .. MaxRestarts
    BY <2>1, <1>t
  <2> QED BY <2>3, <2>5, <2>6, <2>8, <2>9, <2>10, <2>12, <2>13, <2>14, <1>u
\* A tool has done its work, once, or goes on, or is given up.
<1>2. ASSUME NEW t \in AgentRunning,
             UNCHANGED <<order, saved, lost, restarts>>,
             record' \in Seq(Agent!Record), Len(record') = Len(record),
             \A u \in 1 .. Len(record) : record'[u].key = record[u].key,
             slot' \in [Slot -> SUBSET Agent!Task], stray' \subseteq Agent!Task,
             AgentRunning' \subseteq AgentRunning,
             \A x \in Slot : \A v, w \in slot'[x] : v = w,
             \A x \in Slot : slot'[x] \intersect stray' = {},
             \A x, y \in Slot : x # y => slot'[x] \intersect slot'[y] = {},
             effects' = effects \/ (t \notin AgentRunning' /\ Agent!Done(t))
      PROVE  AgentInv'
  <2>1. DOMAIN record' = 1 .. Len(record) /\ Len(record) \in Nat
    BY <1>2, <1>n, AgentRecords
  <2>2. \/ effects' = effects
        \/ /\ t \notin AgentRunning'
           /\ effects' = [k \in TaskKey |-> IF k \in record[t].key THEN effects[k] + 1
                                            ELSE effects[k]]
    BY <1>2 DEF Agent!Done
  <2>3. AgentShape'
    <3>1. \A i \in DOMAIN order' : order'[i] \in DOMAIN record'
      BY <1>2, <2>1, <1>t, <1>n DEF AgentShape
    <3>2. \A i \in DOMAIN saved'.order : saved'.order[i] \in DOMAIN record'
      BY <1>2, <2>1, <1>t, <1>n DEF AgentShape
    <3>3. AgentRunning' \subseteq DOMAIN record'
      BY <1>2, <2>1, <1>t, <1>n DEF AgentShape
    <3>4. saved.record \in Seq(Agent!Record)
      BY <1>t
    <3>5. Len(saved.record) \in Nat /\ DOMAIN saved.record = 1 .. Len(saved.record)
      BY <3>4, AgentRecords
    <3>6. Len(saved.record) <= Len(record) /\ DOMAIN saved.record \subseteq 1 .. Len(record)
      BY <3>5, <1>t, <1>n DEF AgentShape
    <3>7. Len(saved'.record) <= Len(record')
          /\ \A u \in DOMAIN saved'.record : saved'.record[u].key = record'[u].key
      BY <3>6, <1>2, <1>t DEF AgentShape
    <3> QED BY <3>1, <3>2, <3>3, <3>7, <1>2 DEF AgentShape
  <2>4. IsFiniteSet(AgentRunning') /\ Cardinality(AgentRunning') \in Nat
        /\ Cardinality(AgentRunning') <= Cardinality(AgentRunning)
        /\ (t \notin AgentRunning' =>
               Cardinality(AgentRunning') + 1 <= Cardinality(AgentRunning))
    <3>1. IsFiniteSet(AgentRunning') /\ Cardinality(AgentRunning') <= Cardinality(AgentRunning)
      BY <1>2, <1>f, FS_Subset
    <3>2. Cardinality(AgentRunning') \in Nat
      BY <3>1, FS_CardinalityType
    <3>3. ASSUME t \notin AgentRunning'
          PROVE  Cardinality(AgentRunning') + 1 <= Cardinality(AgentRunning)
      <4>1. IsFiniteSet(AgentRunning \ {t})
            /\ Cardinality(AgentRunning \ {t}) = Cardinality(AgentRunning) - 1
        BY <1>2, <1>f, FS_RemoveElement
      <4>2. AgentRunning' \subseteq AgentRunning \ {t}
        BY <1>2, <3>3
      <4>3. Cardinality(AgentRunning') <= Cardinality(AgentRunning \ {t})
        BY <4>1, <4>2, FS_Subset
      <4> QED BY <4>1, <4>3, <3>2, <1>f
    <3> QED BY <3>1, <3>2, <3>3
  <2>5. \A k \in TaskKey : effects'[k] \in Nat
                           /\ effects'[k] + Cardinality(AgentRunning') <= Len(record)
    <3>1. CASE effects' = effects
      BY <3>1, <2>1, <2>4, <1>n, <1>f, <1>t DEF AgentCount
    <3>2. CASE effects' # effects
      <4> SUFFICES ASSUME NEW k \in TaskKey
                   PROVE  /\ effects'[k] \in Nat
                          /\ effects'[k] + Cardinality(AgentRunning') <= Len(record)
        OBVIOUS
      <4>1. effects'[k] = effects[k] \/ effects'[k] = effects[k] + 1
        BY <2>2, <3>2
      <4>2. Cardinality(AgentRunning') + 1 <= Cardinality(AgentRunning)
        BY <2>2, <2>4, <3>2
      <4>3. effects[k] \in Nat /\ effects[k] + Cardinality(AgentRunning) <= Len(record)
        BY <1>n, <1>t DEF AgentCount
      <4> QED BY <4>1, <4>2, <4>3, <2>4, <1>f, <1>n
    <3> QED BY <3>1, <3>2
  <2>6. AgentCount'
    BY <2>5, <1>2 DEF AgentCount
  <2>7. effects' \in [TaskKey -> 0 .. MaxTask]
    <3>1. \A k \in TaskKey : effects'[k] \in 0 .. MaxTask
      BY <2>1, <2>4, <2>5, <1>t DEF AgentParameters
    <3>2. effects' = [k \in TaskKey |-> effects'[k]]
      BY <2>2, <1>t
    <3> QED BY <3>1, <3>2
  <2>8. AgentOnce'
    <3> SUFFICES ASSUME NEW k \in TaskKey \ lost
                 PROVE  /\ effects'[k] <= 1
                        /\ effects'[k] = 1 => \E v \in 1 .. Len(record) : k \in record'[v].key
                        /\ \A v \in 1 .. Len(record) : k \in record'[v].key =>
                              /\ \E i \in DOMAIN order : order[i] = v
                              /\ \A w \in 1 .. Len(record) : k \in record'[w].key => w = v
                              /\ v \in AgentRunning' => effects'[k] = 0
      BY <1>2, <2>1 DEF AgentOnce
    <3>1. /\ effects[k] <= 1
          /\ effects[k] = 1 => \E v \in 1 .. Len(record) : k \in record[v].key
          /\ \A v \in 1 .. Len(record) : k \in record[v].key =>
                /\ \E i \in DOMAIN order : order[i] = v
                /\ \A w \in 1 .. Len(record) : k \in record[w].key => w = v
                /\ v \in AgentRunning => effects[k] = 0
      BY <1>t, <1>n DEF AgentOnce
    <3>2. CASE effects'[k] = effects[k]
      BY <1>2, <3>1, <3>2
    <3>3. CASE effects'[k] # effects[k]
      <4>1. /\ t \notin AgentRunning' /\ k \in record[t].key /\ effects'[k] = effects[k] + 1
        BY <2>2, <3>3
      <4>2. t \in 1 .. Len(record)
        BY <1>2, <1>t, <1>n DEF AgentShape
      <4>3. effects[k] = 0 /\ effects'[k] = 1
        BY <1>2, <3>1, <4>1, <4>2
      <4> QED BY <1>2, <3>1, <4>1, <4>2, <4>3
    <3> QED BY <3>2, <3>3
  <2>9. saved' \in [order : Agent!Lists, record : Seq(Agent!Record)]
        /\ order' \in Agent!Lists /\ lost' \subseteq TaskKey /\ restarts' \in 0 .. MaxRestarts
        /\ Len(record') <= MaxTask
    BY <1>2, <1>t
  <2> QED BY <1>2, <2>3, <2>6, <2>7, <2>8, <2>9, <1>u
\* The end of a request for its task.
<1>3. ASSUME NEW s \in Slot, NEW t \in slot[s], NEW status \in Agent!Status,
             Agent!Ends(s, status), stray' \in {stray, stray \union {t}},
             effects' = effects \/ (stray' = stray /\ Agent!Done(t))
      PROVE  AgentInv'
  <2>1. t \in AgentRunning /\ t \in 1 .. Len(record) /\ t \notin stray
        /\ \A x \in Slot : x # s => t \notin slot[x]
    BY <1>t, <1>n DEF AgentRunning, AgentShape
  <2>2. (CHOOSE u \in slot[s] : TRUE) = t
    <3>1. \A u \in slot[s] : u = t
      BY <1>t DEF AgentShape
    <3> QED BY <3>1
  <2>3. /\ record' = [record EXCEPT ![t].status = status] /\ slot' = [slot EXCEPT ![s] = {}]
        /\ UNCHANGED <<order, saved, lost, restarts>>
    BY <1>3, <2>2 DEF Agent!Ends
  <2>4. /\ record' \in Seq(Agent!Record) /\ Len(record') = Len(record)
        /\ \A u \in 1 .. Len(record) : record'[u].key = record[u].key
    <3> DEFINE e == [record[t] EXCEPT !.status = status]
    <3>1. e \in Agent!Record /\ e.key = record[t].key
      BY <2>1, <1>n DEF Agent!Record
    <3>2. record' = [record EXCEPT ![t] = e]
      BY <2>3
    <3> HIDE DEF e
    <3> QED BY <3>1, <3>2, <2>1, <1>t, <1>n, ExceptSeq
  <2>5. slot' \in [Slot -> SUBSET Agent!Task] /\ stray' \subseteq Agent!Task
    BY <1>3, <2>3, <1>t
  <2>6. slot'[s] = {} /\ \A x \in Slot : x # s => slot'[x] = slot[x]
    BY <2>3, <1>t
  <2>7. /\ AgentRunning' \subseteq AgentRunning
        /\ stray' = stray => t \notin AgentRunning'
    <3>1. AgentRunning' \subseteq AgentRunning
      <4>1. \A x \in Slot : slot'[x] \subseteq AgentRunning
        BY <2>6, <1>r
      <4>2. stray' \subseteq AgentRunning
        BY <1>3, <2>1, <1>r
      <4> QED BY <4>1, <4>2, <1>p
    <3>2. ASSUME stray' = stray PROVE t \notin AgentRunning'
      BY <3>2, <2>1, <2>6, <1>p
    <3> QED BY <3>1, <3>2
  <2>8. /\ \A x \in Slot : \A v, w \in slot'[x] : v = w
        /\ \A x \in Slot : slot'[x] \intersect stray' = {}
        /\ \A x, y \in Slot : x # y => slot'[x] \intersect slot'[y] = {}
    <3>1. \A x \in Slot : slot'[x] = {} \/ slot'[x] = slot[x]
      BY <2>6
    <3>2. \A x \in Slot : slot'[x] \subseteq slot[x]
      BY <3>1
    <3>3. \A x \in Slot : slot'[x] \intersect stray' = {}
      <4>1. stray' \subseteq stray \union {t} /\ slot'[s] = {}
        BY <1>3, <2>1, <2>6
      <4>2. \A x \in Slot : x # s => t \notin slot'[x]
        BY <2>1, <3>2, <1>t DEF AgentShape
      <4> QED BY <3>2, <4>1, <4>2, <1>t DEF AgentShape
    <3> QED BY <3>2, <3>3, <1>t DEF AgentShape
  <2>9. effects' = effects \/ (t \notin AgentRunning' /\ Agent!Done(t))
    BY <1>3, <2>7
  <2> QED BY <1>2, <2>1, <2>3, <2>4, <2>5, <2>7, <2>8, <2>9
<1>4. ASSUME NEW s \in Slot, NEW k \in TaskKey, Agent!Post(s, k) PROVE AgentInv'
  BY <1>1, <1>4 DEF Agent!Post
<1>5. ASSUME NEW s \in Slot, Agent!Replay(s) PROVE AgentInv'
  BY <1>1, <1>5 DEF Agent!Replay
<1>6. ASSUME NEW s \in Slot, Agent!ToolReturns(s) PROVE AgentInv'
  <2>1. PICK t \in slot[s] :
          \/ Agent!Ends(s, "completed") /\ Agent!Done(t) /\ UNCHANGED stray
          \/ Agent!Ends(s, "waiting") /\ Agent!Done(t) /\ UNCHANGED stray
          \/ Agent!Ends(s, "failed") /\ (Agent!Done(t) \/ UNCHANGED effects) /\ UNCHANGED stray
    BY <1>6 DEF Agent!ToolReturns
  <2> QED BY <1>3, <2>1 DEF Agent!Status
<1>7. ASSUME NEW s \in Slot, Agent!ToolTimesOut(s) PROVE AgentInv'
  BY <1>3, <1>7 DEF Agent!ToolTimesOut, Agent!Status
<1>8. ASSUME NEW t \in Agent!Task, Agent!StrayEnds(t) PROVE AgentInv'
  <2>1. /\ t \in stray /\ stray' = stray \ {t} /\ (Agent!Done(t) \/ effects' = effects)
        /\ UNCHANGED <<order, record, saved, slot, lost, restarts>>
    BY <1>8 DEF Agent!StrayEnds
  <2>2. /\ AgentRunning' \subseteq AgentRunning /\ t \in AgentRunning /\ t \notin AgentRunning'
    <3>1. AgentRunning' \subseteq AgentRunning
      BY <2>1, <1>r, <1>p
    <3>2. t \notin AgentRunning'
      BY <2>1, <1>s, <1>p
    <3> QED BY <2>1, <3>1, <3>2, <1>r
  <2>3. /\ \A x \in Slot : \A v, w \in slot'[x] : v = w
        /\ \A x \in Slot : slot'[x] \intersect stray' = {}
        /\ \A x, y \in Slot : x # y => slot'[x] \intersect slot'[y] = {}
    BY <2>1, <1>t DEF AgentShape
  <2>4. /\ record' \in Seq(Agent!Record) /\ Len(record') = Len(record)
        /\ \A u \in 1 .. Len(record) : record'[u].key = record[u].key
        /\ slot' \in [Slot -> SUBSET Agent!Task] /\ stray' \subseteq Agent!Task
    BY <2>1, <1>t
  <2> QED BY <1>2, <2>1, <2>2, <2>3, <2>4
<1>9. CASE Agent!SaveTasks
  <2>1. /\ saved' = [order |-> order, record |-> record]
        /\ UNCHANGED <<order, record, slot, stray, effects, lost, restarts>>
    BY <1>9 DEF Agent!SaveTasks
  <2>2. AgentRunning' = AgentRunning
    BY <2>1 DEF AgentRunning
  <2>3. AgentShape'
    BY <2>1, <2>2, <1>t, <1>n DEF AgentShape
  <2>4. AgentCount' /\ AgentOnce'
    BY <2>1, <2>2, <1>t DEF AgentCount, AgentOnce
  <2> QED BY <2>1, <2>3, <2>4, <1>t, <1>u
<1>10. CASE Agent!Restart
  <2>1. PICK done \in SUBSET AgentRunning :
           effects' = [k \in TaskKey |->
                         effects[k] + Agent!Cardinality({t \in done : k \in record[t].key})]
    BY <1>10 DEF Agent!Restart, AgentRunning
  <2>2. /\ restarts < MaxRestarts /\ restarts' = restarts + 1
        /\ order' = saved.order
        /\ record' = [t \in DOMAIN record |->
                        IF t \in DOMAIN saved.record THEN saved.record[t] ELSE record[t]]
        /\ lost' = lost \union Agent!KeysOf({t \in DOMAIN record :
                                               t \notin Agent!ToSet(saved.order)})
        /\ slot' = [s \in Slot |-> {}] /\ stray' = {}
        /\ saved' = saved
    BY <1>10 DEF Agent!Restart
  <2>3. /\ saved.record \in Seq(Agent!Record) /\ Len(saved.record) \in Nat
        /\ DOMAIN saved.record = 1 .. Len(saved.record)
        /\ \A t \in DOMAIN saved.record : saved.record[t] \in Agent!Record
                                          /\ saved.record[t].key = record[t].key
    <3>1. saved.record \in Seq(Agent!Record)
      BY <1>t
    <3> QED BY <3>1, <1>t, AgentRecords DEF AgentShape
  <2>4. /\ record' \in [1 .. Len(record) -> Agent!Record]
        /\ \A t \in 1 .. Len(record) : record'[t].key = record[t].key
    BY <2>2, <2>3, <1>n
  <2>5. record' \in Seq(Agent!Record) /\ Len(record') = Len(record)
        /\ DOMAIN record' = 1 .. Len(record)
    <3>1. record' \in Seq(Agent!Record)
      BY <2>4, <1>n, SeqDef
    <3> QED BY <2>4, <3>1, <1>n, AgentRecords
  <2>6. AgentRunning' = {}
    BY <2>2 DEF AgentRunning
  <2>7. AgentShape'
    BY <2>2, <2>4, <2>5, <2>6, <2>3, <1>t, <1>n DEF AgentShape
  <2>8. ASSUME NEW k \in TaskKey, NEW X, X = {t \in done : k \in record[t].key}
        PROVE  /\ effects'[k] = effects[k] + Cardinality(X) /\ Cardinality(X) \in Nat
               /\ effects'[k] <= Len(record)
    <3>1. effects'[k] = effects[k] + Cardinality(X)
      BY <2>1, <2>8, AgentCardinality
    <3>2. X \subseteq AgentRunning
      BY <2>8
    <3>3. Cardinality(X) \in Nat /\ Cardinality(X) <= Cardinality(AgentRunning)
      BY <3>2, <1>f, FS_Subset, FS_CardinalityType
    <3> QED BY <3>1, <3>3, <1>t, <1>n, <1>f DEF AgentCount
  <2>9. AgentCount' /\ effects' \in [TaskKey -> 0 .. MaxTask]
    <3>1. \A k \in TaskKey : effects'[k] \in Nat /\ effects'[k] <= Len(record)
      <4>1. ASSUME NEW k \in TaskKey
            PROVE  effects'[k] \in Nat /\ effects'[k] <= Len(record)
        <5> DEFINE X == {t \in done : k \in record[t].key}
        <5>1. /\ effects'[k] = effects[k] + Cardinality(X) /\ Cardinality(X) \in Nat
              /\ effects'[k] <= Len(record)
          BY <2>8
        <5> HIDE DEF X
        <5> QED BY <5>1, <1>n
      <4> QED BY <4>1
    <3>2. Cardinality(AgentRunning') = 0
      BY <2>6, FS_EmptySet
    <3>3. \A k \in TaskKey : effects'[k] \in 0 .. MaxTask
      BY <3>1, <1>t, <1>n DEF AgentParameters
    <3>4. effects' \in [TaskKey -> 0 .. MaxTask]
      BY <3>3, <2>1
    <3> QED BY <3>1, <3>2, <3>4, <2>5 DEF AgentCount
  <2>10. lost' \subseteq TaskKey /\ lost \subseteq lost'
    <3>1. Agent!KeysOf({t \in DOMAIN record : t \notin Agent!ToSet(saved.order)}) \subseteq TaskKey
      BY <1>n DEF Agent!KeysOf
    <3> QED BY <2>2, <3>1, <1>t
  <2>11. AgentOnce'
    <3> SUFFICES ASSUME NEW k \in TaskKey \ lost'
                 PROVE  /\ effects'[k] <= 1
                        /\ effects'[k] = 1 => \E v \in 1 .. Len(record) : k \in record[v].key
                        /\ \A v \in 1 .. Len(record) : k \in record[v].key =>
                              /\ \E i \in DOMAIN order' : order'[i] = v
                              /\ \A w \in 1 .. Len(record) : k \in record[w].key => w = v
      BY <2>4, <2>5, <2>6 DEF AgentOnce
    <3>1. /\ effects[k] <= 1
          /\ effects[k] = 1 => \E v \in 1 .. Len(record) : k \in record[v].key
          /\ \A v \in 1 .. Len(record) : k \in record[v].key =>
                /\ \A w \in 1 .. Len(record) : k \in record[w].key => w = v
                /\ v \in AgentRunning => effects[k] = 0
      <4>1. k \in TaskKey \ lost
        BY <2>10
      <4>2. DOMAIN record = 1 .. Len(record) /\ AgentOnce
        BY <1>t, <1>n
      <4> QED BY <4>1, <4>2 DEF AgentOnce
    <3>2. ASSUME NEW v \in 1 .. Len(record), k \in record[v].key
          PROVE  \E i \in DOMAIN order' : order'[i] = v
      <4>1. v \in Agent!ToSet(saved.order)
        BY <2>2, <3>2, <1>n DEF Agent!KeysOf
      <4> QED BY <4>1, <2>2 DEF Agent!ToSet
    <3> DEFINE X == {t \in done : k \in record[t].key}
    <3>3. effects'[k] = effects[k] + Cardinality(X) /\ Cardinality(X) \in Nat
      BY <2>8
    <3>4. CASE X = {}
      <4>1. Cardinality(X) = 0
        BY <3>4, FS_EmptySet
      <4>2. effects'[k] = effects[k]
        BY <3>3, <4>1, <1>n
      <4> QED BY <3>1, <3>2, <4>2
    <3>5. CASE X # {}
      <4>1. PICK v \in done : k \in record[v].key
        BY <3>5
      <4>2. v \in 1 .. Len(record) /\ v \in AgentRunning
        BY <1>t, <1>n DEF AgentShape
      <4>3. X = {v}
        <5>1. \A w \in done : w \in 1 .. Len(record)
          BY <1>t, <1>n DEF AgentShape
        <5> QED BY <3>1, <4>1, <4>2, <5>1
      <4>4. Cardinality(X) = 1
        BY <4>3, FS_Singleton
      <4>5. effects'[k] = 1
        BY <3>1, <3>3, <4>1, <4>2, <4>4
      <4> QED BY <3>1, <3>2, <4>1, <4>2, <4>5
    <3> QED BY <3>4, <3>5
  <2>12. /\ slot' \in [Slot -> SUBSET Agent!Task] /\ stray' \subseteq Agent!Task
         /\ saved' \in [order : Agent!Lists, record : Seq(Agent!Record)]
         /\ order' \in Agent!Lists /\ Len(record') <= MaxTask
         /\ restarts' \in 0 .. MaxRestarts
    BY <2>2, <2>5, <1>t DEF AgentParameters
  <2> QED BY <2>5, <2>7, <2>9, <2>10, <2>11, <2>12, <1>u
<1>11. CASE UNCHANGED Agent!vars
  <2>1. UNCHANGED <<order, record, saved, slot, stray, effects, lost, restarts>>
    BY <1>11 DEF Agent!vars
  <2>2. AgentRunning' = AgentRunning
    BY <2>1 DEF AgentRunning
  <2> QED BY <2>1, <2>2, <1>t, <1>u DEF AgentShape, AgentCount, AgentOnce
<1> QED
  BY <1>4, <1>5, <1>6, <1>7, <1>8, <1>9, <1>10, <1>11 DEF Agent!Next

LEMMA AgentImplies ==
    ASSUME AgentParameters PROVE AgentInv => Agent!TypeOK /\ Agent!SecondEffectNeedsLoss
<1> SUFFICES ASSUME AgentInv PROVE Agent!TypeOK /\ Agent!SecondEffectNeedsLoss
  OBVIOUS
<1>1. \A k \in TaskKey : effects[k] \in 0 .. MaxTask
  BY DEF AgentInv, Agent!TypeOK
<1> QED BY <1>1 DEF AgentInv, AgentOnce, Agent!SecondEffectNeedsLoss, AgentParameters

\* A key has a second effect only if its task had left the list, pushed off it by newer ones
\* or not stored before a restart.
THEOREM AgentEffects ==
    ASSUME AgentParameters
    PROVE  Agent!Spec => [](Agent!TypeOK /\ Agent!SecondEffectNeedsLoss)
BY AgentInit, AgentStep, AgentImplies, PTL DEF Agent!Spec

-----------------------------------------------------------------------------
(* The alerts to the owner (OwnerAlerts).                                  *)

AlertsParameters ==
    /\ MaxPending \in Nat /\ MaxSent \in Nat /\ MaxRestarts \in Nat
    /\ IsFiniteSet(Platform)

\* The elements of a sequence.
Keys(s) == {s[i] : i \in 1 .. Len(s)}

LEMMA AlertsLeast ==
    ASSUME NEW S, S \subseteq Nat, S # {}
    PROVE  \E x \in S : \A y \in S : x <= y
<1>1. PICK x \in S : \A y \in S : <<y, x>> \notin OpToRel(<, Nat)
  <2>1. IsWellFoundedOn(OpToRel(<, Nat), Nat)
    BY NatLessThanWellFounded
  <2> HIDE DEF OpToRel
  <2> QED BY <2>1, WFMin
<1>2. \A y \in S : ~(y < x)
  BY <1>1 DEF OpToRel
<1> QED BY <1>2

LEMMA AlertsSeqs ==
    ASSUME NEW n \in Nat, NEW s
    PROVE  s \in Alerts!Seqs(n) <=> s \in Seq(Alerts!Key) /\ Len(s) <= n
<1>1. ASSUME s \in Alerts!Seqs(n) PROVE s \in Seq(Alerts!Key) /\ Len(s) <= n
  <2>1. PICK k \in 0 .. n : s \in [1 .. k -> Alerts!Key]
    BY <1>1 DEF Alerts!Seqs
  <2> QED BY <2>1
<1>2. ASSUME s \in Seq(Alerts!Key), Len(s) <= n PROVE s \in Alerts!Seqs(n)
  <2>1. Len(s) \in 0 .. n /\ s \in [1 .. Len(s) -> Alerts!Key]
    BY <1>2
  <2> QED BY <2>1 DEF Alerts!Seqs
<1> QED BY <1>1, <1>2

LEMMA AlertsToSet ==
    ASSUME NEW s \in Seq(Alerts!Key)
    PROVE  Alerts!ToSet(s) = Keys(s) /\ Keys(s) \subseteq Alerts!Key
<1>1. DOMAIN s = 1 .. Len(s)
  OBVIOUS
<1>2. Alerts!ToSet(s) = {s[i] : i \in DOMAIN s}
  BY DEF Alerts!ToSet
<1>3. \A i \in 1 .. Len(s) : s[i] \in Alerts!Key
  OBVIOUS
<1> QED BY <1>1, <1>2, <1>3 DEF Keys

LEMMA AlertsNewest ==
    ASSUME NEW n \in Nat, NEW s \in Seq(Alerts!Key)
    PROVE  /\ Alerts!Newest(s, n) \in Alerts!Seqs(n)
           /\ Alerts!Newest(s, n) \in Seq(Alerts!Key)
           /\ Keys(Alerts!Newest(s, n)) \subseteq Keys(s)
           /\ Len(s) <= n => Alerts!Newest(s, n) = s
<1>1. CASE Len(s) <= n
  <2>1. Alerts!Newest(s, n) = s
    BY <1>1 DEF Alerts!Newest
  <2> QED BY <1>1, <2>1, AlertsSeqs
<1>2. CASE Len(s) > n
  <2> DEFINE t == SubSeq(s, Len(s) - n + 1, Len(s))
  <2>1. Alerts!Newest(s, n) = t
    BY <1>2 DEF Alerts!Newest
  <2>2. /\ t \in Seq(Alerts!Key) /\ Len(t) = n
        /\ \A i \in 1 .. n : t[i] = s[Len(s) - n + i]
    <3>1. /\ Len(s) \in Nat /\ Len(s) - n + 1 \in 1 .. Len(s) + 1 /\ Len(s) \in 0 .. Len(s)
      BY <1>2
    <3> QED BY <1>2, <3>1
  <2> HIDE DEF t
  <2>3. Keys(t) \subseteq Keys(s)
    <3>1. \A i \in 1 .. n : Len(s) - n + i \in 1 .. Len(s)
      BY <1>2
    <3>2. ASSUME NEW x \in Keys(t) PROVE x \in Keys(s)
      <4>1. PICK i \in 1 .. n : x = t[i]
        BY <2>2 DEF Keys
      <4>2. x = s[Len(s) - n + i] /\ Len(s) - n + i \in 1 .. Len(s)
        BY <2>2, <3>1, <4>1
      <4> QED BY <4>2 DEF Keys
    <3> QED BY <3>2
  <2> QED BY <1>2, <2>1, <2>2, <2>3, AlertsSeqs
<1> QED BY <1>1, <1>2

LEMMA AlertsAppend ==
    ASSUME NEW s \in Seq(Alerts!Key), NEW k \in Alerts!Key
    PROVE  Append(s, k) \in Seq(Alerts!Key) /\ Keys(Append(s, k)) = Keys(s) \union {k}
<1>1. /\ Append(s, k) \in Seq(Alerts!Key) /\ Len(Append(s, k)) = Len(s) + 1
      /\ Append(s, k)[Len(s) + 1] = k
      /\ \A i \in 1 .. Len(s) : Append(s, k)[i] = s[i]
  OBVIOUS
<1>2. \A i \in 1 .. Len(s) + 1 : i \in 1 .. Len(s) \/ i = Len(s) + 1
  OBVIOUS
<1>3. Keys(Append(s, k)) \subseteq Keys(s) \union {k}
  BY <1>1, <1>2 DEF Keys
<1>4. Keys(s) \union {k} \subseteq Keys(Append(s, k))
  <2>1. 1 .. Len(s) \subseteq 1 .. Len(s) + 1 /\ Len(s) + 1 \in 1 .. Len(s) + 1
    OBVIOUS
  <2> QED BY <1>1, <2>1 DEF Keys
<1> QED BY <1>1, <1>3, <1>4

LEMMA AlertsConcat ==
    ASSUME NEW s \in Seq(Alerts!Key), NEW t \in Seq(Alerts!Key)
    PROVE  /\ s \o t \in Seq(Alerts!Key) /\ Len(s \o t) = Len(s) + Len(t)
           /\ Keys(s \o t) = Keys(s) \union Keys(t)
<1>1. /\ s \o t \in Seq(Alerts!Key) /\ Len(s \o t) = Len(s) + Len(t)
      /\ Len(s) \in Nat /\ Len(t) \in Nat
      /\ \A i \in 1 .. Len(s) : (s \o t)[i] = s[i]
      /\ \A i \in 1 .. Len(t) : (s \o t)[Len(s) + i] = t[i]
  OBVIOUS
<1>2. ASSUME NEW i \in 1 .. Len(s) + Len(t) PROVE (s \o t)[i] \in Keys(s) \union Keys(t)
  <2>1. CASE i \in 1 .. Len(s)
    BY <1>1, <2>1 DEF Keys
  <2>2. CASE i \notin 1 .. Len(s)
    <3>1. i - Len(s) \in 1 .. Len(t) /\ i = Len(s) + (i - Len(s))
      BY <1>1, <2>2
    <3>2. (s \o t)[i] = t[i - Len(s)]
      BY <1>1, <3>1
    <3> QED BY <3>1, <3>2 DEF Keys
  <2> QED BY <2>1, <2>2
<1>3. Keys(s \o t) \subseteq Keys(s) \union Keys(t)
  BY <1>1, <1>2 DEF Keys
<1>4. Keys(s) \union Keys(t) \subseteq Keys(s \o t)
  <2>1. /\ \A i \in 1 .. Len(s) : i \in 1 .. Len(s \o t)
        /\ \A i \in 1 .. Len(t) : Len(s) + i \in 1 .. Len(s \o t)
    BY <1>1
  <2> QED BY <1>1, <2>1 DEF Keys
<1> QED BY <1>1, <1>3, <1>4

\* What is forgotten leaves the rest.
LEMMA AlertsForget ==
    ASSUME NEW s \in Seq(Alerts!Key), NEW gone
    PROVE  /\ Alerts!Forget(s, gone) \in Seq(Alerts!Key)
           /\ Len(Alerts!Forget(s, gone)) <= Len(s)
           /\ Keys(Alerts!Forget(s, gone)) \subseteq Keys(s)
<1> DEFINE Rest(f, b) == f = [n \in 0 .. b |->
               IF n = 0 THEN << >>
               ELSE IF s[n] \in gone THEN f[n - 1] ELSE Append(f[n - 1], s[n])]
           Fine(t, n) == /\ t \in Seq(Alerts!Key) /\ Len(t) <= n
                         /\ Keys(t) \subseteq Keys(s)
           Bad == {b \in 0 .. Len(s) : ~ \E f : Rest(f, b) /\ Fine(f[b], b)}
<1>l. Len(s) \in Nat /\ \A n \in 1 .. Len(s) : s[n] \in Alerts!Key /\ s[n] \in Keys(s)
  BY DEF Keys
<1>1. 0 \notin Bad
  <2> DEFINE f == [n \in 0 .. 0 |-> << >>]
  <2>1. Rest(f, 0)
    OBVIOUS
  <2>2. f[0] = << >> /\ Fine(<< >>, 0)
    BY DEF Keys
  <2> QED BY <2>1, <2>2
<1>2. ASSUME NEW b \in 0 .. Len(s), b + 1 \in Bad, b \notin Bad PROVE FALSE
  <2>1. PICK f : Rest(f, b) /\ Fine(f[b], b)
    BY <1>2
  <2> DEFINE last == IF s[b + 1] \in gone THEN f[b] ELSE Append(f[b], s[b + 1])
             g == [n \in 0 .. b + 1 |-> IF n = b + 1 THEN last ELSE f[n]]
  <2>2. b + 1 \in 1 .. Len(s) /\ b \in Nat
    BY <1>2, <1>l
  <2>3. Fine(last, b + 1)
    <3>1. CASE s[b + 1] \in gone
      BY <2>1, <2>2, <3>1
    <3>2. CASE s[b + 1] \notin gone
      <4>1. s[b + 1] \in Alerts!Key /\ s[b + 1] \in Keys(s)
        BY <1>l, <2>2
      <4>2. f[b] \in Seq(Alerts!Key) /\ Len(f[b]) <= b /\ Keys(f[b]) \subseteq Keys(s)
        BY <2>1
      <4>3. last = Append(f[b], s[b + 1])
        BY <3>2
      <4>4. Len(Append(f[b], s[b + 1])) = Len(f[b]) + 1 /\ Len(f[b]) \in Nat
        BY <4>1, <4>2
      <4> QED BY <2>2, <4>1, <4>2, <4>3, <4>4, AlertsAppend
    <3> QED BY <3>1, <3>2
  <2>4. \A n \in 0 .. b : f[n] = IF n = 0 THEN << >>
                                 ELSE IF s[n] \in gone THEN f[n - 1] ELSE Append(f[n - 1], s[n])
    <3>1. f = [n \in 0 .. b |->
               IF n = 0 THEN << >>
               ELSE IF s[n] \in gone THEN f[n - 1] ELSE Append(f[n - 1], s[n])]
      BY <2>1
    <3> QED BY <3>1
  <2>5. \A n \in 0 .. b : g[n] = f[n]
    BY <2>2
  <2>6. g[b + 1] = last
    BY <2>2
  <2>7. \A n \in 0 .. b + 1 : g[n] = IF n = 0 THEN << >>
                                 ELSE IF s[n] \in gone THEN g[n - 1] ELSE Append(g[n - 1], s[n])
    <3> HIDE DEF g
    <3>1. \A n \in 0 .. b + 1 : n = b + 1 \/ n \in 0 .. b
      BY <2>2
    <3>2. \A n \in 0 .. b : n # 0 => g[n - 1] = f[n - 1]
      BY <2>2, <2>5
    <3>3. \A n \in 0 .. b : g[n] = IF n = 0 THEN << >>
                                 ELSE IF s[n] \in gone THEN g[n - 1] ELSE Append(g[n - 1], s[n])
      BY <2>4, <2>5, <3>2
    <3>4. g[b] = f[b] /\ (b + 1) - 1 = b /\ b + 1 # 0
      BY <2>2, <2>5
    <3>5. g[b + 1] = IF s[b + 1] \in gone THEN g[b] ELSE Append(g[b], s[b + 1])
      BY <2>6, <3>4
    <3> QED BY <3>1, <3>3, <3>4, <3>5
  <2>8. Rest(g, b + 1)
    <3>1. g = [n \in 0 .. b + 1 |-> g[n]]
      OBVIOUS
    <3> HIDE DEF g
    <3> QED BY <2>7, <3>1
  <2> HIDE DEF g, last, Rest, Fine
  <2> QED BY <1>2, <2>3, <2>6, <2>8
<1>3. Bad = {}
  <2> SUFFICES ASSUME Bad # {} PROVE FALSE
    OBVIOUS
  <2>1. Bad \subseteq Nat /\ Bad \subseteq 0 .. Len(s)
    OBVIOUS
  <2>2. PICK x \in Bad : \A y \in Bad : x <= y
    <3> HIDE DEF Bad
    <3> QED BY <2>1, AlertsLeast
  <2> HIDE DEF Bad
  <2>3. x # 0
    BY <1>1
  <2>4. x - 1 \in 0 .. Len(s) /\ (x - 1) + 1 = x /\ x - 1 \notin Bad
    BY <2>1, <2>2, <2>3, <1>l
  <2> QED BY <1>2, <2>4
<1>4. \E f : Rest(f, Len(s)) /\ Fine(f[Len(s)], Len(s))
  <2>1. Len(s) \notin Bad /\ Len(s) \in 0 .. Len(s)
    <3> HIDE DEF Bad
    <3> QED BY <1>3, <1>l
  <2> HIDE DEF Rest, Fine
  <2> QED BY <2>1
<1> DEFINE g == CHOOSE f : Rest(f, Len(s))
<1>5. Rest(g, Len(s))
  <2> HIDE DEF Rest
  <2> QED BY <1>4
<1>6. Alerts!Forget(s, gone) = g[Len(s)]
  BY DEF Alerts!Forget
\* The function that solves the equation is unique, so that g is the one found.
<1>7. ASSUME NEW f, NEW h, Rest(f, Len(s)), Rest(h, Len(s)) PROVE f[Len(s)] = h[Len(s)]
  <2> DEFINE Diff == {n \in 0 .. Len(s) : f[n] # h[n]}
  <2>1. \A n \in 0 .. Len(s) :
           /\ f[n] = IF n = 0 THEN << >>
                     ELSE IF s[n] \in gone THEN f[n - 1] ELSE Append(f[n - 1], s[n])
           /\ h[n] = IF n = 0 THEN << >>
                     ELSE IF s[n] \in gone THEN h[n - 1] ELSE Append(h[n - 1], s[n])
    <3>1. f = [n \in 0 .. Len(s) |->
               IF n = 0 THEN << >>
               ELSE IF s[n] \in gone THEN f[n - 1] ELSE Append(f[n - 1], s[n])]
      BY <1>7
    <3>2. h = [n \in 0 .. Len(s) |->
               IF n = 0 THEN << >>
               ELSE IF s[n] \in gone THEN h[n - 1] ELSE Append(h[n - 1], s[n])]
      BY <1>7
    <3> HIDE DEF Rest
    <3>3. \A n \in 0 .. Len(s) :
             f[n] = IF n = 0 THEN << >>
                    ELSE IF s[n] \in gone THEN f[n - 1] ELSE Append(f[n - 1], s[n])
      BY <3>1
    <3>4. \A n \in 0 .. Len(s) :
             h[n] = IF n = 0 THEN << >>
                    ELSE IF s[n] \in gone THEN h[n - 1] ELSE Append(h[n - 1], s[n])
      BY <3>2
    <3> QED BY <3>3, <3>4
  <2>2. ASSUME Diff # {} PROVE FALSE
    <3>1. Diff \subseteq Nat /\ Diff \subseteq 0 .. Len(s)
      OBVIOUS
    <3>2. PICK x \in Diff : \A y \in Diff : x <= y
      <4> HIDE DEF Diff
      <4> QED BY <2>2, <3>1, AlertsLeast
    <3>3. x \in 0 .. Len(s) /\ f[x] # h[x]
      OBVIOUS
    <3>4. x # 0
      BY <2>1, <3>3
    <3>5. x - 1 \in 0 .. Len(s) /\ x - 1 \notin Diff
      BY <3>2, <3>3, <3>4, <1>l
    <3>6. f[x - 1] = h[x - 1]
      BY <3>5
    <3> QED BY <2>1, <3>3, <3>4, <3>6
  <2> QED BY <2>2, <1>l
<1>8. Fine(g[Len(s)], Len(s))
  <2>1. PICK f : Rest(f, Len(s)) /\ Fine(f[Len(s)], Len(s))
    BY <1>4
  <2> HIDE DEF Rest, g, Fine
  <2>2. f[Len(s)] = g[Len(s)]
    BY <1>5, <1>7, <2>1
  <2> QED BY <2>1, <2>2
<1> QED BY <1>6, <1>8

\* A state whose queue holds nothing that was sent.
AlertsApart(a, sent) ==
    a \in Alerts!State /\ a.sent = sent /\ Keys(a.pending) \intersect Keys(sent) = {}

LEMMA AlertsStateType ==
    ASSUME AlertsParameters, NEW a \in Alerts!State
    PROVE  /\ a.pending \in Seq(Alerts!Key) /\ Len(a.pending) <= MaxPending
           /\ a.sent \in Seq(Alerts!Key) /\ Len(a.sent) <= MaxSent
           /\ Alerts!ToSet(a.pending) = Keys(a.pending)
           /\ Alerts!ToSet(a.sent) = Keys(a.sent)
           /\ Alerts!Known(a) = Keys(a.sent) \union Keys(a.pending)
           /\ Keys(a.sent) \subseteq Alerts!Key /\ Keys(a.pending) \subseteq Alerts!Key
<1>1. a.pending \in Alerts!Seqs(MaxPending) /\ a.sent \in Alerts!Seqs(MaxSent)
  BY DEF Alerts!State
<1>2. /\ a.pending \in Seq(Alerts!Key) /\ Len(a.pending) <= MaxPending
      /\ a.sent \in Seq(Alerts!Key) /\ Len(a.sent) <= MaxSent
  BY <1>1, AlertsSeqs DEF AlertsParameters
<1> QED BY <1>2, AlertsToSet DEF Alerts!Known

LEMMA AlertsEnqueued ==
    ASSUME AlertsParameters, NEW sent, NEW a, AlertsApart(a, sent), NEW k \in Alerts!Key
    PROVE  AlertsApart(Alerts!Enqueued(a, k), sent)
<1>1. a \in Alerts!State /\ a.sent = sent /\ Keys(a.pending) \intersect Keys(sent) = {}
  BY DEF AlertsApart
<1>2. CASE ~a.enabled \/ k \in Alerts!Known(a)
  BY <1>2 DEF Alerts!Enqueued
<1>3. CASE a.enabled /\ k \notin Alerts!Known(a)
  <2> DEFINE more == Alerts!Newest(Append(a.pending, k), MaxPending)
             b == [a EXCEPT !.pending = more]
  <2>1. Alerts!Enqueued(a, k) = b
    BY <1>3 DEF Alerts!Enqueued
  <2>2. a.pending \in Seq(Alerts!Key) /\ Alerts!Known(a) = Keys(a.sent) \union Keys(a.pending)
    BY <1>1, AlertsStateType
  <2>3. /\ Append(a.pending, k) \in Seq(Alerts!Key)
        /\ Keys(Append(a.pending, k)) = Keys(a.pending) \union {k}
    BY <2>2, AlertsAppend
  <2>4. /\ more \in Alerts!Seqs(MaxPending)
        /\ Keys(more) \subseteq Keys(a.pending) \union {k}
    BY <2>3, AlertsNewest DEF AlertsParameters
  <2> HIDE DEF more
  <2>5. b \in Alerts!State /\ b.sent = a.sent /\ b.pending = more
    BY <1>1, <2>4 DEF Alerts!State
  <2>6. k \notin Keys(sent)
    BY <1>1, <1>3, <2>2
  <2> HIDE DEF b
  <2> QED BY <1>1, <2>1, <2>4, <2>5, <2>6 DEF AlertsApart
<1> QED BY <1>1, <1>2, <1>3

\* Queueing the keys of a finite set one after the other, in whatever order.
LEMMA AlertsFold ==
    ASSUME AlertsParameters, NEW sent, NEW base, AlertsApart(base, sent),
           NEW S \in SUBSET Alerts!Key, IsFiniteSet(S)
    PROVE  AlertsApart(Alerts!FoldSet(LAMBDA p, b : Alerts!Enqueued(b, p), base, S), sent)
<1> DEFINE First(s) == CHOOSE x \in s : TRUE
           Next(f, s) == IF s = {} THEN base ELSE Alerts!Enqueued(f[s \ {First(s)}], First(s))
           Level(n) == {s \in SUBSET S : Cardinality(s) <= n}
           Folds(f, D) == f = [s \in D |-> Next(f, s)]
           Bad == {n \in Nat : ~ \E f : Folds(f, Level(n))}
<1>s. ASSUME NEW s \in SUBSET S
      PROVE  /\ Cardinality(s) \in Nat /\ (Cardinality(s) = 0 <=> s = {})
             /\ s # {} => /\ First(s) \in s /\ s \ {First(s)} \in SUBSET S
                          /\ Cardinality(s \ {First(s)}) = Cardinality(s) - 1
             /\ Cardinality(s) <= Cardinality(S)
  <2>1. IsFiniteSet(s)
    BY FS_Subset
  <2>2. Cardinality(s) \in Nat /\ (Cardinality(s) = 0 <=> s = {})
    BY <2>1, FS_CardinalityType, FS_EmptySet
  <2>3. Cardinality(s) <= Cardinality(S)
    BY FS_Subset
  <2>4. s # {} => /\ First(s) \in s /\ s \ {First(s)} \in SUBSET S
                  /\ Cardinality(s \ {First(s)}) = Cardinality(s) - 1
    <3>1. s # {} => First(s) \in s
      OBVIOUS
    <3> HIDE DEF First
    <3> QED BY <2>1, <3>1, FS_RemoveElement
  <2> QED BY <2>2, <2>3, <2>4
<1>1. 0 \notin Bad
  <2> DEFINE f == [s \in Level(0) |-> base]
  <2>1. ASSUME NEW s \in Level(0) PROVE s = {}
    <3>1. s \in SUBSET S /\ Cardinality(s) <= 0
      OBVIOUS
    <3> HIDE DEF Level, First
    <3>2. Cardinality(s) \in Nat /\ (Cardinality(s) = 0 <=> s = {})
      BY <1>s, <3>1
    <3>3. Cardinality(s) = 0
      BY <3>1, <3>2
    <3> QED BY <3>2, <3>3
  <2>2. Folds(f, Level(0))
    <3> HIDE DEF Level
    <3> QED BY <2>1
  <2> HIDE DEF f, Folds, Level
  <2> QED BY <2>2
<1>2. ASSUME NEW n \in Nat, n \notin Bad PROVE n + 1 \notin Bad
  <2>1. PICK f : Folds(f, Level(n))
    <3> HIDE DEF Folds, Level
    <3> QED BY <1>2
  <2> DEFINE g == [s \in Level(n + 1) |-> Next(f, s)]
  <2>2. \A s \in Level(n + 1) : s # {} => s \ {First(s)} \in Level(n)
    <3> HIDE DEF First
    <3>1. ASSUME NEW s \in Level(n + 1), s # {} PROVE s \ {First(s)} \in Level(n)
      <4>1. s \in SUBSET S /\ Cardinality(s) <= n + 1
        OBVIOUS
      <4>2. /\ Cardinality(s) \in Nat /\ s \ {First(s)} \in SUBSET S
            /\ Cardinality(s \ {First(s)}) = Cardinality(s) - 1
        BY <1>s, <3>1, <4>1
      <4> QED BY <4>1, <4>2
    <3> QED BY <3>1
  <2>3. ASSUME NEW s \in Level(n) PROVE s \in Level(n + 1)
    <3>1. s \in SUBSET S /\ Cardinality(s) <= n
      OBVIOUS
    <3>2. Cardinality(s) \in Nat
      <4> HIDE DEF Level, First
      <4> QED BY <1>s, <3>1
    <3>3. Cardinality(s) <= n + 1
      <4> HIDE DEF Level
      <4> QED BY <3>1, <3>2
    <3> QED BY <3>1, <3>3
  <2> HIDE DEF Level
  <2>4. \A s \in Level(n) : g[s] = f[s]
    <3>1. \A s \in Level(n) : f[s] = Next(f, s)
      <4>1. f = [s \in Level(n) |-> Next(f, s)]
        BY <2>1
      <4> HIDE DEF Next
      <4> QED BY <4>1
    <3> HIDE DEF Next
    <3> QED BY <2>3, <3>1
  <2>5. \A s \in Level(n + 1) : Next(g, s) = Next(f, s)
    <3> HIDE DEF g, First
    <3> QED BY <2>2, <2>4
  <2>6. Folds(g, Level(n + 1))
    <3>1. g = [s \in Level(n + 1) |-> Next(f, s)]
      OBVIOUS
    <3> HIDE DEF g, Next
    <3> QED BY <2>5, <3>1
  <2> HIDE DEF g, Folds
  <2> QED BY <2>6
<1>3. Bad = {}
  <2> SUFFICES ASSUME Bad # {} PROVE FALSE
    OBVIOUS
  <2>1. PICK x \in Bad : \A y \in Bad : x <= y
    <3>1. Bad \subseteq Nat
      OBVIOUS
    <3> HIDE DEF Bad
    <3> QED BY <3>1, AlertsLeast
  <2>2. x \in Nat
    OBVIOUS
  <2> HIDE DEF Bad
  <2>3. x # 0
    BY <1>1
  <2>4. x - 1 \in Nat /\ (x - 1) + 1 = x /\ x - 1 \notin Bad
    BY <2>1, <2>2, <2>3
  <2> QED BY <1>2, <2>4
<1>4. Cardinality(S) \in Nat
  BY FS_CardinalityType
<1>5. Level(Cardinality(S)) = SUBSET S
  <2> HIDE DEF First
  <2> QED BY <1>s
<1> DEFINE iter == CHOOSE f : Folds(f, SUBSET S)
<1>6. Folds(iter, SUBSET S)
  <2>1. \E f : Folds(f, Level(Cardinality(S)))
    <3> HIDE DEF Folds, Level
    <3> QED BY <1>3, <1>4
  <2> HIDE DEF Folds, Level
  <2> QED BY <1>5, <2>1
<1>7. Alerts!FoldSet(LAMBDA p, b : Alerts!Enqueued(b, p), base, S) = iter[S]
  BY DEF Alerts!FoldSet, Alerts!MapThenFoldSet
<1>8. \A s \in SUBSET S : iter[s] = Next(iter, s)
  <2>1. iter = [s \in SUBSET S |-> Next(iter, s)]
    BY <1>6
  <2> HIDE DEF iter, Next
  <2> QED BY <2>1
<1> HIDE DEF iter
<1> DEFINE Wrong == {n \in Nat : \E s \in SUBSET S :
                                  Cardinality(s) = n /\ ~AlertsApart(iter[s], sent)}
<1>9. Wrong = {}
  <2> SUFFICES ASSUME Wrong # {} PROVE FALSE
    OBVIOUS
  <2>1. PICK n \in Wrong : \A y \in Wrong : n <= y
    <3>1. Wrong \subseteq Nat
      OBVIOUS
    <3> HIDE DEF Wrong
    <3> QED BY <3>1, AlertsLeast
  <2>2. PICK s \in SUBSET S : Cardinality(s) = n /\ ~AlertsApart(iter[s], sent)
    OBVIOUS
  <2>3. s # {}
    BY <1>8, <2>2
  <2> DEFINE t == s \ {First(s)}
  <2>4. /\ t \in SUBSET S /\ Cardinality(t) \in Nat /\ Cardinality(t) < n
        /\ First(s) \in Alerts!Key
    <3>1. /\ First(s) \in s /\ t \in SUBSET S /\ Cardinality(t) = Cardinality(s) - 1
          /\ Cardinality(s) \in Nat \ {0}
      BY <1>s, <2>3
    <3> HIDE DEF t, First
    <3> QED BY <2>2, <3>1
  <2>5. Cardinality(t) \notin Wrong
    <3> HIDE DEF Wrong, t
    <3>1. n \in Nat
      BY DEF Wrong
    <3> QED BY <2>1, <2>4, <3>1
  <2>6. AlertsApart(iter[t], sent)
    <3> HIDE DEF t
    <3> QED BY <2>4, <2>5
  <2>7. iter[s] = Alerts!Enqueued(iter[t], First(s))
    <3> HIDE DEF First
    <3> QED BY <1>8, <2>3
  <2>8. AlertsApart(iter[s], sent)
    <3> HIDE DEF t, First
    <3> QED BY <2>4, <2>6, <2>7, AlertsEnqueued
  <2> QED BY <2>2, <2>8
<1>10. AlertsApart(iter[S], sent)
  <2>1. Cardinality(S) \notin Wrong
    BY <1>9
  <2> QED BY <1>4, <2>1
<1> QED BY <1>7, <1>10

-----------------------------------------------------------------------------
(* The invariant.                                                           *)

\* One digest at a time is in flight.
AlertsFlight ==
    /\ \A c, d \in Caller : cycle[c] # {} /\ cycle[d] # {} => c = d
    /\ inFlight <=> \E c \in Caller : cycle[c] # {}

\* What counts as sent was mailed or queued late; what waits while a digest is in flight
\* is in the digest or was queued late.
AlertsTrueIn(a) == \A k \in Keys(a.sent) : mails[k] > 0 \/ k \in late

AlertsTrue ==
    /\ AlertsTrueIn(alerts) /\ AlertsTrueIn(saved)
    /\ inFlight => \A k \in Keys(alerts.pending) : k \in Alerts!OnTheWay \/ k \in late

\* A key whose mails and records are whole waits or is sent, never both; it was mailed
\* once only if it counts as sent, and is in flight only while it waits.
AlertsOnceFor(k) ==
    /\ mails[k] <= 1
    /\ mails[k] = 1 => k \in Keys(alerts.sent)
    /\ k \in Alerts!OnTheWay => k \in Keys(alerts.pending)

AlertsOnce ==
    /\ AlertsApart(alerts, alerts.sent) /\ AlertsApart(saved, saved.sent)
    /\ \A k \in Alerts!Key \ excused : AlertsOnceFor(k)

AlertsInv == Alerts!TypeOK /\ AlertsFlight /\ AlertsTrue /\ AlertsOnce

LEMMA AlertsShape ==
    ASSUME AlertsParameters, Alerts!TypeOK
    PROVE  /\ alerts \in Alerts!State /\ saved \in Alerts!State
           /\ alerts.pending \in Seq(Alerts!Key) /\ Len(alerts.pending) <= MaxPending
           /\ alerts.sent \in Seq(Alerts!Key) /\ Len(alerts.sent) <= MaxSent
           /\ Alerts!ToSet(alerts.pending) = Keys(alerts.pending)
           /\ Alerts!ToSet(alerts.sent) = Keys(alerts.sent)
           /\ Alerts!ToSet(saved.sent) = Keys(saved.sent)
           /\ Alerts!Known(alerts) = Keys(alerts.sent) \union Keys(alerts.pending)
           /\ Alerts!Known(saved) = Keys(saved.sent) \union Keys(saved.pending)
           /\ Keys(alerts.sent) \subseteq Alerts!Key /\ Keys(alerts.pending) \subseteq Alerts!Key
           /\ Keys(saved.sent) \subseteq Alerts!Key
           /\ cycle \in [Caller -> {{}} \union {{d} : d \in SUBSET Alerts!Key}]
           /\ inFlight \in BOOLEAN /\ broken \subseteq Platform /\ mails \in [Alerts!Key -> 0 .. 2]
           /\ excused \subseteq Alerts!Key /\ late \subseteq Alerts!Key /\ cut \subseteq Alerts!Key
           /\ restarts \in 0 .. MaxRestarts
BY AlertsStateType DEF Alerts!TypeOK

LEMMA AlertsOnTheWayType ==
    ASSUME Alerts!TypeOK
    PROVE  /\ Alerts!OnTheWay \subseteq Alerts!Key
           /\ \A c \in Caller : UNION cycle[c] \subseteq Alerts!OnTheWay
           /\ \A k \in Alerts!OnTheWay : \E c \in Caller : cycle[c] # {} /\ k \in UNION cycle[c]
<1>1. \A c \in Caller : cycle[c] \in {{}} \union {{d} : d \in SUBSET Alerts!Key}
  BY DEF Alerts!TypeOK
<1>2. \A c \in Caller : UNION cycle[c] \subseteq Alerts!Key
  BY <1>1
<1>3. Alerts!OnTheWay = UNION {UNION cycle[c] : c \in Caller}
  BY DEF Alerts!OnTheWay
<1>4. \A k \in Alerts!OnTheWay : \E c \in Caller : k \in UNION cycle[c]
  BY <1>3
<1>5. \A c \in Caller : UNION cycle[c] \subseteq Alerts!OnTheWay
  BY <1>3
<1> QED BY <1>2, <1>4, <1>5

\* The queue changes, and no digest is sent or ended.
LEMMA AlertsQueued ==
    ASSUME AlertsParameters, AlertsInv, NEW a, AlertsApart(a, a.sent),
           Keys(a.sent) \subseteq Keys(alerts.sent), Alerts!Queue(a)
    PROVE  /\ alerts' = a
           /\ late \subseteq late' /\ late' \subseteq Alerts!Key
           /\ excused \subseteq excused' /\ excused' \subseteq Alerts!Key
           /\ cut' \subseteq Alerts!Key
           /\ inFlight => \A k \in Keys(a.pending) : k \in Alerts!OnTheWay \/ k \in late'
           /\ \A k \in Keys(alerts.pending) \ Keys(a.pending) : k \in cut'
           /\ \A k \in Alerts!OnTheWay \ excused' :
                 k \in Keys(alerts.pending) => k \in Keys(a.pending)
           /\ \A k \in Keys(alerts.sent) \ excused' : k \in Keys(a.sent)
<1>t. /\ Alerts!ToSet(alerts.pending) = Keys(alerts.pending)
      /\ Alerts!ToSet(alerts.sent) = Keys(alerts.sent)
      /\ Keys(alerts.sent) \subseteq Alerts!Key /\ Keys(alerts.pending) \subseteq Alerts!Key
      /\ excused \subseteq Alerts!Key /\ late \subseteq Alerts!Key /\ cut \subseteq Alerts!Key
  BY AlertsShape DEF AlertsInv
<1>a. /\ Alerts!ToSet(a.pending) = Keys(a.pending) /\ Alerts!ToSet(a.sent) = Keys(a.sent)
      /\ Keys(a.pending) \subseteq Alerts!Key
  BY AlertsStateType DEF AlertsApart
<1>o. Alerts!OnTheWay \subseteq Alerts!Key
  BY AlertsOnTheWayType DEF AlertsInv
<1>1. /\ alerts' = a
      /\ late' = late \union
            (IF inFlight THEN (Keys(a.pending) \ Keys(alerts.pending)) \ Alerts!OnTheWay ELSE {})
      /\ cut' = (cut \ (Keys(a.pending) \ Keys(alerts.pending)))
               \union (Keys(alerts.pending) \ Keys(a.pending))
      /\ excused' = excused
            \union ((Keys(alerts.pending) \ Keys(a.pending)) \intersect Alerts!OnTheWay)
            \union (Keys(alerts.sent) \ Keys(a.sent))
  BY <1>t, <1>a DEF Alerts!Queue
<1>2. inFlight => \A k \in Keys(a.pending) : k \in Alerts!OnTheWay \/ k \in late'
  BY <1>1 DEF AlertsInv, AlertsTrue
<1> QED BY <1>1, <1>2, <1>t, <1>a, <1>o

\* The digests stay as they are.
LEMMA AlertsQueueKeeps ==
    ASSUME AlertsParameters, AlertsInv, NEW a, AlertsApart(a, a.sent),
           Keys(a.sent) \subseteq Keys(alerts.sent), Alerts!Queue(a),
           UNCHANGED <<saved, cycle, inFlight, broken, mails, restarts>>
    PROVE  AlertsInv'
<1>1. /\ alerts' = a
      /\ late \subseteq late' /\ late' \subseteq Alerts!Key
      /\ excused \subseteq excused' /\ excused' \subseteq Alerts!Key
      /\ cut' \subseteq Alerts!Key
      /\ inFlight => \A k \in Keys(a.pending) : k \in Alerts!OnTheWay \/ k \in late'
      /\ \A k \in Alerts!OnTheWay \ excused' :
            k \in Keys(alerts.pending) => k \in Keys(a.pending)
      /\ \A k \in Keys(alerts.sent) \ excused' : k \in Keys(a.sent)
  BY AlertsQueued
<1>2. Alerts!OnTheWay' = Alerts!OnTheWay
  BY DEF Alerts!OnTheWay
<1>3. Alerts!TypeOK'
  BY <1>1 DEF AlertsInv, Alerts!TypeOK, AlertsApart
<1>4. AlertsFlight'
  BY DEF AlertsInv, AlertsFlight
<1>5. AlertsTrue'
  <2>1. AlertsTrueIn(alerts) /\ AlertsTrueIn(saved)
    BY DEF AlertsInv, AlertsTrue
  <2>2. AlertsTrueIn(alerts)' /\ AlertsTrueIn(saved)'
    BY <1>1, <2>1 DEF AlertsTrueIn
  <2> QED BY <1>1, <1>2, <2>2 DEF AlertsTrue
<1>6. AlertsOnce'
  <2>1. ASSUME NEW k \in Alerts!Key \ excused' PROVE AlertsOnceFor(k)'
    <3>1. AlertsOnceFor(k)
      BY <1>1, <2>1 DEF AlertsInv, AlertsOnce
    <3> QED BY <1>1, <1>2, <2>1, <3>1 DEF AlertsOnceFor
  <2>2. AlertsApart(alerts, alerts.sent)' /\ AlertsApart(saved, saved.sent)'
    BY <1>1 DEF AlertsInv, AlertsOnce, AlertsApart
  <2> QED BY <2>1, <2>2 DEF AlertsOnce
<1> QED BY <1>3, <1>4, <1>5, <1>6 DEF AlertsInv

\* The state after the platforms have been looked at.
LEMMA AlertsReauth ==
    ASSUME AlertsParameters, AlertsInv
    PROVE  /\ AlertsApart(Alerts!Reauth(alerts), Alerts!Reauth(alerts).sent)
           /\ Keys(Alerts!Reauth(alerts).sent) \subseteq Keys(alerts.sent)
<1>t. /\ alerts \in Alerts!State /\ alerts.sent \in Seq(Alerts!Key)
      /\ Len(alerts.sent) <= MaxSent /\ broken \subseteq Platform
      /\ AlertsApart(alerts, alerts.sent)
  BY AlertsShape DEF AlertsInv, AlertsOnce
<1>1. CASE ~alerts.enabled
  BY <1>1, <1>t DEF Alerts!Reauth
<1>2. CASE alerts.enabled
  <2> DEFINE rest == Alerts!Forget(alerts.sent, Platform \ broken)
             base == [alerts EXCEPT !.sent = rest]
             end == Alerts!FoldSet(LAMBDA p, b : Alerts!Enqueued(b, p), base, broken)
  <2>1. rest \in Seq(Alerts!Key) /\ Len(rest) <= Len(alerts.sent)
        /\ Keys(rest) \subseteq Keys(alerts.sent)
    BY <1>t, AlertsForget
  <2>2. Alerts!Reauth(alerts) = end
    BY <1>2 DEF Alerts!Reauth
  <2>3. rest \in Alerts!Seqs(MaxSent)
    <3>1. Len(rest) \in Nat /\ Len(alerts.sent) \in Nat
      <4> HIDE DEF rest
      <4> QED BY <2>1, <1>t
    <3> HIDE DEF rest
    <3> QED BY <2>1, <3>1, <1>t, AlertsSeqs DEF AlertsParameters
  <2>4. AlertsApart(base, rest)
    <3> HIDE DEF rest
    <3>1. base \in Alerts!State /\ base.sent = rest /\ base.pending = alerts.pending
      BY <2>3, <1>t DEF Alerts!State
    <3> HIDE DEF base
    <3> QED BY <2>1, <3>1, <1>t DEF AlertsApart
  <2>5. broken \in SUBSET Alerts!Key /\ IsFiniteSet(broken)
    BY <1>t, FS_Subset DEF AlertsParameters, Alerts!Key
  <2>6. AlertsApart(end, rest)
    <3> HIDE DEF rest, base
    <3> QED BY <2>4, <2>5, AlertsFold
  <2> HIDE DEF rest, base, end
  <2>7. end.sent = rest
    BY <2>6 DEF AlertsApart
  <2> QED BY <2>1, <2>2, <2>6, <2>7
<1> QED BY <1>1, <1>2, <1>t DEF Alerts!State

\* Neither the queue, nor what was sent, nor the digests change.
LEMMA AlertsSame ==
    ASSUME AlertsParameters, AlertsInv, alerts' \in Alerts!State,
           alerts'.pending = alerts.pending, alerts'.sent = alerts.sent,
           saved' = saved \/ saved' = alerts', broken' \subseteq Platform,
           UNCHANGED <<cycle, inFlight, mails, excused, late, cut, restarts>>
    PROVE  AlertsInv'
<1>1. saved' \in Alerts!State /\ Alerts!OnTheWay' = Alerts!OnTheWay
  BY DEF AlertsInv, Alerts!TypeOK, Alerts!OnTheWay
<1>2. Alerts!TypeOK' /\ AlertsFlight'
  BY <1>1 DEF AlertsInv, Alerts!TypeOK, AlertsFlight
<1>3. AlertsTrue'
  BY <1>1 DEF AlertsInv, AlertsTrue, AlertsTrueIn
<1>4. AlertsOnce'
  BY <1>1 DEF AlertsInv, AlertsOnce, AlertsOnceFor, AlertsApart
<1> QED BY <1>2, <1>3, <1>4 DEF AlertsInv

LEMMA AlertsArrive ==
    ASSUME Alerts!TypeOK, NEW keys, Alerts!Arrive(keys)
    PROVE  /\ mails' \in [Alerts!Key -> 0 .. 2]
           /\ \A k \in Alerts!Key : /\ mails[k] \in 0 .. 2 /\ mails'[k] \in 0 .. 2
                                    /\ mails[k] > 0 => mails'[k] > 0
                                    /\ k \in keys => mails'[k] > 0
                                    /\ k \in keys /\ mails[k] = 0 => mails'[k] = 1
                                    /\ k \notin keys => mails'[k] = mails[k]
<1>1. /\ mails' = [k \in Alerts!Key |-> IF k \in keys THEN Alerts!Min2(mails[k]) ELSE mails[k]]
      /\ \A k \in Alerts!Key : mails[k] \in 0 .. 2
  BY DEF Alerts!Arrive, Alerts!TypeOK
<1>2. \A n \in 0 .. 2 : /\ Alerts!Min2(n) \in 1 .. 2 /\ (n = 0 => Alerts!Min2(n) = 1)
                        /\ Alerts!Min2(n) \in 0 .. 2 /\ Alerts!Min2(n) > 0
  BY DEF Alerts!Min2
<1> QED BY <1>1, <1>2

\* The digest in flight is the one of c.
LEMMA AlertsOnly ==
    ASSUME AlertsParameters, AlertsInv, NEW c \in Caller, cycle[c] # {}
    PROVE  /\ inFlight /\ Alerts!OnTheWay = UNION cycle[c] /\ UNION cycle[c] \subseteq Alerts!Key
           /\ \A d \in Caller : d # c => cycle[d] = {}
           /\ cycle' = [cycle EXCEPT ![c] = {}] =>
                 /\ \A d \in Caller : cycle'[d] = {}
                 /\ Alerts!OnTheWay' = {}
                 /\ cycle' \in [Caller -> {{}} \union {{d} : d \in SUBSET Alerts!Key}]
<1>1. inFlight /\ \A d \in Caller : d # c => cycle[d] = {}
  BY DEF AlertsInv, AlertsFlight
<1>2. Alerts!OnTheWay = UNION cycle[c] /\ UNION cycle[c] \subseteq Alerts!Key
  <2>1. \A k \in Alerts!OnTheWay : k \in UNION cycle[c]
    BY <1>1, AlertsOnTheWayType DEF AlertsInv
  <2>2. UNION cycle[c] \subseteq Alerts!OnTheWay /\ Alerts!OnTheWay \subseteq Alerts!Key
    BY AlertsOnTheWayType DEF AlertsInv
  <2> QED BY <2>1, <2>2
<1>3. ASSUME cycle' = [cycle EXCEPT ![c] = {}]
      PROVE  /\ \A d \in Caller : cycle'[d] = {}
             /\ Alerts!OnTheWay' = {}
             /\ cycle' \in [Caller -> {{}} \union {{d} : d \in SUBSET Alerts!Key}]
  <2>1. cycle \in [Caller -> {{}} \union {{d} : d \in SUBSET Alerts!Key}]
    BY DEF AlertsInv, Alerts!TypeOK
  <2>2. \A d \in Caller : cycle'[d] = {}
    BY <1>1, <1>3, <2>1
  <2>3. Alerts!OnTheWay' = {}
    <3>1. Alerts!OnTheWay' = UNION {UNION cycle'[d] : d \in Caller}
      BY DEF Alerts!OnTheWay
    <3> QED BY <2>2, <3>1
  <2> QED BY <1>3, <2>1, <2>2, <2>3
<1> QED BY <1>1, <1>2, <1>3

LEMMA AlertsCycle ==
    ASSUME AlertsParameters, AlertsInv, NEW c \in Caller, Alerts!Cycle(c)
    PROVE  AlertsInv'
<1> DEFINE a == Alerts!Reauth(alerts)
<1>1. /\ Alerts!Queue(a) /\ ~inFlight /\ cycle[c] = {}
      /\ \/ cycle' = [cycle EXCEPT ![c] = {Alerts!ToSet(a.pending)}] /\ inFlight' = TRUE
         \/ cycle' = cycle /\ inFlight' = inFlight
      /\ UNCHANGED <<saved, broken, mails, restarts>>
  BY DEF Alerts!Cycle, Alerts!Free
<1>2. AlertsApart(a, a.sent) /\ Keys(a.sent) \subseteq Keys(alerts.sent)
  BY AlertsReauth
<1> HIDE DEF a
<1>3. CASE cycle' = cycle /\ inFlight' = inFlight
  BY <1>1, <1>2, <1>3, AlertsQueueKeeps
<1>4. CASE cycle' = [cycle EXCEPT ![c] = {Alerts!ToSet(a.pending)}] /\ inFlight' = TRUE
  <2>1. /\ alerts' = a
        /\ late \subseteq late' /\ late' \subseteq Alerts!Key
        /\ excused \subseteq excused' /\ excused' \subseteq Alerts!Key
        /\ cut' \subseteq Alerts!Key
        /\ \A k \in Keys(alerts.sent) \ excused' : k \in Keys(a.sent)
    BY <1>1, <1>2, AlertsQueued
  <2>2. /\ Alerts!ToSet(a.pending) = Keys(a.pending) /\ Keys(a.pending) \subseteq Alerts!Key
        /\ a \in Alerts!State
    BY <1>2, AlertsStateType DEF AlertsApart
  <2>3. \A d \in Caller : cycle[d] = {}
    BY <1>1 DEF AlertsInv, AlertsFlight
  <2>4. /\ cycle'[c] = {Keys(a.pending)} /\ \A d \in Caller : d # c => cycle'[d] = {}
        /\ cycle' \in [Caller -> {{}} \union {{d} : d \in SUBSET Alerts!Key}]
    BY <1>4, <2>2, <2>3 DEF AlertsInv, Alerts!TypeOK
  <2>5. Alerts!OnTheWay' = Keys(a.pending)
    <3>1. Alerts!OnTheWay' = UNION {UNION cycle'[d] : d \in Caller}
      BY DEF Alerts!OnTheWay
    <3>2. UNION cycle'[c] = Keys(a.pending) /\ \A d \in Caller : d # c => UNION cycle'[d] = {}
      BY <2>4
    <3> QED BY <3>1, <3>2
  <2>6. Alerts!TypeOK'
    BY <1>1, <1>4, <2>1, <2>2, <2>4 DEF AlertsInv, Alerts!TypeOK
  <2>7. AlertsFlight'
    BY <1>4, <2>4 DEF AlertsFlight
  <2>8. AlertsTrue'
    <3>1. AlertsTrueIn(alerts) /\ AlertsTrueIn(saved)
      BY DEF AlertsInv, AlertsTrue
    <3>2. AlertsTrueIn(alerts)' /\ AlertsTrueIn(saved)'
      BY <1>1, <1>2, <2>1, <3>1 DEF AlertsTrueIn
    <3> QED BY <2>1, <2>5, <3>2 DEF AlertsTrue
  <2>9. AlertsOnce'
    <3>1. ASSUME NEW k \in Alerts!Key \ excused' PROVE AlertsOnceFor(k)'
      <4>1. AlertsOnceFor(k)
        BY <2>1, <3>1 DEF AlertsInv, AlertsOnce
      <4> QED BY <1>1, <2>1, <2>5, <3>1, <4>1 DEF AlertsOnceFor
    <3>2. AlertsApart(alerts, alerts.sent)' /\ AlertsApart(saved, saved.sent)'
      BY <1>1, <1>2, <2>1 DEF AlertsInv, AlertsOnce, AlertsApart
    <3> QED BY <3>1, <3>2 DEF AlertsOnce
  <2> QED BY <2>6, <2>7, <2>8, <2>9 DEF AlertsInv
<1> QED BY <1>1, <1>3, <1>4

\* The queue of the moment becomes what was sent.
LEMMA AlertsMarked ==
    ASSUME AlertsParameters, AlertsInv
    PROVE  /\ AlertsApart(Alerts!MarkedSent, Alerts!MarkedSent.sent)
           /\ Keys(Alerts!MarkedSent.pending) = {}
           /\ Keys(Alerts!MarkedSent.sent) \subseteq Alerts!Known(alerts)
           /\ \A k \in Alerts!Known(alerts) :
                 \/ k \in Keys(Alerts!MarkedSent.sent)
                 \/ Alerts!Overflown /\ k \notin Alerts!Known(Alerts!MarkedSent)
<1> DEFINE all == alerts.sent \o alerts.pending
           sent == Alerts!Newest(all, MaxSent)
<1>t. /\ alerts \in Alerts!State /\ alerts.pending \in Seq(Alerts!Key)
      /\ alerts.sent \in Seq(Alerts!Key)
      /\ Alerts!Known(alerts) = Keys(alerts.sent) \union Keys(alerts.pending)
      /\ MaxSent \in Nat /\ MaxPending \in Nat
  BY AlertsShape DEF AlertsInv, AlertsParameters
<1>1. /\ all \in Seq(Alerts!Key) /\ Keys(all) = Alerts!Known(alerts)
      /\ Len(all) = Len(alerts.sent) + Len(alerts.pending)
  BY <1>t, AlertsConcat
<1>2. /\ sent \in Alerts!Seqs(MaxSent) /\ Keys(sent) \subseteq Alerts!Known(alerts)
      /\ Len(all) <= MaxSent => sent = all
  <2>1. all \in Seq(Alerts!Key) /\ MaxSent \in Nat
    BY <1>1, <1>t
  <2> HIDE DEF all
  <2>2. /\ Alerts!Newest(all, MaxSent) \in Alerts!Seqs(MaxSent)
        /\ Keys(Alerts!Newest(all, MaxSent)) \subseteq Keys(all)
        /\ Len(all) <= MaxSent => Alerts!Newest(all, MaxSent) = all
    BY <2>1, AlertsNewest
  <2> QED BY <1>1, <2>2
<1>3. << >> \in Alerts!Seqs(MaxPending) /\ Keys(<< >>) = {}
  <2>1. << >> \in [1 .. 0 -> Alerts!Key] /\ 0 \in 0 .. MaxPending
    BY <1>t
  <2>2. << >> \in Alerts!Seqs(MaxPending)
    BY <2>1 DEF Alerts!Seqs
  <2> QED BY <2>2 DEF Keys
<1>4. Alerts!MarkedSent = [alerts EXCEPT !.pending = << >>, !.quiet = TRUE, !.sent = sent]
  BY <1>t DEF Alerts!MarkedSent, Alerts!State
<1> HIDE DEF sent
<1>5. /\ Alerts!MarkedSent \in Alerts!State
      /\ Alerts!MarkedSent.pending = << >> /\ Alerts!MarkedSent.sent = sent
  BY <1>2, <1>3, <1>4, <1>t DEF Alerts!State
<1>6. Alerts!Known(Alerts!MarkedSent) = Keys(sent)
  BY <1>3, <1>5, AlertsStateType
<1>7. Len(alerts.sent) + Len(alerts.pending) <= MaxSent \/ Alerts!Overflown
  <2>1. Len(alerts.sent) \in Nat /\ Len(alerts.pending) \in Nat /\ MaxSent \in Nat
    BY <1>t
  <2>2. \A m, n, b \in Nat : m + n <= b \/ m + n > b
    OBVIOUS
  <2>3. \/ Len(alerts.sent) + Len(alerts.pending) <= MaxSent
        \/ Len(alerts.sent) + Len(alerts.pending) > MaxSent
    BY <2>1, <2>2
  <2> QED BY <2>3 DEF Alerts!Overflown
<1> HIDE DEF all
<1> QED BY <1>1, <1>2, <1>3, <1>5, <1>6, <1>7 DEF AlertsApart

LEMMA AlertsSent ==
    ASSUME AlertsParameters, AlertsInv, NEW c \in Caller, Alerts!Sent(c)
    PROVE  AlertsInv'
<1>1. /\ cycle[c] # {} /\ Alerts!Arrive(UNION cycle[c]) /\ alerts' = Alerts!MarkedSent
      /\ excused' = excused \union
           (IF Alerts!Overflown
            THEN Alerts!Known(alerts) \ Alerts!Known(Alerts!MarkedSent) ELSE {})
      /\ cycle' = [cycle EXCEPT ![c] = {}] /\ inFlight' = FALSE
      /\ UNCHANGED <<saved, broken, late, cut, restarts>>
  BY DEF Alerts!Sent
<1>t. /\ Alerts!Known(alerts) = Keys(alerts.sent) \union Keys(alerts.pending)
      /\ Alerts!Known(alerts) \subseteq Alerts!Key /\ excused \subseteq Alerts!Key
      /\ Keys(saved.sent) \subseteq Alerts!Key
  BY AlertsShape DEF AlertsInv
<1>2. /\ inFlight /\ Alerts!OnTheWay = UNION cycle[c]
      /\ \A d \in Caller : cycle'[d] = {}
      /\ Alerts!OnTheWay' = {}
      /\ cycle' \in [Caller -> {{}} \union {{d} : d \in SUBSET Alerts!Key}]
  BY <1>1, AlertsOnly
<1>3. /\ AlertsApart(alerts', alerts'.sent) /\ Keys(alerts'.pending) = {}
      /\ Keys(alerts'.sent) \subseteq Alerts!Known(alerts)
      /\ \A k \in Alerts!Known(alerts) \ excused' : k \in Keys(alerts'.sent)
  BY <1>1, AlertsMarked
<1>4. /\ mails' \in [Alerts!Key -> 0 .. 2]
      /\ \A k \in Alerts!Key : /\ mails[k] \in 0 .. 2 /\ mails'[k] \in 0 .. 2
                               /\ mails[k] > 0 => mails'[k] > 0
                               /\ k \in UNION cycle[c] => mails'[k] > 0
                               /\ k \in UNION cycle[c] /\ mails[k] = 0 => mails'[k] = 1
                               /\ k \notin UNION cycle[c] => mails'[k] = mails[k]
  BY <1>1, AlertsArrive DEF AlertsInv
<1>5. Alerts!TypeOK'
  <2>1. excused' \subseteq Alerts!Key
    BY <1>1, <1>t
  <2> QED BY <1>1, <1>2, <1>3, <1>4, <2>1 DEF AlertsInv, Alerts!TypeOK, AlertsApart
<1>6. AlertsFlight'
  BY <1>1, <1>2 DEF AlertsFlight
<1>7. AlertsTrue'
  <2>1. /\ AlertsTrueIn(alerts) /\ AlertsTrueIn(saved)
        /\ \A k \in Keys(alerts.pending) : k \in UNION cycle[c] \/ k \in late
    BY <1>2 DEF AlertsInv, AlertsTrue
  <2>2. AlertsTrueIn(alerts)'
    BY <1>1, <1>3, <1>4, <1>t, <2>1 DEF AlertsTrueIn
  <2>3. AlertsTrueIn(saved)'
    BY <1>1, <1>4, <1>t, <2>1 DEF AlertsTrueIn
  <2> QED BY <1>1, <2>2, <2>3 DEF AlertsTrue
<1>8. AlertsOnce'
  <2>1. ASSUME NEW k \in Alerts!Key \ excused' PROVE AlertsOnceFor(k)'
    <3>1. AlertsOnceFor(k)
      BY <1>1, <2>1 DEF AlertsInv, AlertsOnce
    <3>2. CASE k \in UNION cycle[c]
      <4>1. k \in Keys(alerts.pending)
        BY <1>2, <3>1, <3>2 DEF AlertsOnceFor
      <4>2. k \notin Keys(alerts.sent)
        BY <4>1 DEF AlertsInv, AlertsOnce, AlertsApart
      <4>3. mails[k] = 0
        BY <1>4, <3>1, <4>2 DEF AlertsOnceFor
      <4>4. mails'[k] = 1 /\ k \in Keys(alerts'.sent)
        BY <1>3, <1>4, <1>t, <2>1, <3>2, <4>1, <4>3
      <4> QED BY <1>2, <4>4 DEF AlertsOnceFor
    <3>3. CASE k \notin UNION cycle[c]
      BY <1>2, <1>3, <1>4, <1>t, <2>1, <3>1, <3>3 DEF AlertsOnceFor
    <3> QED BY <3>2, <3>3
  <2>2. AlertsApart(alerts, alerts.sent)' /\ AlertsApart(saved, saved.sent)'
    BY <1>1, <1>3 DEF AlertsInv, AlertsOnce, AlertsApart
  <2> QED BY <2>1, <2>2 DEF AlertsOnce
<1> QED BY <1>5, <1>6, <1>7, <1>8 DEF AlertsInv

LEMMA AlertsFailed ==
    ASSUME AlertsParameters, AlertsInv, NEW c \in Caller, Alerts!Failed(c)
    PROVE  AlertsInv'
<1>1. /\ cycle[c] # {} /\ alerts' = alerts
      /\ \/ Alerts!Arrive(UNION cycle[c]) /\ excused' = excused \union UNION cycle[c]
         \/ mails' = mails /\ excused' = excused
      /\ cycle' = [cycle EXCEPT ![c] = {}] /\ inFlight' = FALSE
      /\ UNCHANGED <<saved, broken, late, cut, restarts>>
  BY DEF Alerts!Failed, Alerts!MarkedFailed, Alerts!Released
<1>2. /\ UNION cycle[c] \subseteq Alerts!Key
      /\ \A d \in Caller : cycle'[d] = {}
      /\ Alerts!OnTheWay' = {}
      /\ cycle' \in [Caller -> {{}} \union {{d} : d \in SUBSET Alerts!Key}]
  BY <1>1, AlertsOnly
<1>t. /\ excused \subseteq Alerts!Key /\ mails \in [Alerts!Key -> 0 .. 2]
      /\ Keys(alerts.sent) \subseteq Alerts!Key /\ Keys(saved.sent) \subseteq Alerts!Key
  BY AlertsShape DEF AlertsInv
<1>3. /\ mails' \in [Alerts!Key -> 0 .. 2]
      /\ \A k \in Alerts!Key : /\ mails[k] > 0 => mails'[k] > 0
                               /\ k \notin excused' => mails'[k] = mails[k]
      /\ excused \subseteq excused' /\ excused' \subseteq Alerts!Key
  <2>1. CASE Alerts!Arrive(UNION cycle[c]) /\ excused' = excused \union UNION cycle[c]
    BY <1>2, <1>t, <2>1, AlertsArrive DEF AlertsInv
  <2>2. CASE mails' = mails /\ excused' = excused
    BY <1>t, <2>2
  <2> QED BY <1>1, <2>1, <2>2
<1>5. Alerts!TypeOK'
  BY <1>1, <1>2, <1>3 DEF AlertsInv, Alerts!TypeOK
<1>6. AlertsFlight'
  BY <1>1, <1>2 DEF AlertsFlight
<1>7. AlertsTrue'
  <2>1. AlertsTrueIn(alerts) /\ AlertsTrueIn(saved)
    BY DEF AlertsInv, AlertsTrue
  <2>2. AlertsTrueIn(alerts)' /\ AlertsTrueIn(saved)'
    BY <1>1, <1>3, <1>t, <2>1 DEF AlertsTrueIn
  <2> QED BY <1>1, <2>2 DEF AlertsTrue
<1>8. AlertsOnce'
  <2>1. ASSUME NEW k \in Alerts!Key \ excused' PROVE AlertsOnceFor(k)'
    <3>1. AlertsOnceFor(k)
      BY <1>3, <2>1 DEF AlertsInv, AlertsOnce
    <3> QED BY <1>1, <1>2, <1>3, <2>1, <3>1 DEF AlertsOnceFor
  <2>2. AlertsApart(alerts, alerts.sent)' /\ AlertsApart(saved, saved.sent)'
    BY <1>1 DEF AlertsInv, AlertsOnce
  <2> QED BY <2>1, <2>2 DEF AlertsOnce
<1> QED BY <1>5, <1>6, <1>7, <1>8 DEF AlertsInv

LEMMA AlertsRestart ==
    ASSUME AlertsParameters, AlertsInv, Alerts!Restart
    PROVE  AlertsInv'
<1>1. PICK keys \in {{}, Alerts!OnTheWay} : Alerts!Arrive(keys)
  BY DEF Alerts!Restart
<1>2. /\ restarts < MaxRestarts /\ restarts' = restarts + 1 /\ alerts' = saved
      /\ excused' = excused \union Alerts!OnTheWay
                    \union (Alerts!Known(alerts) \ Alerts!ToSet(saved.sent))
      /\ cut' = cut \union (Alerts!Known(alerts) \ Alerts!Known(saved))
      /\ cycle' = [c \in Caller |-> {}] /\ inFlight' = FALSE
      /\ UNCHANGED <<saved, broken, late>>
  BY DEF Alerts!Restart, Alerts!Restored
<1>t. /\ Alerts!Known(alerts) = Keys(alerts.sent) \union Keys(alerts.pending)
      /\ Alerts!Known(alerts) \subseteq Alerts!Key /\ excused \subseteq Alerts!Key
      /\ Keys(saved.sent) \subseteq Alerts!Key /\ Alerts!ToSet(saved.sent) = Keys(saved.sent)
      /\ cut \subseteq Alerts!Key /\ restarts \in 0 .. MaxRestarts
  BY AlertsShape DEF AlertsInv
<1>3. Alerts!OnTheWay \subseteq Alerts!Key
  BY AlertsOnTheWayType DEF AlertsInv
<1>4. /\ mails' \in [Alerts!Key -> 0 .. 2]
      /\ \A k \in Alerts!Key : /\ mails[k] > 0 => mails'[k] > 0
                               /\ k \notin keys => mails'[k] = mails[k]
      /\ keys \subseteq Alerts!OnTheWay
  BY <1>1, AlertsArrive DEF AlertsInv
<1>5. excused \subseteq excused' /\ excused' \subseteq Alerts!Key /\ cut' \subseteq Alerts!Key
  BY <1>2, <1>3, <1>t
<1>6. \A c \in Caller : cycle'[c] = {}
  BY <1>2
<1>7. Alerts!OnTheWay' = {}
  <2>1. Alerts!OnTheWay' = UNION {UNION cycle'[d] : d \in Caller}
    BY DEF Alerts!OnTheWay
  <2> QED BY <1>6, <2>1
<1>8. Alerts!TypeOK'
  <2>1. restarts' \in 0 .. MaxRestarts
    BY <1>2, <1>t DEF AlertsParameters
  <2> QED BY <1>2, <1>4, <1>5, <2>1 DEF AlertsInv, Alerts!TypeOK
<1>9. AlertsFlight'
  BY <1>2, <1>6 DEF AlertsFlight
<1>10. AlertsTrue'
  <2>1. AlertsTrueIn(saved)
    BY DEF AlertsInv, AlertsTrue
  <2>2. AlertsTrueIn(alerts)' /\ AlertsTrueIn(saved)'
    BY <1>2, <1>4, <1>t, <2>1 DEF AlertsTrueIn
  <2> QED BY <1>2, <2>2 DEF AlertsTrue
<1>11. AlertsOnce'
  <2>1. ASSUME NEW k \in Alerts!Key \ excused' PROVE AlertsOnceFor(k)'
    <3>1. AlertsOnceFor(k)
      BY <1>5, <2>1 DEF AlertsInv, AlertsOnce
    <3>2. /\ k \notin Alerts!OnTheWay
          /\ k \in Keys(alerts.sent) => k \in Keys(saved.sent)
      BY <1>2, <1>t, <2>1
    <3> QED BY <1>2, <1>4, <1>7, <2>1, <3>1, <3>2 DEF AlertsOnceFor
  <2>2. AlertsApart(alerts, alerts.sent)' /\ AlertsApart(saved, saved.sent)'
    BY <1>2 DEF AlertsInv, AlertsOnce
  <2> QED BY <2>1, <2>2 DEF AlertsOnce
<1> QED BY <1>8, <1>9, <1>10, <1>11 DEF AlertsInv

LEMMA AlertsStep ==
    ASSUME AlertsParameters PROVE AlertsInv /\ [Alerts!Next]_(Alerts!vars) => AlertsInv'
<1> SUFFICES ASSUME AlertsInv, [Alerts!Next]_(Alerts!vars) PROVE AlertsInv'
  OBVIOUS
<1>t. /\ alerts \in Alerts!State /\ broken \subseteq Platform /\ AlertsApart(alerts, alerts.sent)
  BY DEF AlertsInv, Alerts!TypeOK, AlertsOnce
<1>1. ASSUME NEW e \in Event, Alerts!Record(e) PROVE AlertsInv'
  <2> DEFINE a == Alerts!Enqueued(alerts, e)
  <2>1. Alerts!Queue(a) /\ UNCHANGED <<saved, cycle, inFlight, broken, mails, restarts>>
    BY <1>1 DEF Alerts!Record
  <2>2. AlertsApart(a, alerts.sent)
    BY <1>t, AlertsEnqueued DEF Alerts!Key
  <2> HIDE DEF a
  <2>3. a.sent = alerts.sent
    BY <2>2 DEF AlertsApart
  <2> QED BY <2>1, <2>2, <2>3, AlertsQueueKeeps
<1>2. ASSUME NEW p \in Platform, Alerts!Break(p) \/ Alerts!Reconnect(p) PROVE AlertsInv'
  <2>1. /\ broken' \subseteq Platform
        /\ UNCHANGED <<alerts, saved, cycle, inFlight, mails, excused, late, cut, restarts>>
    BY <1>2, <1>t DEF Alerts!Break, Alerts!Reconnect
  <2> QED BY <2>1, <1>t, AlertsSame
<1>3. CASE Alerts!Toggle
  <2>1. /\ alerts' = [alerts EXCEPT !.enabled = ~alerts.enabled]
        /\ saved' = saved \/ saved' = alerts'
        /\ UNCHANGED <<cycle, inFlight, broken, mails, excused, late, cut, restarts>>
    BY <1>3, <1>t DEF Alerts!Toggle
  <2>2. /\ alerts' \in Alerts!State
        /\ alerts'.pending = alerts.pending /\ alerts'.sent = alerts.sent
    BY <2>1, <1>t DEF Alerts!State
  <2> QED BY <2>1, <2>2, <1>t, AlertsSame
<1>4. CASE Alerts!SaveControl
  BY <1>4, <1>t, AlertsSame DEF Alerts!SaveControl
<1>5. CASE Alerts!WindowEnds
  <2>1. /\ alerts' = [alerts EXCEPT !.quiet = FALSE]
        /\ UNCHANGED <<saved, cycle, inFlight, broken, mails, excused, late, cut, restarts>>
    BY <1>5 DEF Alerts!WindowEnds
  <2>2. /\ alerts' \in Alerts!State
        /\ alerts'.pending = alerts.pending /\ alerts'.sent = alerts.sent
    BY <2>1, <1>t DEF Alerts!State
  <2> QED BY <2>1, <2>2, <1>t, AlertsSame
<1>6. CASE UNCHANGED Alerts!vars
  BY <1>6, <1>t, AlertsSame DEF Alerts!vars
<1> QED BY <1>1, <1>2, <1>3, <1>4, <1>5, <1>6, AlertsCycle, AlertsSent, AlertsFailed,
           AlertsRestart DEF Alerts!Next

LEMMA AlertsInit == ASSUME AlertsParameters PROVE Alerts!Init => AlertsInv
<1> SUFFICES ASSUME Alerts!Init PROVE AlertsInv
  OBVIOUS
<1>1. \A n \in Nat : << >> \in Alerts!Seqs(n)
  <2>1. << >> \in [1 .. 0 -> Alerts!Key] /\ \A n \in Nat : 0 \in 0 .. n
    OBVIOUS
  <2> QED BY <2>1 DEF Alerts!Seqs
<1>2. Keys(<< >>) = {}
  BY DEF Keys
<1>3. /\ alerts \in Alerts!State /\ saved = alerts
      /\ alerts.pending = << >> /\ alerts.sent = << >>
  BY <1>1 DEF Alerts!Init, Alerts!State, AlertsParameters
<1>4. 0 \in 0 .. 2 /\ 0 \in 0 .. MaxRestarts
  BY DEF AlertsParameters
<1>5. \A c \in Caller : cycle[c] = {}
  BY DEF Alerts!Init
<1>6. Alerts!OnTheWay = {}
  <2>1. Alerts!OnTheWay = UNION {UNION cycle[c] : c \in Caller}
    BY DEF Alerts!OnTheWay
  <2> QED BY <1>5, <2>1
<1>7. Alerts!TypeOK
  BY <1>3, <1>4 DEF Alerts!Init, Alerts!TypeOK
<1>8. AlertsFlight
  BY <1>5 DEF Alerts!Init, AlertsFlight
<1>9. AlertsTrue
  BY <1>2, <1>3 DEF Alerts!Init, AlertsTrue, AlertsTrueIn
<1>10. AlertsOnce
  BY <1>2, <1>3, <1>6 DEF Alerts!Init, AlertsOnce, AlertsOnceFor, AlertsApart
<1> QED BY <1>7, <1>8, <1>9, <1>10 DEF AlertsInv

LEMMA AlertsImplies ==
    ASSUME AlertsParameters
    PROVE  AlertsInv => /\ Alerts!TypeOK /\ Alerts!MarkedWasMailedOrLate
                        /\ Alerts!SecondMailNeedsLoss
<1> SUFFICES ASSUME AlertsInv
             PROVE  /\ Alerts!TypeOK /\ Alerts!MarkedWasMailedOrLate
                    /\ Alerts!SecondMailNeedsLoss
  OBVIOUS
<1>1. Alerts!TypeOK /\ Alerts!ToSet(alerts.sent) = Keys(alerts.sent) /\ mails \in [Alerts!Key -> 0 .. 2]
  BY AlertsShape DEF AlertsInv
<1>2. Alerts!MarkedWasMailedOrLate
  BY <1>1 DEF AlertsInv, AlertsTrue, AlertsTrueIn, Alerts!MarkedWasMailedOrLate
<1>3. \A k \in Alerts!Key \ excused : mails[k] <= 1
  BY DEF AlertsInv, AlertsOnce, AlertsOnceFor
<1>4. Alerts!SecondMailNeedsLoss
  BY <1>1, <1>3 DEF Alerts!SecondMailNeedsLoss
<1> QED BY <1>1, <1>2, <1>4

\* An event leaves the queue only as sent, by overflow or by a restart.
LEMMA AlertsLeave ==
    ASSUME AlertsParameters, AlertsInv, AlertsInv', [Alerts!Next]_(Alerts!vars)
    PROVE  Alerts!LeavesAsMarked
<1>t. /\ Alerts!ToSet(alerts.pending) = Keys(alerts.pending)
      /\ Alerts!Known(alerts) = Keys(alerts.sent) \union Keys(alerts.pending)
      /\ alerts \in Alerts!State /\ AlertsApart(alerts, alerts.sent)
  BY AlertsShape DEF AlertsInv, AlertsOnce
<1>n. Alerts!Known(alerts') = Keys(alerts'.sent) \union Keys(alerts'.pending)
  <2>1. alerts' \in Alerts!State
    BY DEF AlertsInv, Alerts!TypeOK
  <2> QED BY <2>1, AlertsStateType
<1>a. ASSUME \A k \in Keys(alerts.pending) :
                k \in Keys(alerts'.sent) \/ k \in Keys(alerts'.pending) \/ k \in cut' \/ k \in excused'
      PROVE  Alerts!LeavesAsMarked
  BY <1>a, <1>t, <1>n DEF Alerts!LeavesAsMarked
<1>b. ASSUME NEW a, AlertsApart(a, a.sent), Keys(a.sent) \subseteq Keys(alerts.sent), Alerts!Queue(a)
      PROVE  Alerts!LeavesAsMarked
  <2>1. alerts' = a /\ \A k \in Keys(alerts.pending) \ Keys(a.pending) : k \in cut'
    BY <1>b, AlertsQueued
  <2> QED BY <1>a, <2>1
<1>1. ASSUME NEW e \in Event, Alerts!Record(e) PROVE Alerts!LeavesAsMarked
  <2> DEFINE a == Alerts!Enqueued(alerts, e)
  <2>1. Alerts!Queue(a)
    BY <1>1 DEF Alerts!Record
  <2>2. AlertsApart(a, alerts.sent)
    BY <1>t, AlertsEnqueued DEF Alerts!Key
  <2> HIDE DEF a
  <2>3. a.sent = alerts.sent
    BY <2>2 DEF AlertsApart
  <2> QED BY <2>1, <2>2, <2>3, <1>b
<1>2. ASSUME NEW c \in Caller, Alerts!Cycle(c) PROVE Alerts!LeavesAsMarked
  <2> DEFINE a == Alerts!Reauth(alerts)
  <2>1. Alerts!Queue(a)
    BY <1>2 DEF Alerts!Cycle
  <2>2. AlertsApart(a, a.sent) /\ Keys(a.sent) \subseteq Keys(alerts.sent)
    BY AlertsReauth
  <2> HIDE DEF a
  <2> QED BY <2>1, <2>2, <1>b
<1>3. ASSUME NEW c \in Caller, Alerts!Sent(c) PROVE Alerts!LeavesAsMarked
  <2>1. /\ alerts' = Alerts!MarkedSent
        /\ excused' = excused \union
             (IF Alerts!Overflown
              THEN Alerts!Known(alerts) \ Alerts!Known(Alerts!MarkedSent) ELSE {})
    BY <1>3 DEF Alerts!Sent
  <2>2. \A k \in Alerts!Known(alerts) :
                 \/ k \in Keys(Alerts!MarkedSent.sent)
                 \/ Alerts!Overflown /\ k \notin Alerts!Known(Alerts!MarkedSent)
    BY AlertsMarked
  <2> QED BY <1>a, <1>t, <2>1, <2>2
<1>4. CASE Alerts!Restart
  <2>1. /\ alerts' = saved /\ saved' = saved
        /\ cut' = cut \union (Alerts!Known(alerts) \ Alerts!Known(saved))
    BY <1>4 DEF Alerts!Restart, Alerts!Restored
  <2>2. Alerts!Known(saved) = Keys(saved.sent) \union Keys(saved.pending)
    BY AlertsShape DEF AlertsInv
  <2> QED BY <1>a, <1>t, <2>1, <2>2
<1>5. CASE alerts'.pending = alerts.pending
  BY <1>5, <1>a
<1>6. CASE \/ \E p \in Platform : Alerts!Break(p) \/ Alerts!Reconnect(p)
           \/ Alerts!Toggle \/ Alerts!SaveControl \/ Alerts!WindowEnds
           \/ \E c \in Caller : Alerts!Failed(c)
           \/ UNCHANGED Alerts!vars
  <2>1. alerts'.pending = alerts.pending
    BY <1>6, <1>t DEF Alerts!Break, Alerts!Reconnect, Alerts!Toggle, Alerts!SaveControl,
         Alerts!WindowEnds, Alerts!Failed, Alerts!MarkedFailed, Alerts!vars, Alerts!State
  <2> QED BY <1>5, <2>1
<1> QED BY <1>1, <1>2, <1>3, <1>4, <1>6 DEF Alerts!Next

\* An event that counts as sent was mailed, or was queued while a mail was in flight, and no
\* event is mailed twice without a loss.
THEOREM AlertsMarks ==
    ASSUME AlertsParameters
    PROVE  Alerts!Spec => [](/\ Alerts!TypeOK
                            /\ Alerts!MarkedWasMailedOrLate
                            /\ Alerts!SecondMailNeedsLoss)
BY AlertsInit, AlertsStep, AlertsImplies, PTL DEF Alerts!Spec

\* An event leaves the queue only as sent, by overflow or by a restart.
THEOREM AlertsLeaveMarked ==
    ASSUME AlertsParameters
    PROVE  Alerts!Spec => [][Alerts!LeavesAsMarked]_(Alerts!vars)
BY AlertsInit, AlertsStep, AlertsLeave, PTL DEF Alerts!Spec
=============================================================================
