--------------------------- MODULE OmemoSendProofs ---------------------------
(***************************************************************************)
(* Proofs about OmemoSend, for any messages, buddies and devices, whatever *)
(* the database holds at first and however many lists are pushed.          *)
(***************************************************************************)
EXTENDS OmemoSend, SequenceTheorems, TLAPS

Over == {"finishing"} \cup Encrypted
Untouched == {"new", "refused"}

(* Which stages a parent can be in, given how far its message is.          *)
StagesFit == \A s \in Sends, l \in Legs :
    /\ outcome[s] \in Untouched => prep[s][l] = "idle"
    /\ outcome[s] \in Over => prep[s][l] \in {"idle", "done"}
    /\ l \notin LegsOf(s) => prep[s][l] = "idle"
    /\ l \in LegsOf(s) /\ outcome[s] \notin Untouched => prep[s][l] # "idle"

Fetched == {"bundles", "done"}

(* What a task of the work queue says about the stage it was added at.     *)
TaskFits(t) ==
    /\ t.do # "finish" => t.leg \in Legs
    /\ t.do = "start" => prep[t.send][t.leg] = "queued"
    /\ t.do = "continue" => prep[t.send][t.leg] = "listed"
    /\ t.do = "finish" => t.leg = None /\ outcome[t.send] = "finishing"
    /\ t.do \in {"bundle", "noBundle"} =>
         /\ t.device \in Devices
         /\ prep[t.send][t.leg] \in Fetched
         /\ Request(t.send, t.leg, t.device) \notin tracked

TasksIn(queue) == {queue[i] : i \in 1 .. Len(queue)}
TasksFit == \A t \in TasksIn(workQueue) : TaskFits(t)

(* No preparation has two tasks that take it on, and no message two ends.  *)
SameStep(t, u) ==
    /\ t.do \in {"start", "continue", "finish"}
    /\ u.do = t.do /\ u.send = t.send /\ u.leg = t.leg
OneEach(queue) == \A i, j \in 1 .. Len(queue) : SameStep(queue[i], queue[j]) => i = j

(* A request for a bundle belongs to a preparation that has come that far; *)
(* while it is not late, the preparation waits for its device.             *)
RequestsFit == \A r \in tracked : r.device # None =>
    /\ prep[r.send][r.leg] \in Fetched
    /\ IF r.late THEN Request(r.send, r.leg, r.device) \notin tracked
                 ELSE r.device \in waiting[r.send][r.leg]

IndInv == TypeOK /\ StagesFit /\ TasksFit /\ OneEach(workQueue) /\ RequestsFit

-----------------------------------------------------------------------------
(* The work queue without its head, and with one more task.                *)
LEMMA TakeTask ==
    ASSUME NEW q \in Seq(Tasks), q # <<>>, OneEach(q)
    PROVE  /\ Head(q) \in Tasks /\ Head(q) \in TasksIn(q)
           /\ Tail(q) \in Seq(Tasks) /\ OneEach(Tail(q))
           /\ TasksIn(Tail(q)) \subseteq TasksIn(q)
           /\ \A t \in TasksIn(Tail(q)) : ~SameStep(Head(q), t)
<1>1. /\ Head(q) \in Tasks /\ Head(q) = q[1] /\ Tail(q) \in Seq(Tasks)
      /\ Len(q) \in Nat /\ Len(q) > 0 /\ Len(Tail(q)) = Len(q) - 1
      /\ \A i \in 1 .. Len(q) - 1 : Tail(q)[i] = q[i + 1]
  BY EmptySeq, HeadTailProperties
<1>2. Head(q) \in TasksIn(q)
  BY <1>1 DEF TasksIn
<1>3. \A i \in 1 .. Len(Tail(q)) : i + 1 \in 1 .. Len(q) /\ i + 1 # 1 /\ Tail(q)[i] = q[i + 1]
  BY <1>1
<1>4. OneEach(Tail(q))
  <2> SUFFICES ASSUME NEW i \in 1 .. Len(Tail(q)), NEW j \in 1 .. Len(Tail(q)),
                      SameStep(Tail(q)[i], Tail(q)[j])
               PROVE  i = j
    BY DEF OneEach
  <2>1. SameStep(q[i + 1], q[j + 1])
    BY <1>3
  <2>2. i + 1 = j + 1
    BY <1>3, <2>1 DEF OneEach
  <2> QED BY <2>2
<1>5. TasksIn(Tail(q)) \subseteq TasksIn(q)
  BY <1>3 DEF TasksIn
<1>6. ASSUME NEW t \in TasksIn(Tail(q)) PROVE ~SameStep(Head(q), t)
  <2>1. PICK i \in 1 .. Len(Tail(q)) : t = Tail(q)[i]
    BY DEF TasksIn
  <2>2. 1 \in 1 .. Len(q)
    BY <1>1
  <2> QED BY <1>1, <1>3, <2>1, <2>2 DEF OneEach
<1> QED BY <1>1, <1>2, <1>4, <1>5, <1>6

LEMMA AddTask ==
    ASSUME NEW q \in Seq(Tasks), OneEach(q), NEW t \in Tasks,
           \A u \in TasksIn(q) : ~SameStep(u, t)
    PROVE  /\ Append(q, t) \in Seq(Tasks) /\ OneEach(Append(q, t))
           /\ TasksIn(Append(q, t)) = TasksIn(q) \cup {t}
<1> DEFINE r == Append(q, t)
<1>1. /\ r \in Seq(Tasks) /\ Len(q) \in Nat /\ Len(r) = Len(q) + 1
      /\ r[Len(q) + 1] = t
      /\ \A i \in 1 .. Len(q) : r[i] = q[i]
  BY AppendProperties
<1> HIDE DEF r
<1>2. \A i \in 1 .. Len(r) : (i \in 1 .. Len(q) /\ r[i] = q[i] /\ r[i] \in TasksIn(q))
                            \/ (i = Len(q) + 1 /\ r[i] = t)
  BY <1>1 DEF TasksIn
<1>3. TasksIn(r) = TasksIn(q) \cup {t}
  <2>1. TasksIn(r) \subseteq TasksIn(q) \cup {t}
    BY <1>2 DEF TasksIn
  <2>2. TasksIn(q) \cup {t} \subseteq TasksIn(r)
    BY <1>1 DEF TasksIn
  <2> QED BY <2>1, <2>2
<1>4. OneEach(r)
  <2> SUFFICES ASSUME NEW i \in 1 .. Len(r), NEW j \in 1 .. Len(r), SameStep(r[i], r[j])
               PROVE  i = j
    BY DEF OneEach
  <2>1. SameStep(r[j], r[i])
    BY DEF SameStep
  <2>2. CASE i \in 1 .. Len(q) /\ j \in 1 .. Len(q)
    BY <1>1, <2>2 DEF OneEach
  <2>3. CASE i \notin 1 .. Len(q)
    BY <1>2, <2>1, <2>3
  <2>4. CASE j \notin 1 .. Len(q)
    BY <1>2, <2>4
  <2> QED BY <2>2, <2>3, <2>4
<1> QED BY <1>1, <1>3, <1>4 DEF r

(* An assignment to one preparation.                                       *)
LEMMA Assign ==
    ASSUME NEW V, NEW f \in [Sends -> [Legs -> V]],
           NEW s \in Sends, NEW l \in Legs, NEW v \in V
    PROVE  LET g == [f EXCEPT ![s][l] = v] IN
           /\ g \in [Sends -> [Legs -> V]]
           /\ \A i \in Sends, j \in Legs : g[i][j] = IF i = s /\ j = l THEN v ELSE f[i][j]
OBVIOUS

(* Whom a leg is about, and a closure's preparation.                       *)
LEMMA LegTyped == ASSUME NEW l \in Legs PROVE ParentOf(l) \in Parents
BY SendAssumption DEF SendAssumption

LEMMA WaiterTyped ==
    ASSUME TypeOK, NEW p \in Parents, waiter[p] # None
    PROVE  /\ waiter[p][1] \in Sends /\ waiter[p][2] \in Legs
           /\ waiter[p] = <<waiter[p][1], waiter[p][2]>>
<1>1. waiter[p] \in Sends \X Legs
  BY DEF TypeOK
<1> QED BY <1>1

LEMMA NobodyIsNone == ASSUME NEW s \in Sends, NEW l \in Legs PROVE <<s, l>> # None
BY SendAssumption DEF SendAssumption

(* What a task that is taken from the queue is.                            *)
LEMMA TakeWork ==
    ASSUME IndInv, NEW do, Working(do)
    PROVE  LET t == Head(workQueue) IN
           /\ t \in Tasks /\ t.do = do /\ t.send \in Sends
           /\ do # "finish" => t.leg \in Legs
           /\ TaskFits(t) /\ t \in TasksIn(workQueue)
           /\ Tail(workQueue) \in Seq(Tasks) /\ OneEach(Tail(workQueue))
           /\ TasksIn(Tail(workQueue)) \subseteq TasksIn(workQueue)
           /\ \A u \in TasksIn(Tail(workQueue)) : ~SameStep(t, u)
<1>1. workQueue \in Seq(Tasks) /\ workQueue # <<>> /\ OneEach(workQueue) /\ Head(workQueue).do = do
  BY DEF IndInv, TypeOK, Working
<1>2. /\ Head(workQueue) \in Tasks /\ Head(workQueue) \in TasksIn(workQueue)
      /\ Tail(workQueue) \in Seq(Tasks) /\ OneEach(Tail(workQueue))
      /\ TasksIn(Tail(workQueue)) \subseteq TasksIn(workQueue)
      /\ \A t \in TasksIn(Tail(workQueue)) : ~SameStep(Head(workQueue), t)
  BY <1>1, TakeTask
<1>3. TaskFits(Head(workQueue))
  BY <1>2 DEF IndInv, TasksFit
<1> QED BY <1>1, <1>2, <1>3 DEF Tasks, TaskFits

(* The tasks of the queue stand for themselves.                            *)
LEMMA TaskTyped ==
    ASSUME TypeOK, NEW t \in TasksIn(workQueue)
    PROVE  t \in Tasks /\ t.send \in Sends
<1>1. PICK i \in 1 .. Len(workQueue) : t = workQueue[i]
  BY DEF TasksIn
<1>2. t \in Tasks
  BY <1>1, ElementOfSeq DEF TypeOK
<1> QED BY <1>2 DEF Tasks

-----------------------------------------------------------------------------
(* What bundleFetch leaves, whichever of its two tasks led to it.          *)
LEMMA FetchHolds ==
    ASSUME IndInv, NEW do \in {"start", "continue"}, Working(do),
           NEW s, s = Head(workQueue).send, NEW l, l = Head(workQueue).leg,
           NEW devices \in SUBSET Devices, FetchBundles(s, l, devices),
           snapshot' \in [Sends -> [Legs -> SUBSET Devices]],
           \A i \in Sends, j \in Legs :
             snapshot'[i][j] = IF i = s /\ j = l THEN devices ELSE snapshot[i][j],
           workQueue' = Tail(workQueue),
           UNCHANGED <<db, waiter, removing, outcome, crashed, pushes, forgotten>>
    PROVE  IndInv'
<1> DEFINE missing == (devices \ {Self}) \ sessions
           stage == IF missing = {} THEN "done" ELSE "bundles"
           t == Head(workQueue)
           asks == {Request(s, l, d) : d \in missing}
<1>1. /\ t \in Tasks /\ t.do = do /\ s \in Sends /\ l \in Legs
      /\ t.send = s /\ t.leg = l /\ TaskFits(t)
      /\ workQueue' \in Seq(Tasks) /\ OneEach(workQueue')
      /\ TasksIn(workQueue') \subseteq TasksIn(workQueue)
      /\ \A u \in TasksIn(workQueue') : ~SameStep(t, u)
  BY TakeWork
<1>2. /\ prep \in [Sends -> [Legs -> Stages]] /\ waiting \in [Sends -> [Legs -> SUBSET Devices]]
      /\ missing \in SUBSET Devices /\ stage \in Stages
      /\ prep' = [prep EXCEPT ![s][l] = stage]
      /\ waiting' = [waiting EXCEPT ![s][l] = missing]
      /\ tracked' = tracked \cup asks
  BY DEF IndInv, TypeOK, FetchBundles, Stages
<1> HIDE DEF missing, stage, asks, t
<1>3. /\ prep' \in [Sends -> [Legs -> Stages]]
      /\ \A i \in Sends, j \in Legs : prep'[i][j] = IF i = s /\ j = l THEN stage ELSE prep[i][j]
  BY <1>1, <1>2, Assign
<1>4. /\ waiting' \in [Sends -> [Legs -> SUBSET Devices]]
      /\ \A i \in Sends, j \in Legs :
           waiting'[i][j] = IF i = s /\ j = l THEN missing ELSE waiting[i][j]
  BY <1>1, <1>2, Assign
<1>5. prep[s][l] = (IF do = "start" THEN "queued" ELSE "listed")
  BY <1>1 DEF TaskFits
<1>6. \A r \in asks : /\ r \in Requests /\ r.send = s /\ r.leg = l
                      /\ r.device \in missing /\ r.late = FALSE
  <2> TAKE r \in asks
  <2>1. PICK d \in missing : r = Request(s, l, d)
    BY DEF asks
  <2>2. d \in Devices
    BY <1>2
  <2> QED BY <1>1, <2>1, <2>2 DEF Request, Requests
<1>7. missing = {} => stage = "done" /\ asks = {}
  BY DEF stage, asks
<1>8. missing # {} => stage = "bundles"
  BY DEF stage
<1>9. missing \subseteq devices \ {Self}
  BY DEF missing
<1>10. TypeOK'
  <2>1. \A i \in Sends, j \in Legs :
          /\ waiting'[i][j] \subseteq snapshot'[i][j] \ {Self}
          /\ waiting'[i][j] # {} <=> prep'[i][j] = "bundles"
    <3> TAKE i \in Sends, j \in Legs
    <3>1. CASE i = s /\ j = l
      BY <1>3, <1>4, <1>7, <1>8, <1>9, <3>1
    <3>2. CASE ~(i = s /\ j = l)
      <4>1. /\ waiting'[i][j] = waiting[i][j] /\ snapshot'[i][j] = snapshot[i][j]
            /\ prep'[i][j] = prep[i][j]
        BY <1>3, <1>4, <3>2
      <4>2. /\ waiting[i][j] \subseteq snapshot[i][j] \ {Self}
            /\ waiting[i][j] # {} <=> prep[i][j] = "bundles"
        BY DEF IndInv, TypeOK
      <4> QED BY <4>1, <4>2
    <3> QED BY <3>1, <3>2
  <2>2. tracked' \subseteq Requests
    BY <1>2, <1>6 DEF IndInv, TypeOK
  <2>3. /\ rows' \subseteq Devices /\ sessions' \subseteq Devices
        /\ waiter' \in [Parents -> (Sends \X Legs) \cup {None}]
        /\ removing' \in [Queues -> Parents \cup {None}]
        /\ outcome' \in [Sends -> Outcomes] /\ crashed' \in BOOLEAN
        /\ pushes' \in 0 .. MaxPushes /\ forgotten' \subseteq Sends \X Legs
    BY DEF IndInv, TypeOK, db
  <2> QED BY <1>1, <1>3, <1>4, <2>1, <2>2, <2>3 DEF TypeOK
<1>11. StagesFit'
  <2>1. outcome[s] \notin Untouched /\ outcome[s] \notin Over /\ l \in LegsOf(s)
    BY <1>1, <1>5 DEF IndInv, StagesFit
  <2>2. outcome' = outcome /\ stage # "idle"
    BY <1>7, <1>8
  <2> QED BY <1>3, <2>1, <2>2 DEF IndInv, StagesFit, Over, Encrypted, Untouched, LegsOf, Order
<1>12. TasksFit'
  <2> SUFFICES ASSUME NEW u \in TasksIn(workQueue') PROVE TaskFits(u)'
    BY DEF TasksFit
  <2>1. u \in TasksIn(workQueue) /\ u \in Tasks /\ u.send \in Sends /\ TaskFits(u)
    BY <1>1, TaskTyped DEF IndInv, TasksFit
  <2>2. ~(u.send = s /\ u.leg = l /\ u.do \in {"start", "continue", "bundle", "noBundle"})
    BY <1>1, <1>5, <2>1 DEF TaskFits, Fetched, SameStep
  <2>3. u.do \in {"bundle", "noBundle"} => Request(u.send, u.leg, u.device) \notin asks
    BY <1>6, <2>2 DEF Request
  <2> QED BY <1>2, <1>3, <2>1, <2>2, <2>3 DEF TaskFits
<1>13. RequestsFit'
  <2> SUFFICES ASSUME NEW r \in tracked', r.device # None
               PROVE  /\ prep'[r.send][r.leg] \in Fetched
                      /\ IF r.late THEN Request(r.send, r.leg, r.device) \notin tracked'
                                   ELSE r.device \in waiting'[r.send][r.leg]
    BY DEF RequestsFit
  <2>1. CASE r \in asks
    BY <1>1, <1>3, <1>4, <1>6, <1>7, <1>8, <2>1 DEF Fetched
  <2>2. CASE r \in tracked
    <3>1. /\ r.send \in Sends /\ r.leg \in Legs /\ prep[r.send][r.leg] \in Fetched
          /\ IF r.late THEN Request(r.send, r.leg, r.device) \notin tracked
                       ELSE r.device \in waiting[r.send][r.leg]
      BY <2>2 DEF IndInv, RequestsFit, TypeOK, Requests
    <3>2. ~(r.send = s /\ r.leg = l)
      BY <1>5, <3>1 DEF Fetched
    <3>3. Request(r.send, r.leg, r.device) \notin asks
      BY <1>6, <3>2 DEF Request
    <3> QED BY <1>2, <1>3, <1>4, <3>1, <3>2, <3>3
  <2> QED BY <1>2, <2>1, <2>2
<1> QED BY <1>1, <1>10, <1>11, <1>12, <1>13 DEF IndInv

LEMMA StartWithRowsHolds == ASSUME IndInv, StartWithRows PROVE IndInv'
<1> DEFINE t == Head(workQueue)
<1>1. Working("start") /\ t.send \in Sends /\ t.leg \in Legs
  BY TakeWork DEF StartWithRows
<1>2. /\ snapshot[t.send][t.leg] \in SUBSET Devices
      /\ snapshot' \in [Sends -> [Legs -> SUBSET Devices]]
      /\ FetchBundles(t.send, t.leg, snapshot[t.send][t.leg])
      /\ workQueue' = Tail(workQueue)
      /\ UNCHANGED <<db, snapshot, waiter, removing, outcome, crashed, pushes, forgotten>>
  BY <1>1 DEF StartWithRows, IndInv, TypeOK
<1>3. \A i \in Sends, j \in Legs : snapshot'[i][j] =
        IF i = t.send /\ j = t.leg THEN snapshot[t.send][t.leg] ELSE snapshot[i][j]
  BY <1>2
<1> HIDE DEF t
<1> QED BY <1>1, <1>2, <1>3, FetchHolds DEF t

LEMMA ContinueHolds == ASSUME IndInv, Continue PROVE IndInv'
<1> DEFINE t == Head(workQueue)
           now == rows \cap DevicesOf(ParentOf(t.leg))
<1>1. Working("continue") /\ t.send \in Sends /\ t.leg \in Legs
  BY TakeWork DEF Continue
<1>2. /\ now \in SUBSET Devices
      /\ snapshot \in [Sends -> [Legs -> SUBSET Devices]]
      /\ snapshot' = [snapshot EXCEPT ![t.send][t.leg] = now]
      /\ FetchBundles(t.send, t.leg, now)
      /\ workQueue' = Tail(workQueue)
      /\ UNCHANGED <<db, waiter, removing, outcome, crashed, pushes, forgotten>>
  BY DEF Continue, IndInv, TypeOK
<1> HIDE DEF now, t
<1>3. /\ snapshot' \in [Sends -> [Legs -> SUBSET Devices]]
      /\ \A i \in Sends, j \in Legs : snapshot'[i][j] =
           IF i = t.send /\ j = t.leg THEN now ELSE snapshot[i][j]
  BY <1>1, <1>2, Assign
<1> QED BY <1>1, <1>2, <1>3, FetchHolds DEF t

LEMMA StartWithoutRowsHolds == ASSUME IndInv, StartWithoutRows PROVE IndInv'
<1> DEFINE t == Head(workQueue)
           s == t.send
           l == t.leg
           ask == Request(s, l, None)
<1>1. /\ t.do = "start" /\ s \in Sends /\ l \in Legs /\ TaskFits(t)
      /\ Tail(workQueue) \in Seq(Tasks) /\ OneEach(Tail(workQueue))
      /\ TasksIn(Tail(workQueue)) \subseteq TasksIn(workQueue)
      /\ \A u \in TasksIn(Tail(workQueue)) : ~SameStep(t, u)
  BY TakeWork DEF StartWithoutRows
<1>2. /\ prep \in [Sends -> [Legs -> Stages]] /\ "list" \in Stages
      /\ prep' = [prep EXCEPT ![s][l] = "list"]
      /\ workQueue' = Tail(workQueue) /\ waiter' = [waiter EXCEPT ![ParentOf(l)] = <<s, l>>]
      /\ tracked' = tracked \cup {ask}
      /\ forgotten' \subseteq Sends \X Legs
      /\ UNCHANGED <<db, snapshot, waiting, removing, outcome, crashed, pushes>>
  BY <1>1 DEF StartWithoutRows, Forget, IndInv, TypeOK, Stages
<1> HIDE DEF t, s, l
<1>3. /\ prep' \in [Sends -> [Legs -> Stages]]
      /\ \A i \in Sends, j \in Legs : prep'[i][j] = IF i = s /\ j = l THEN "list" ELSE prep[i][j]
  BY <1>1, <1>2, Assign
<1>4. prep[s][l] = "queued"
  BY <1>1 DEF TaskFits, s, l
<1>5. ask \in Requests /\ ask.device = None
  BY <1>1 DEF Request, Requests
<1> HIDE DEF ask
<1>6. TypeOK'
  <2>1. \A i \in Sends, j \in Legs :
          /\ waiting'[i][j] \subseteq snapshot'[i][j] \ {Self}
          /\ waiting'[i][j] # {} <=> prep'[i][j] = "bundles"
    <3> TAKE i \in Sends, j \in Legs
    <3>1. prep'[i][j] = "bundles" <=> prep[i][j] = "bundles"
      BY <1>3, <1>4
    <3>2. /\ waiting[i][j] \subseteq snapshot[i][j] \ {Self}
          /\ waiting[i][j] # {} <=> prep[i][j] = "bundles"
      BY DEF IndInv, TypeOK
    <3> QED BY <1>2, <3>1, <3>2
  <2>2. tracked' \subseteq Requests /\ waiter' \in [Parents -> (Sends \X Legs) \cup {None}]
    BY <1>1, <1>2, <1>5, LegTyped DEF IndInv, TypeOK
  <2>3. /\ rows' \subseteq Devices /\ sessions' \subseteq Devices
        /\ snapshot' \in [Sends -> [Legs -> SUBSET Devices]]
        /\ waiting' \in [Sends -> [Legs -> SUBSET Devices]]
        /\ removing' \in [Queues -> Parents \cup {None}]
        /\ outcome' \in [Sends -> Outcomes] /\ crashed' \in BOOLEAN
        /\ pushes' \in 0 .. MaxPushes
    BY <1>2 DEF IndInv, TypeOK, db
  <2> QED BY <1>1, <1>2, <1>3, <2>1, <2>2, <2>3 DEF TypeOK
<1>7. StagesFit'
  <2>1. outcome[s] \notin Untouched /\ outcome[s] \notin Over /\ l \in LegsOf(s)
    BY <1>1, <1>4 DEF IndInv, StagesFit
  <2>2. outcome' = outcome
    BY <1>2
  <2> QED BY <1>3, <2>1, <2>2 DEF IndInv, StagesFit, Over, Encrypted, Untouched, LegsOf, Order
<1>8. TasksFit'
  <2> SUFFICES ASSUME NEW u \in TasksIn(workQueue') PROVE TaskFits(u)'
    BY DEF TasksFit
  <2>1. u \in TasksIn(workQueue) /\ u \in Tasks /\ u.send \in Sends /\ TaskFits(u)
    BY <1>1, <1>2, TaskTyped DEF IndInv, TasksFit
  <2>2. ~(u.send = s /\ u.leg = l /\ u.do \in {"start", "continue", "bundle", "noBundle"})
    BY <1>1, <1>2, <1>4, <2>1 DEF TaskFits, Fetched, SameStep, s, l
  <2>3. u.do \in {"bundle", "noBundle"} => Request(u.send, u.leg, u.device) # ask
    BY <1>5, <2>1, SendAssumption DEF Request, TaskFits, SendAssumption
  <2> QED BY <1>2, <1>3, <2>1, <2>2, <2>3 DEF TaskFits
<1>9. RequestsFit'
  <2> SUFFICES ASSUME NEW r \in tracked', r.device # None
               PROVE  /\ prep'[r.send][r.leg] \in Fetched
                      /\ IF r.late THEN Request(r.send, r.leg, r.device) \notin tracked'
                                   ELSE r.device \in waiting'[r.send][r.leg]
    BY DEF RequestsFit
  <2>1. r \in tracked
    BY <1>2, <1>5
  <2>2. /\ r.send \in Sends /\ r.leg \in Legs /\ prep[r.send][r.leg] \in Fetched
        /\ IF r.late THEN Request(r.send, r.leg, r.device) \notin tracked
                     ELSE r.device \in waiting[r.send][r.leg]
    BY <2>1 DEF IndInv, RequestsFit, TypeOK, Requests
  <2>3. ~(r.send = s /\ r.leg = l)
    BY <1>4, <2>2 DEF Fetched
  <2>4. Request(r.send, r.leg, r.device) # ask
    BY <1>5 DEF Request
  <2> QED BY <1>2, <1>3, <2>2, <2>3, <2>4
<1> QED BY <1>1, <1>2, <1>6, <1>7, <1>8, <1>9 DEF IndInv

(* Nothing that the invariant relates to requests and tasks gets worse     *)
(* when there are fewer of them.                                           *)
LEMMA FewerTasks ==
    ASSUME IndInv, NEW tasks, TasksIn(tasks) \subseteq TasksIn(workQueue), tracked' \subseteq tracked,
           UNCHANGED <<prep, waiting, outcome>>
    PROVE  StagesFit' /\ RequestsFit' /\ \A t \in TasksIn(tasks) : TaskFits(t)'
BY DEF IndInv, StagesFit, RequestsFit, TasksFit, TaskFits, LegsOf, Order, Over, Encrypted, Untouched

(* callAndRemoveOutstandingDeviceIdFetch: a closure that is called while   *)
(* its preparation waits for the list takes it on; otherwise only the      *)
(* marks change.                                                           *)
LEMMA CallHolds ==
    ASSUME IndInv, NEW q \in Queues, NEW p \in Parents,
           NEW tasks \in Seq(Tasks), OneEach(tasks), TasksIn(tasks) \subseteq TasksIn(workQueue),
           CallWaiter(q, p, tasks), tracked' \subseteq tracked,
           rows' \subseteq Devices, pushes' \in 0 .. MaxPushes,
           UNCHANGED <<sessions, snapshot, waiting, waiter, outcome, forgotten>>
    PROVE  IndInv'
<1> DEFINE s == waiter[p][1]
           l == waiter[p][2]
<1>1. /\ prep \in [Sends -> [Legs -> Stages]]
      /\ sessions' \subseteq Devices /\ snapshot' \in [Sends -> [Legs -> SUBSET Devices]]
      /\ waiting' \in [Sends -> [Legs -> SUBSET Devices]]
      /\ waiter' \in [Parents -> (Sends \X Legs) \cup {None}]
      /\ tracked' \subseteq Requests /\ outcome' \in [Sends -> Outcomes]
      /\ forgotten' \subseteq Sends \X Legs
  BY DEF IndInv, TypeOK
<1>2. removing' \in [Queues -> Parents \cup {None}]
  <2>1. removing \in [Queues -> Parents \cup {None}]
    BY DEF IndInv, TypeOK
  <2> QED BY <2>1, Zenon DEF CallWaiter
<1>3. crashed' \in BOOLEAN
  <2>1. crashed \in BOOLEAN
    BY DEF IndInv, TypeOK
  <2> QED BY <2>1, Zenon DEF CallWaiter
<1>4. CASE prep' = prep /\ workQueue' = tasks
  <2>1. \A i \in Sends, j \in Legs :
          /\ waiting'[i][j] \subseteq snapshot'[i][j] \ {Self}
          /\ waiting'[i][j] # {} <=> prep'[i][j] = "bundles"
    BY <1>4 DEF IndInv, TypeOK
  <2>2. TypeOK'
    BY <1>1, <1>2, <1>3, <1>4, <2>1 DEF TypeOK
  <2> QED BY <1>4, <2>2, FewerTasks DEF IndInv, TasksFit
<1>5. CASE /\ s \in Sends /\ l \in Legs /\ prep[s][l] = "list"
           /\ prep' = [prep EXCEPT ![s][l] = "listed"]
           /\ workQueue' = Append(tasks, Task("continue", s, l, None))
  <2> DEFINE t == Task("continue", s, l, None)
  <2>1. /\ prep' \in [Sends -> [Legs -> Stages]]
        /\ \A i \in Sends, j \in Legs :
             prep'[i][j] = IF i = s /\ j = l THEN "listed" ELSE prep[i][j]
    BY <1>1, <1>5, Assign DEF Stages
  <2>2. t \in Tasks /\ t.do = "continue" /\ t.send = s /\ t.leg = l
    BY <1>5 DEF Task, Tasks
  <2>3. \A u \in TasksIn(tasks) : /\ u \in Tasks /\ u.send \in Sends /\ TaskFits(u)
                                  /\ ~(/\ u.send = s /\ u.leg = l
                                       /\ u.do \in {"start", "continue", "bundle", "noBundle"})
    BY <1>5, TaskTyped DEF IndInv, TasksFit, TaskFits, Fetched
  <2> HIDE DEF t, s, l
  <2>4. \A u \in TasksIn(tasks) : ~SameStep(u, t)
    BY <2>2, <2>3 DEF SameStep
  <2>5. /\ workQueue' \in Seq(Tasks) /\ OneEach(workQueue')
        /\ TasksIn(workQueue') = TasksIn(tasks) \cup {t}
    BY <1>5, <2>2, <2>4, AddTask DEF t
  <2>6. TypeOK'
    <3>1. \A i \in Sends, j \in Legs :
            /\ waiting'[i][j] \subseteq snapshot'[i][j] \ {Self}
            /\ waiting'[i][j] # {} <=> prep'[i][j] = "bundles"
      <4> TAKE i \in Sends, j \in Legs
      <4>1. prep'[i][j] = "bundles" <=> prep[i][j] = "bundles"
        BY <1>5, <2>1
      <4>2. /\ waiting[i][j] \subseteq snapshot[i][j] \ {Self}
            /\ waiting[i][j] # {} <=> prep[i][j] = "bundles"
        BY DEF IndInv, TypeOK
      <4> QED BY <4>1, <4>2
    <3> QED BY <1>1, <1>2, <1>3, <2>1, <2>5, <3>1 DEF TypeOK
  <2>7. StagesFit'
    <3>1. outcome[s] \notin Untouched /\ outcome[s] \notin Over /\ l \in LegsOf(s)
      BY <1>5 DEF IndInv, StagesFit, Over, Encrypted, Untouched
    <3>2. outcome' = outcome
      OBVIOUS
    <3> QED BY <2>1, <3>1, <3>2 DEF IndInv, StagesFit, Over, Encrypted, Untouched, LegsOf, Order
  <2>8. TasksFit'
    <3> SUFFICES ASSUME NEW u \in TasksIn(workQueue') PROVE TaskFits(u)'
      BY DEF TasksFit
    <3>1. CASE u = t
      BY <1>5, <2>1, <2>2, <3>1 DEF TaskFits
    <3>2. CASE u \in TasksIn(tasks)
      BY <2>1, <2>3, <3>2 DEF TaskFits
    <3> QED BY <2>5, <3>1, <3>2
  <2>9. RequestsFit'
    <3> SUFFICES ASSUME NEW r \in tracked', r.device # None
                 PROVE  /\ prep'[r.send][r.leg] \in Fetched
                        /\ IF r.late THEN Request(r.send, r.leg, r.device) \notin tracked'
                                     ELSE r.device \in waiting'[r.send][r.leg]
      BY DEF RequestsFit
    <3>1. /\ r.send \in Sends /\ r.leg \in Legs /\ prep[r.send][r.leg] \in Fetched
          /\ IF r.late THEN Request(r.send, r.leg, r.device) \notin tracked
                       ELSE r.device \in waiting[r.send][r.leg]
      BY DEF IndInv, RequestsFit, TypeOK, Requests
    <3> QED BY <1>5, <2>1, <3>1 DEF Fetched
  <2> QED BY <2>5, <2>6, <2>7, <2>8, <2>9 DEF IndInv
<1> QED
  <2>1. CASE waiter[p] = None
    BY <1>4, <2>1 DEF CallWaiter
  <2>2. CASE waiter[p] # None
    <3>1. s \in Sends /\ l \in Legs
      BY <2>2, WaiterTyped DEF IndInv
    <3>2. CASE prep[s][l] # "list"
      <4>1. prep' = [prep EXCEPT ![s][l] = prep[s][l]] /\ workQueue' = tasks
        BY <2>2, <3>2 DEF CallWaiter
      <4>2. prep' = prep
        BY <1>1, <3>1, <4>1
      <4> QED BY <1>4, <4>1, <4>2
    <3>3. CASE prep[s][l] = "list"
      BY <1>5, <2>2, <3>1, <3>3 DEF CallWaiter
    <3> QED BY <3>2, <3>3
  <2> QED BY <2>1, <2>2

LEMMA ListFailedHolds == ASSUME IndInv, ListFailed PROVE IndInv'
<1>1. /\ ParentOf(Head(workQueue).leg) \in Parents
      /\ Tail(workQueue) \in Seq(Tasks) /\ OneEach(Tail(workQueue))
      /\ TasksIn(Tail(workQueue)) \subseteq TasksIn(workQueue)
  BY TakeWork, LegTyped DEF ListFailed
<1>2. /\ CallWaiter("work", ParentOf(Head(workQueue).leg), Tail(workQueue))
      /\ rows' \subseteq Devices /\ pushes' \in 0 .. MaxPushes /\ tracked' \subseteq tracked
      /\ UNCHANGED <<sessions, snapshot, waiting, waiter, outcome, forgotten>>
  BY DEF ListFailed, IndInv, TypeOK, db
<1> QED BY <1>1, <1>2, CallHolds DEF Queues

LEMMA StoreHolds ==
    ASSUME IndInv, NEW p \in Parents, NEW L \in Lists(p), StoreDeviceIds(p, L),
           tracked' \subseteq tracked, pushes' \in 0 .. MaxPushes
    PROVE  IndInv'
<1>1. rows' \subseteq Devices
  BY SendAssumption DEF SendAssumption, Lists, StoreDeviceIds, StoreRows, IndInv, TypeOK
<1>2. workQueue \in Seq(Tasks) /\ OneEach(workQueue)
  BY DEF IndInv, TypeOK
<1> QED BY <1>1, <1>2, CallHolds DEF StoreDeviceIds, Queues

LEMMA PushListHolds ==
    ASSUME IndInv, NEW p \in Parents, NEW L \in Lists(p), PushList(p, L)
    PROVE  IndInv'
<1>1. pushes' \in 0 .. MaxPushes
  BY SendAssumption DEF SendAssumption, PushList, IndInv, TypeOK
<1> QED BY <1>1, StoreHolds DEF PushList

LEMMA ListAnsweredHolds ==
    ASSUME IndInv, NEW r \in tracked, NEW L \in Lists(ParentOf(r.leg)), ListAnswered(r, L)
    PROVE  IndInv'
<1>1. ParentOf(r.leg) \in Parents /\ pushes' \in 0 .. MaxPushes
  BY LegTyped DEF ListAnswered, IndInv, TypeOK, Requests
<1> QED BY <1>1, StoreHolds DEF ListAnswered

LEMMA RemoveWaiterHolds ==
    ASSUME IndInv, NEW q \in Queues, RemoveWaiter(q)
    PROVE  IndInv'
<1>1. UNCHANGED <<rows, sessions, prep, snapshot, waiting, workQueue, tracked, outcome,
                  crashed, pushes>>
  BY DEF RemoveWaiter, db, preparation
<1>2. /\ waiter' \in [Parents -> (Sends \X Legs) \cup {None}] /\ removing' \in [Queues -> Parents \cup {None}]
      /\ forgotten' \subseteq Sends \X Legs
  <2>1. removing[q] \in Parents
    BY DEF RemoveWaiter, IndInv, TypeOK
  <2> QED BY <2>1 DEF RemoveWaiter, Forget, IndInv, TypeOK
<1>3. TypeOK'
  BY <1>1, <1>2 DEF IndInv, TypeOK
<1>4. StagesFit' /\ RequestsFit' /\ TasksFit'
  BY <1>1, FewerTasks DEF IndInv, TasksFit
<1> QED BY <1>1, <1>3, <1>4 DEF IndInv

(* The last bundle ends a preparation; an answer that nobody waits for     *)
(* changes nothing.                                                        *)
LEMMA BundleDoneHolds == ASSUME IndInv, BundleDone PROVE IndInv'
<1> DEFINE t == Head(workQueue)
           s == t.send
           l == t.leg
           d == t.device
           stage == IF prep[s][l] = "bundles" /\ waiting[s][l] \subseteq {d} THEN "done" ELSE prep[s][l]
           left == waiting[s][l] \ {d}
<1>1. /\ s \in Sends /\ l \in Legs /\ d \in Devices /\ prep[s][l] \in Fetched
      /\ Request(s, l, d) \notin tracked
      /\ Tail(workQueue) \in Seq(Tasks) /\ OneEach(Tail(workQueue))
      /\ TasksIn(Tail(workQueue)) \subseteq TasksIn(workQueue)
  BY TakeWork DEF BundleDone, TaskFits
<1>2. /\ prep \in [Sends -> [Legs -> Stages]] /\ waiting \in [Sends -> [Legs -> SUBSET Devices]]
      /\ stage \in Stages /\ left \in SUBSET Devices
      /\ workQueue' = Tail(workQueue) /\ sessions' \subseteq Devices
      /\ UNCHANGED <<rows, snapshot, waiter, removing, tracked, outcome, crashed, pushes, forgotten>>
  BY <1>1 DEF BundleDone, IndInv, TypeOK, Stages
<1>3. prep' = [prep EXCEPT ![s][l] = stage] /\ waiting' = [waiting EXCEPT ![s][l] = left]
  BY DEF BundleDone
<1>4. /\ waiting[s][l] \subseteq snapshot[s][l] \ {Self}
      /\ waiting[s][l] # {} <=> prep[s][l] = "bundles"
  BY <1>1 DEF IndInv, TypeOK
<1>5. /\ stage \in Fetched /\ (prep[s][l] = "done" => stage = "done")
      /\ left # {} <=> stage = "bundles"
  BY <1>1, <1>4 DEF Fetched
<1> HIDE DEF t, s, l, d, stage
<1>6. /\ prep' \in [Sends -> [Legs -> Stages]]
      /\ \A i \in Sends, j \in Legs : prep'[i][j] = IF i = s /\ j = l THEN stage ELSE prep[i][j]
  BY <1>1, <1>2, <1>3, Assign
<1>7. /\ waiting' \in [Sends -> [Legs -> SUBSET Devices]]
      /\ \A i \in Sends, j \in Legs :
           waiting'[i][j] = IF i = s /\ j = l THEN left ELSE waiting[i][j]
  <2> HIDE DEF left
  <2> QED BY <1>1, <1>2, <1>3, Assign
<1>8. TypeOK'
  <2>1. \A i \in Sends, j \in Legs :
          /\ waiting'[i][j] \subseteq snapshot'[i][j] \ {Self}
          /\ waiting'[i][j] # {} <=> prep'[i][j] = "bundles"
    <3> TAKE i \in Sends, j \in Legs
    <3>1. CASE i = s /\ j = l
      BY <1>2, <1>4, <1>5, <1>6, <1>7, <3>1
    <3>2. CASE ~(i = s /\ j = l)
      <4>1. /\ waiting'[i][j] = waiting[i][j] /\ snapshot'[i][j] = snapshot[i][j]
            /\ prep'[i][j] = prep[i][j]
        BY <1>2, <1>6, <1>7, <3>2
      <4>2. /\ waiting[i][j] \subseteq snapshot[i][j] \ {Self}
            /\ waiting[i][j] # {} <=> prep[i][j] = "bundles"
        BY DEF IndInv, TypeOK
      <4> QED BY <4>1, <4>2
    <3> QED BY <3>1, <3>2
  <2>2. /\ rows' \subseteq Devices /\ snapshot' \in [Sends -> [Legs -> SUBSET Devices]]
        /\ waiter' \in [Parents -> (Sends \X Legs) \cup {None}]
        /\ removing' \in [Queues -> Parents \cup {None}] /\ tracked' \subseteq Requests
        /\ outcome' \in [Sends -> Outcomes] /\ crashed' \in BOOLEAN
        /\ pushes' \in 0 .. MaxPushes /\ forgotten' \subseteq Sends \X Legs
    BY <1>2 DEF IndInv, TypeOK
  <2> QED BY <1>1, <1>2, <1>6, <1>7, <2>1, <2>2 DEF TypeOK
<1>9. StagesFit'
  <2>1. /\ outcome[s] \notin Untouched /\ l \in LegsOf(s)
        /\ outcome[s] \in Over => prep[s][l] = "done"
    BY <1>1 DEF IndInv, StagesFit, Fetched
  <2>2. outcome' = outcome /\ stage # "idle"
    BY <1>2, <1>5 DEF Fetched
  <2> QED BY <1>5, <1>6, <2>1, <2>2 DEF IndInv, StagesFit, Over, Encrypted, Untouched, LegsOf, Order
<1>10. TasksFit'
  <2> SUFFICES ASSUME NEW u \in TasksIn(workQueue') PROVE TaskFits(u)'
    BY DEF TasksFit
  <2>1. u \in TasksIn(workQueue) /\ u \in Tasks /\ u.send \in Sends /\ TaskFits(u)
    BY <1>1, <1>2, TaskTyped DEF IndInv, TasksFit
  <2>2. u.send = s /\ u.leg = l => u.do \notin {"start", "continue"}
    BY <1>1, <2>1 DEF TaskFits, Fetched
  <2> QED BY <1>2, <1>5, <1>6, <2>1, <2>2 DEF TaskFits
<1>11. RequestsFit'
  <2> SUFFICES ASSUME NEW r \in tracked, r.device # None
               PROVE  /\ prep'[r.send][r.leg] \in Fetched
                      /\ IF r.late THEN Request(r.send, r.leg, r.device) \notin tracked
                                   ELSE r.device \in waiting'[r.send][r.leg]
    BY <1>2 DEF RequestsFit
  <2>1. /\ r \in Requests /\ r.send \in Sends /\ r.leg \in Legs /\ r.late \in BOOLEAN
        /\ prep[r.send][r.leg] \in Fetched
        /\ IF r.late THEN Request(r.send, r.leg, r.device) \notin tracked
                     ELSE r.device \in waiting[r.send][r.leg]
    BY DEF IndInv, RequestsFit, TypeOK, Requests
  <2>2. ~r.late => r = Request(r.send, r.leg, r.device)
    BY <2>1 DEF Requests, Request
  <2>3. ~r.late => ~(r.send = s /\ r.leg = l /\ r.device = d)
    BY <1>1, <2>2
  <2> QED BY <1>5, <1>6, <1>7, <2>1, <2>3
<1> QED BY <1>1, <1>2, <1>8, <1>9, <1>10, <1>11 DEF IndInv

(* A preparation that is over at once, for want of a name or a JID.        *)
LEMMA StartUnknownHolds == ASSUME IndInv, StartUnknown PROVE IndInv'
<1> DEFINE t == Head(workQueue)
           s == t.send
           l == t.leg
<1>1. /\ t.do = "start" /\ t.send = s /\ t.leg = l /\ s \in Sends /\ l \in Legs /\ TaskFits(t)
      /\ Tail(workQueue) \in Seq(Tasks) /\ OneEach(Tail(workQueue))
      /\ TasksIn(Tail(workQueue)) \subseteq TasksIn(workQueue)
      /\ \A u \in TasksIn(Tail(workQueue)) : ~SameStep(t, u)
  BY TakeWork DEF StartUnknown
<1>2. /\ prep \in [Sends -> [Legs -> Stages]] /\ "done" \in Stages
      /\ prep' = [prep EXCEPT ![s][l] = "done"] /\ workQueue' = Tail(workQueue)
      /\ UNCHANGED <<rows, sessions, snapshot, waiting, waiter, removing, tracked, outcome,
                     crashed, pushes, forgotten>>
  BY DEF StartUnknown, db, IndInv, TypeOK, Stages
<1> HIDE DEF t, s, l
<1>3. /\ prep' \in [Sends -> [Legs -> Stages]]
      /\ \A i \in Sends, j \in Legs : prep'[i][j] = IF i = s /\ j = l THEN "done" ELSE prep[i][j]
  BY <1>1, <1>2, Assign
<1>4. prep[s][l] = "queued"
  BY <1>1 DEF TaskFits
<1>5. TypeOK'
  <2>1. \A i \in Sends, j \in Legs : prep'[i][j] = "bundles" <=> prep[i][j] = "bundles"
    BY <1>3, <1>4
  <2> QED BY <1>1, <1>2, <1>3, <2>1 DEF IndInv, TypeOK
<1>6. StagesFit'
  <2>1. outcome[s] \notin Untouched /\ outcome[s] \notin Over /\ l \in LegsOf(s)
    BY <1>1, <1>4 DEF IndInv, StagesFit
  <2>2. outcome' = outcome
    BY <1>2
  <2> QED BY <1>3, <2>1, <2>2 DEF IndInv, StagesFit, Over, Encrypted, Untouched, LegsOf, Order
<1>7. TasksFit'
  <2> SUFFICES ASSUME NEW u \in TasksIn(workQueue') PROVE TaskFits(u)'
    BY DEF TasksFit
  <2>1. u \in TasksIn(workQueue) /\ u \in Tasks /\ u.send \in Sends /\ TaskFits(u)
    BY <1>1, <1>2, TaskTyped DEF IndInv, TasksFit
  <2>2. ~(u.send = s /\ u.leg = l /\ u.do \in {"start", "continue"})
    BY <1>1, <1>2, <1>4, <2>1 DEF TaskFits, SameStep
  <2> QED BY <1>2, <1>3, <2>1, <2>2 DEF TaskFits, Fetched
<1>8. RequestsFit'
  <2> SUFFICES ASSUME NEW r \in tracked, r.device # None PROVE prep'[r.send][r.leg] \in Fetched
    BY <1>2 DEF IndInv, RequestsFit
  <2>1. r.send \in Sends /\ r.leg \in Legs /\ prep[r.send][r.leg] \in Fetched
    BY DEF IndInv, RequestsFit, TypeOK, Requests
  <2> QED BY <1>3, <2>1 DEF Fetched
<1> QED BY <1>1, <1>2, <1>5, <1>6, <1>7, <1>8 DEF IndInv

(* A message that is refused has no preparation, before and after.         *)
LEMMA RefuseHolds ==
    ASSUME IndInv, NEW s \in Sends, Refuse(s)
    PROVE  IndInv'
<1>1. /\ outcome[s] = "new" /\ outcome' = [outcome EXCEPT ![s] = "refused"]
      /\ UNCHANGED <<rows, sessions, prep, snapshot, waiting, waiter, workQueue, removing,
                     tracked, crashed, pushes, forgotten>>
  BY DEF Refuse, db, preparation
<1>2. /\ outcome' \in [Sends -> Outcomes] /\ outcome'[s] = "refused"
      /\ \A i \in Sends : i # s => outcome'[i] = outcome[i]
  BY <1>1 DEF IndInv, TypeOK, Outcomes
<1>3. TypeOK'
  BY <1>1, <1>2 DEF IndInv, TypeOK
<1>4. StagesFit'
  <2>1. /\ "refused" \in Untouched /\ "new" \in Untouched
        /\ "refused" \notin Over /\ "new" \notin Over
    BY DEF Untouched, Over, Encrypted
  <2> QED BY <1>1, <1>2, <2>1 DEF IndInv, StagesFit, Over, Encrypted, Untouched, LegsOf, Order
<1>5. TasksFit'
  <2> SUFFICES ASSUME NEW u \in TasksIn(workQueue') PROVE TaskFits(u)'
    BY DEF TasksFit
  <2>1. TaskFits(u) /\ u.send \in Sends
    BY <1>1, TaskTyped DEF IndInv, TasksFit
  <2> QED BY <1>1, <1>2, <2>1 DEF TaskFits
<1>6. RequestsFit' /\ OneEach(workQueue')
  BY <1>1 DEF IndInv, RequestsFit
<1> QED BY <1>3, <1>4, <1>5, <1>6 DEF IndInv

(* The group of a message is left by its last preparation.                 *)
LEMMA AllPreparedHolds ==
    ASSUME IndInv, NEW s \in Sends, AllPrepared(s)
    PROVE  IndInv'
<1> DEFINE t == Task("finish", s, None, None)
<1>1. /\ outcome[s] = "preparing" /\ outcome' = [outcome EXCEPT ![s] = "finishing"]
      /\ \A l \in LegsOf(s) : prep[s][l] = "done"
      /\ workQueue' = Append(workQueue, t)
      /\ UNCHANGED <<rows, sessions, prep, snapshot, waiting, waiter, removing, tracked,
                     crashed, pushes, forgotten>>
  BY DEF AllPrepared, db, preparation
<1>2. t \in Tasks /\ t.do = "finish" /\ t.send = s /\ t.leg = None
  BY DEF Task, Tasks
<1>3. workQueue \in Seq(Tasks) /\ OneEach(workQueue)
  BY DEF IndInv, TypeOK
<1> HIDE DEF t
<1>4. /\ workQueue' \in Seq(Tasks) /\ OneEach(workQueue')
      /\ TasksIn(workQueue') = TasksIn(workQueue) \cup {t}
  <2>1. \A u \in TasksIn(workQueue) : ~SameStep(u, t)
    BY <1>1, <1>2 DEF IndInv, TasksFit, TaskFits, SameStep
  <2> QED BY <1>1, <1>2, <1>3, <2>1, AddTask
<1>5. /\ outcome' \in [Sends -> Outcomes] /\ outcome'[s] = "finishing"
      /\ \A i \in Sends : i # s => outcome'[i] = outcome[i]
  BY <1>1 DEF IndInv, TypeOK, Outcomes
<1>6. TypeOK'
  BY <1>1, <1>4, <1>5 DEF IndInv, TypeOK
<1>7. StagesFit'
  BY <1>1, <1>5 DEF IndInv, StagesFit, Over, Encrypted, Untouched, LegsOf, Order
<1>8. TasksFit'
  <2> SUFFICES ASSUME NEW u \in TasksIn(workQueue') PROVE TaskFits(u)'
    BY DEF TasksFit
  <2>1. CASE u = t
    BY <1>2, <1>5, <2>1 DEF TaskFits, Over
  <2>2. CASE u \in TasksIn(workQueue)
    <3>1. TaskFits(u) /\ u.send \in Sends
      BY <2>2, TaskTyped DEF IndInv, TasksFit
    <3> QED BY <1>1, <1>5, <3>1 DEF TaskFits, Over, Encrypted, Untouched
  <2> QED BY <1>4, <2>1, <2>2
<1>9. RequestsFit'
  BY <1>1 DEF IndInv, RequestsFit
<1> QED BY <1>4, <1>6, <1>7, <1>8, <1>9 DEF IndInv

LEMMA FinishHolds == ASSUME IndInv, Finish PROVE IndInv'
<1> DEFINE s == Head(workQueue).send
<1>1. /\ s \in Sends /\ outcome[s] = "finishing"
      /\ Tail(workQueue) \in Seq(Tasks) /\ OneEach(Tail(workQueue))
      /\ TasksIn(Tail(workQueue)) \subseteq TasksIn(workQueue)
      /\ \A u \in TasksIn(Tail(workQueue)) : TaskFits(u) /\ u.do = "finish" => u.send # s
  BY TakeWork DEF Finish, TaskFits, SameStep
<1>2. PICK o \in {"sent", "noDevices", "silent"} : outcome' = [outcome EXCEPT ![s] = o]
  BY DEF Finish
<1> HIDE DEF s
<1>3. /\ workQueue' = Tail(workQueue)
      /\ UNCHANGED <<rows, sessions, prep, snapshot, waiting, waiter, removing, tracked,
                     crashed, pushes, forgotten>>
  BY DEF Finish, db, preparation
<1>4. /\ outcome' \in [Sends -> Outcomes] /\ outcome'[s] \in Over /\ outcome'[s] \notin Untouched
      /\ \A i \in Sends : i # s => outcome'[i] = outcome[i]
      /\ outcome[s] \in Over /\ outcome[s] \notin Untouched
  BY <1>1, <1>2 DEF IndInv, TypeOK, Outcomes, Over, Encrypted, Untouched
<1>5. TypeOK'
  BY <1>1, <1>3, <1>4 DEF IndInv, TypeOK
<1>6. StagesFit'
  BY <1>1, <1>3, <1>4 DEF IndInv, StagesFit, Over, Encrypted, Untouched, LegsOf, Order
<1>7. TasksFit'
  <2> SUFFICES ASSUME NEW u \in TasksIn(workQueue') PROVE TaskFits(u)'
    BY DEF TasksFit
  <2>1. TaskFits(u) /\ u.send \in Sends
    BY <1>1, <1>3, TaskTyped DEF IndInv, TasksFit
  <2>2. u.do = "finish" => u.send # s
    BY <1>1, <1>3, <2>1
  <2> QED BY <1>3, <1>4, <2>1, <2>2 DEF TaskFits, Over, Encrypted, Untouched
<1>8. RequestsFit'
  BY <1>3 DEF IndInv, RequestsFit
<1> QED BY <1>1, <1>3, <1>5, <1>6, <1>7, <1>8 DEF IndInv

(* An answer or a failure: the request that had not been late before is    *)
(* gone, and the task that reports it may say so.                          *)
LEMMA ReportHolds ==
    ASSUME IndInv, NEW r \in tracked, NEW t \in Tasks, Report(t),
           tracked' \subseteq (tracked \ {r}) \cup {[r EXCEPT !.late = TRUE]},
           t.do \in {"listFailed", "bundle", "noBundle"},
           t.send = r.send, t.leg = r.leg, t.device = r.device,
           t.do # "listFailed" => r.device # None
    PROVE  IndInv'
<1> DEFINE overdue == [r EXCEPT !.late = TRUE]
<1>1. /\ workQueue' = Append(workQueue, t)
      /\ UNCHANGED <<rows, sessions, prep, snapshot, waiting, waiter, removing, outcome,
                     crashed, pushes, forgotten>>
  BY DEF Report, db, preparation
<1>2. workQueue \in Seq(Tasks) /\ OneEach(workQueue)
  BY DEF IndInv, TypeOK
<1>3. /\ workQueue' \in Seq(Tasks) /\ OneEach(workQueue')
      /\ TasksIn(workQueue') = TasksIn(workQueue) \cup {t}
  <2>1. \A u \in TasksIn(workQueue) : ~SameStep(u, t)
    BY DEF SameStep
  <2> QED BY <1>1, <1>2, <2>1, AddTask
<1>4. /\ r \in Requests /\ r.send \in Sends /\ r.leg \in Legs
      /\ r.device \in Devices \cup {None} /\ r.late \in BOOLEAN
      /\ overdue \in Requests /\ overdue.late /\ overdue.send = r.send
      /\ overdue.leg = r.leg /\ overdue.device = r.device
  BY DEF IndInv, TypeOK, Requests
<1> HIDE DEF overdue
<1>5. tracked' \subseteq (tracked \ {r}) \cup {overdue}
  BY DEF overdue
<1>6. \A i, j, k : ~Request(i, j, k).late /\ Request(i, j, k) # overdue
  BY <1>4 DEF Request
<1>7. r.device # None => Request(r.send, r.leg, r.device) \notin tracked'
  <2>1. CASE ~r.late
    <3>1. r = Request(r.send, r.leg, r.device)
      BY <1>4, <2>1 DEF Requests, Request
    <3> QED BY <1>5, <1>6, <3>1
  <2>2. CASE r.late
    BY <1>5, <1>6, <2>2 DEF IndInv, RequestsFit
  <2> QED BY <2>1, <2>2
<1>8. TypeOK'
  <2>1. tracked' \subseteq Requests
    BY <1>4, <1>5 DEF IndInv, TypeOK
  <2> QED BY <1>1, <1>3, <2>1 DEF IndInv, TypeOK
<1>9. StagesFit'
  BY <1>1 DEF IndInv, StagesFit, Over, Encrypted, Untouched, LegsOf, Order
<1>10. TasksFit'
  <2> SUFFICES ASSUME NEW u \in TasksIn(workQueue') PROVE TaskFits(u)'
    BY DEF TasksFit
  <2>1. CASE u = t
    <3>1. u.leg \in Legs /\ u.do \in {"listFailed", "bundle", "noBundle"}
      BY <1>4, <2>1
    <3>2. ASSUME u.do # "listFailed"
          PROVE  /\ u.device \in Devices /\ prep[u.send][u.leg] \in Fetched
                 /\ Request(u.send, u.leg, u.device) \notin tracked'
      BY <1>4, <1>7, <2>1, <3>2 DEF IndInv, RequestsFit
    <3> QED BY <1>1, <3>1, <3>2 DEF TaskFits
  <2>2. CASE u \in TasksIn(workQueue)
    <3>1. TaskFits(u)
      BY <2>2 DEF IndInv, TasksFit
    <3>2. u.do \in {"bundle", "noBundle"} => Request(u.send, u.leg, u.device) \notin tracked'
      BY <1>5, <1>6, <3>1 DEF TaskFits
    <3> QED BY <1>1, <3>1, <3>2 DEF TaskFits, Over, Encrypted, Untouched
  <2> QED BY <1>3, <2>1, <2>2
<1>11. RequestsFit'
  <2> SUFFICES ASSUME NEW e \in tracked', e.device # None
               PROVE  /\ prep[e.send][e.leg] \in Fetched
                      /\ IF e.late THEN Request(e.send, e.leg, e.device) \notin tracked'
                                   ELSE e.device \in waiting[e.send][e.leg]
    BY <1>1 DEF RequestsFit
  <2>1. CASE e = overdue
    BY <1>4, <1>7, <2>1 DEF IndInv, RequestsFit
  <2>2. CASE e \in tracked
    <3>1. /\ prep[e.send][e.leg] \in Fetched
          /\ IF e.late THEN Request(e.send, e.leg, e.device) \notin tracked
                       ELSE e.device \in waiting[e.send][e.leg]
      BY <2>2 DEF IndInv, RequestsFit
    <3> QED BY <1>5, <1>6, <3>1
  <2> QED BY <1>5, <2>1, <2>2
<1> QED BY <1>3, <1>8, <1>9, <1>10, <1>11 DEF IndInv

LEMMA AnswerHolds ==
    ASSUME IndInv, NEW r \in tracked, Answer(r)
    PROVE  IndInv'
<1>1. /\ r.send \in Sends /\ r.leg \in Legs /\ r.device \in Devices \cup {None}
  BY DEF IndInv, TypeOK, Requests
<1>2. ASSUME NEW L \in Lists(ParentOf(r.leg)), ListAnswered(r, L) PROVE IndInv'
  BY <1>2, ListAnsweredHolds
<1>3. CASE BundleAnswered(r)
  <2> DEFINE t == Task("bundle", r.send, r.leg, r.device)
  <2>1. /\ t \in Tasks /\ t.do = "bundle" /\ t.send = r.send /\ t.leg = r.leg
        /\ t.device = r.device
    BY <1>1 DEF Task, Tasks
  <2>2. Report(t) /\ r.device # None /\ tracked' = tracked \ {r}
    BY <1>3 DEF BundleAnswered
  <2> HIDE DEF t
  <2> QED BY <2>1, <2>2, ReportHolds
<1>4. CASE RequestFailed(r)
  <2> DEFINE t == Failure(r)
  <2>1. /\ t \in Tasks /\ t.do = (IF r.device = None THEN "listFailed" ELSE "noBundle")
        /\ t.send = r.send /\ t.leg = r.leg /\ t.device = r.device
    BY <1>1 DEF Failure, Task, Tasks
  <2>2. Report(t) /\ tracked' \subseteq (tracked \ {r}) \cup {[r EXCEPT !.late = TRUE]}
    BY <1>4 DEF RequestFailed
  <2> HIDE DEF t
  <2> QED BY <2>1, <2>2, ReportHolds
<1> QED BY <1>2, <1>3, <1>4 DEF Answer

-----------------------------------------------------------------------------
(* The parents of a message, each of them once.                            *)
LEMMA OrderOfSend ==
    ASSUME NEW s \in Sends
    PROVE  /\ Order(s) \in Seq(Legs)
           /\ \A i, j \in 1 .. Len(Order(s)) : Order(s)[i] = Order(s)[j] => i = j
<1> DEFINE buddies == Recipients(s)
<1>1. /\ buddies \in Seq(Legs \ {Own}) /\ Own \in Legs
      /\ \A i, j \in 1 .. Len(buddies) : buddies[i] = buddies[j] => i = j
  BY SendAssumption DEF SendAssumption
<1>2. \A i \in 1 .. Len(buddies) : buddies[i] # Own
  BY <1>1, ElementOfSeq
<1> HIDE DEF buddies
<1>3. buddies \in Seq(Legs)
  BY <1>1, SeqMonotonic
<1>4. Order(s) = Append(buddies, Own)
  BY <1>3 DEF Order, buddies
<1>5. /\ Append(buddies, Own) \in Seq(Legs)
      /\ Len(buddies) \in Nat /\ Len(Append(buddies, Own)) = Len(buddies) + 1
      /\ \A i \in 1 .. Len(buddies) : Append(buddies, Own)[i] = buddies[i]
      /\ Append(buddies, Own)[Len(buddies) + 1] = Own
  BY <1>1, <1>3, AppendProperties, LenProperties
<1>6. ASSUME NEW i \in 1 .. Len(Order(s)), NEW j \in 1 .. Len(Order(s)), Order(s)[i] = Order(s)[j]
      PROVE  i = j
  <2>1. i \in 1 .. Len(buddies) + 1 /\ j \in 1 .. Len(buddies) + 1
    BY <1>4, <1>5
  <2>2. CASE i \in 1 .. Len(buddies) /\ j \in 1 .. Len(buddies)
    BY <1>1, <1>4, <1>5, <1>6, <2>2
  <2>3. CASE i = Len(buddies) + 1
    BY <1>2, <1>4, <1>5, <1>6, <2>1, <2>3
  <2>4. CASE j = Len(buddies) + 1
    BY <1>2, <1>4, <1>5, <1>6, <2>1, <2>4
  <2> QED BY <1>5, <2>1, <2>2, <2>3, <2>4
<1> QED BY <1>4, <1>5, <1>6

(* The tasks a message begins with.                                        *)
LEMMA StartTasks ==
    ASSUME NEW s \in Sends, workQueue \in Seq(Tasks), OneEach(workQueue), Begin(s),
           \A u \in TasksIn(workQueue) : u.do = "start" => u.send # s
    PROVE  /\ workQueue' \in Seq(Tasks) /\ OneEach(workQueue')
           /\ \A u \in TasksIn(workQueue') \ TasksIn(workQueue) :
                /\ u.do = "start" /\ u.send = s /\ u.leg \in LegsOf(s) /\ u.leg \in Legs
<1> DEFINE q == workQueue
           r == workQueue'
           order == Order(s)
           n == Len(order)
           new == [i \in 1 .. n |-> Task("start", s, order[i], None)]
<1>1. /\ order \in Seq(Legs) /\ n \in Nat
      /\ \A i \in 1 .. n : order[i] \in Legs /\ order[i] \in LegsOf(s)
      /\ \A i, j \in 1 .. n : order[i] = order[j] => i = j
  BY OrderOfSend, ElementOfSeq, LenProperties DEF LegsOf
<1> HIDE DEF order, n
<1>2. \A i \in 1 .. n : Task("start", s, order[i], None) \in Tasks
  BY <1>1 DEF Task, Tasks
<1>3. new \in [1 .. n -> Tasks]
  BY <1>2
<1>4. new \in Seq(Tasks) /\ Len(new) = n
  BY <1>1, <1>3, SeqDef
<1>5. \A i \in 1 .. n : new[i].do = "start" /\ new[i].send = s /\ new[i].leg = order[i]
  BY DEF Task
<1> HIDE DEF new
<1>6. /\ r = q \o new /\ r \in Seq(Tasks) /\ Len(q) \in Nat /\ Len(r) = Len(q) + n
      /\ \A i \in 1 .. Len(q) + n : r[i] = IF i <= Len(q) THEN q[i] ELSE new[i - Len(q)]
  <2>1. r = q \o new
    BY DEF Begin, new, order, n
  <2>2. /\ q \o new \in Seq(Tasks) /\ Len(q \o new) = Len(q) + Len(new)
        /\ \A i \in 1 .. Len(q) + Len(new) :
             (q \o new)[i] = IF i <= Len(q) THEN q[i] ELSE new[i - Len(q)]
    BY <1>4, ConcatProperties
  <2>3. Len(q) \in Nat
    BY LenProperties
  <2> QED BY <1>4, <2>1, <2>2, <2>3
<1>7. ASSUME NEW i \in 1 .. Len(r)
      PROVE  \/ i \in 1 .. Len(q) /\ r[i] = q[i] /\ r[i] \in TasksIn(q)
             \/ /\ i - Len(q) \in 1 .. n /\ r[i] = new[i - Len(q)]
                /\ r[i].do = "start" /\ r[i].send = s /\ r[i].leg = order[i - Len(q)]
  <2>1. CASE i <= Len(q)
    BY <1>6, <2>1 DEF TasksIn
  <2>2. CASE ~(i <= Len(q))
    <3>1. i - Len(q) \in 1 .. n /\ r[i] = new[i - Len(q)]
      BY <1>1, <1>6, <2>2
    <3> QED BY <1>5, <3>1
  <2> QED BY <2>1, <2>2
<1>8. OneEach(r)
  <2> SUFFICES ASSUME NEW i \in 1 .. Len(r), NEW j \in 1 .. Len(r), SameStep(r[i], r[j])
               PROVE  i = j
    BY DEF OneEach
  <2>1. r[i].do = r[j].do /\ r[i].send = r[j].send /\ r[i].leg = r[j].leg
    BY DEF SameStep
  <2>2. CASE r[i] \in TasksIn(q) /\ i \in 1 .. Len(q) /\ r[i] = q[i]
    <3>1. j \in 1 .. Len(q) /\ r[j] = q[j]
      BY <1>7, <2>1, <2>2
    <3> QED BY <2>2, <3>1 DEF OneEach
  <2>3. CASE /\ i - Len(q) \in 1 .. n /\ r[i].leg = order[i - Len(q)]
             /\ r[i].do = "start" /\ r[i].send = s
    <3>1. j - Len(q) \in 1 .. n /\ r[j].leg = order[j - Len(q)]
      BY <1>7, <2>1, <2>3
    <3>2. i - Len(q) = j - Len(q)
      BY <1>1, <2>1, <2>3, <3>1
    <3> QED BY <1>6, <3>2
  <2> QED BY <1>7, <2>2, <2>3
<1>9. ASSUME NEW u \in TasksIn(r) \ TasksIn(q)
      PROVE  u.do = "start" /\ u.send = s /\ u.leg \in LegsOf(s) /\ u.leg \in Legs
  <2>1. PICK i \in 1 .. Len(r) : u = r[i]
    BY DEF TasksIn
  <2> QED BY <1>1, <1>7, <2>1
<1> QED BY <1>6, <1>8, <1>9

LEMMA BeginHolds ==
    ASSUME IndInv, NEW s \in Sends, Begin(s)
    PROVE  IndInv'
<1>1. /\ outcome[s] = "new" /\ outcome' = [outcome EXCEPT ![s] = "preparing"]
      /\ prep' = [prep EXCEPT ![s] =
           [l \in Legs |-> IF l \in LegsOf(s) THEN "queued" ELSE "idle"]]
      /\ snapshot' = [snapshot EXCEPT ![s] = [l \in Legs |-> rows \cap DevicesOf(ParentOf(l))]]
      /\ UNCHANGED <<rows, sessions, waiting, waiter, removing, tracked, crashed, pushes, forgotten>>
  BY DEF Begin, db
<1>2. \A l \in Legs : prep[s][l] = "idle"
  BY <1>1 DEF IndInv, StagesFit, Untouched
<1>3. \A u \in TasksIn(workQueue) : /\ u \in Tasks /\ u.send \in Sends /\ TaskFits(u)
                                    /\ u.do # "listFailed" => u.send # s
  BY <1>1, <1>2, TaskTyped DEF IndInv, TasksFit, TaskFits, Fetched, Over, Encrypted, Untouched, Tasks
<1>4. /\ workQueue' \in Seq(Tasks) /\ OneEach(workQueue')
      /\ \A u \in TasksIn(workQueue') \ TasksIn(workQueue) :
           u.do = "start" /\ u.send = s /\ u.leg \in LegsOf(s) /\ u.leg \in Legs
  <2>1. /\ workQueue \in Seq(Tasks) /\ OneEach(workQueue)
        /\ \A u \in TasksIn(workQueue) : u.do = "start" => u.send # s
    BY <1>3 DEF IndInv, TypeOK
  <2> QED BY <2>1, StartTasks
<1>5. /\ outcome' \in [Sends -> Outcomes] /\ outcome'[s] = "preparing"
      /\ \A i \in Sends : i # s => outcome'[i] = outcome[i]
  BY <1>1 DEF IndInv, TypeOK, Outcomes
<1>6. /\ prep' \in [Sends -> [Legs -> Stages]]
      /\ \A i \in Sends, l \in Legs : prep'[i][l] =
           IF i = s THEN (IF l \in LegsOf(s) THEN "queued" ELSE "idle") ELSE prep[i][l]
  BY <1>1 DEF IndInv, TypeOK, Stages
<1>7. /\ snapshot' \in [Sends -> [Legs -> SUBSET Devices]]
      /\ \A i \in Sends : i # s => snapshot'[i] = snapshot[i]
  BY <1>1 DEF IndInv, TypeOK
<1>8. TypeOK'
  <2>1. \A i \in Sends, l \in Legs :
          /\ waiting'[i][l] \subseteq snapshot'[i][l] \ {Self}
          /\ waiting'[i][l] # {} <=> prep'[i][l] = "bundles"
    <3> TAKE i \in Sends, l \in Legs
    <3>1. /\ waiting[i][l] \subseteq snapshot[i][l] \ {Self}
          /\ waiting[i][l] # {} <=> prep[i][l] = "bundles"
      BY DEF IndInv, TypeOK
    <3>2. CASE i = s
      <4>1. waiting'[i][l] = {}
        BY <1>1, <1>2, <3>1, <3>2
      <4> QED BY <1>6, <3>2, <4>1
    <3>3. CASE i # s
      BY <1>1, <1>6, <1>7, <3>1, <3>3
    <3> QED BY <3>2, <3>3
  <2> QED BY <1>1, <1>4, <1>5, <1>6, <1>7, <2>1 DEF IndInv, TypeOK
<1>9. StagesFit'
  <2>1. "preparing" \notin Over
    BY DEF Over, Encrypted, Untouched
  <2> QED BY <1>5, <1>6, <2>1 DEF IndInv, StagesFit, Over, Encrypted, Untouched, LegsOf, Order
<1>10. TasksFit'
  <2> SUFFICES ASSUME NEW u \in TasksIn(workQueue') PROVE TaskFits(u)'
    BY DEF TasksFit
  <2>1. CASE u \in TasksIn(workQueue)
    BY <1>1, <1>3, <1>5, <1>6, <2>1 DEF TaskFits, Over, Encrypted, Untouched
  <2>2. CASE u \notin TasksIn(workQueue)
    BY <1>4, <1>6, <2>2 DEF TaskFits
  <2> QED BY <2>1, <2>2
<1>11. RequestsFit'
  <2> SUFFICES ASSUME NEW r \in tracked, r.device # None
               PROVE  /\ prep'[r.send][r.leg] \in Fetched
                      /\ IF r.late THEN Request(r.send, r.leg, r.device) \notin tracked
                                   ELSE r.device \in waiting[r.send][r.leg]
    BY <1>1 DEF RequestsFit
  <2>1. /\ r.send \in Sends /\ r.leg \in Legs /\ prep[r.send][r.leg] \in Fetched
        /\ IF r.late THEN Request(r.send, r.leg, r.device) \notin tracked
                     ELSE r.device \in waiting[r.send][r.leg]
    BY DEF IndInv, RequestsFit, TypeOK, Requests
  <2>2. r.send # s
    BY <1>2, <2>1 DEF Fetched
  <2> QED BY <1>6, <2>1, <2>2
<1> QED BY <1>4, <1>8, <1>9, <1>10, <1>11 DEF IndInv

-----------------------------------------------------------------------------
LEMMA InitHolds == Init => IndInv
<1> SUFFICES ASSUME Init PROVE IndInv
  OBVIOUS
<1>1. workQueue = <<>> /\ workQueue \in Seq(Tasks) /\ Len(workQueue) = 0
  BY EmptySeq DEF Init
<1>2. TypeOK
  <2>1. /\ prep \in [Sends -> [Legs -> Stages]]
        /\ snapshot \in [Sends -> [Legs -> SUBSET Devices]]
        /\ waiting \in [Sends -> [Legs -> SUBSET Devices]]
        /\ \A s \in Sends, l \in Legs :
             waiting[s][l] = {} /\ snapshot[s][l] = {} /\ prep[s][l] = "idle"
    BY DEF Init, Stages
  <2>2. /\ rows \subseteq Devices /\ sessions \subseteq Devices
        /\ waiter \in [Parents -> (Sends \X Legs) \cup {None}] /\ removing \in [Queues -> Parents \cup {None}]
        /\ tracked \subseteq Requests /\ outcome \in [Sends -> Outcomes]
        /\ forgotten \subseteq Sends \X Legs
    BY SendAssumption DEF SendAssumption, Init, Outcomes
  <2>3. pushes \in 0 .. MaxPushes
    BY SendAssumption DEF SendAssumption, Init
  <2>4. crashed \in BOOLEAN
    BY DEF Init
  <2>5. \A s \in Sends, l \in Legs :
          /\ waiting[s][l] \subseteq snapshot[s][l] \ {Self}
          /\ waiting[s][l] # {} <=> prep[s][l] = "bundles"
    BY <2>1
  <2> QED BY <1>1, <2>1, <2>2, <2>3, <2>4, <2>5 DEF TypeOK
<1>3. TasksIn(workQueue) = {} /\ OneEach(workQueue)
  BY <1>1 DEF TasksIn, OneEach
<1>4. StagesFit
  BY DEF Init, StagesFit, Over, Encrypted, Untouched
<1> QED BY <1>2, <1>3, <1>4 DEF IndInv, TasksFit, RequestsFit, Init

LEMMA StepHolds == IndInv /\ [Next]_vars => IndInv'
<1> SUFFICES ASSUME IndInv, [Next]_vars PROVE IndInv'
  OBVIOUS
<1>1. CASE \E s \in Sends : Refuse(s) \/ Begin(s) \/ AllPrepared(s)
  BY <1>1, RefuseHolds, BeginHolds, AllPreparedHolds
<1>2. CASE WorkStep
  BY <1>2, StartUnknownHolds, StartWithRowsHolds, StartWithoutRowsHolds, ContinueHolds, ListFailedHolds,
     BundleDoneHolds, FinishHolds DEF WorkStep
<1>3. CASE \E q \in Queues : RemoveWaiter(q)
  BY <1>3, RemoveWaiterHolds
<1>4. CASE \E p \in Parents, L \in SUBSET Devices : L \in Lists(p) /\ PushList(p, L)
  BY <1>4, PushListHolds
<1>5. CASE \E r \in tracked : Answer(r)
  BY <1>5, AnswerHolds
<1>6. CASE UNCHANGED vars
  BY <1>6 DEF vars, db, preparation, IndInv, TypeOK, StagesFit, TasksFit, TaskFits, RequestsFit,
     LegsOf, Order, Over, Encrypted, Untouched, OneEach, TasksIn
<1> QED BY <1>1, <1>2, <1>3, <1>4, <1>5, <1>6 DEF Next

(* The inductive invariant: which stages go with which tasks, requests and *)
(* outcomes, on every state of sending.                                    *)
THEOREM IndInvHolds == Spec => []IndInv
<1> QED BY InitHolds, StepHolds, PTL DEF Spec

(* Every variable keeps its type, and a preparation waits for bundles if   *)
(* and only if it is at that stage, of devices of its snapshot only.       *)
THEOREM TypeCorrect == Spec => []TypeOK
<1>1. IndInv => TypeOK
  BY DEF IndInv
<1> QED BY <1>1, IndInvHolds, PTL

(* No message is encrypted while one of its requests for a bundle is still *)
(* to be answered or to time out, whatever is answered late, twice or not  *)
(* at all, and however messages overlap.                                   *)
THEOREM PendingCorrect == Spec => []NothingPending
<1>1. IndInv => NothingPending
  <2> SUFFICES ASSUME IndInv, NEW s \in Sends, outcome[s] \in Over \cup Untouched,
                      NEW r \in tracked, r.send = s, r.device # None
               PROVE  r.late
    BY DEF NothingPending, Over, Encrypted, Untouched, Answered
  <2>1. r.leg \in Legs /\ r.late \in BOOLEAN
    BY DEF IndInv, TypeOK, Requests
  <2>2. prep[s][r.leg] \in {"idle", "done"}
    BY <2>1 DEF IndInv, StagesFit
  <2>3. waiting[s][r.leg] = {}
    BY <2>1, <2>2 DEF IndInv, TypeOK
  <2> QED BY <2>1, <2>3 DEF IndInv, RequestsFit
<1> QED BY <1>1, IndInvHolds, PTL

-----------------------------------------------------------------------------
(* Nobody is left behind.                                                  *)

(* A preparation that keeps its stage is carried on by the same task,      *)
(* request or closure.                                                     *)
LEMMA CarryOver ==
    ASSUME NEW s, NEW l, CarriedOn(s, l), prep'[s][l] = prep[s][l],
           waiting'[s][l] \subseteq waiting[s][l], forgotten \subseteq forgotten',
           \A do \in {"start", "continue"} :
              Scheduled(do, s, l, None) => Scheduled(do, s, l, None)',
           prep[s][l] = "list" /\ waiter[ParentOf(l)] = <<s, l>> =>
              <<s, l>> \in forgotten' \/ (waiter'[ParentOf(l)] = <<s, l>> /\ (Open(s, l, None) => Open(s, l, None)')),
           \A d \in waiting'[s][l] : Open(s, l, d) => Open(s, l, d)'
    PROVE  CarriedOn(s, l)'
BY DEF CarriedOn

(* A task leaves the front of the queue and nothing else does.             *)
LEMMA OthersScheduled ==
    ASSUME workQueue \in Seq(Tasks), workQueue # <<>>,
           TasksIn(Tail(workQueue)) \subseteq TasksIn(workQueue'),
           NEW do, NEW s, NEW l, NEW d, Scheduled(do, s, l, d),
           Head(workQueue) # Task(do, s, l, d)
    PROVE  Scheduled(do, s, l, d)'
<1>1. PICK i \in 1 .. Len(workQueue) : workQueue[i] = Task(do, s, l, d)
  BY DEF Scheduled
<1>2. /\ Head(workQueue) = workQueue[1] /\ Len(workQueue) \in Nat
      /\ Len(Tail(workQueue)) = Len(workQueue) - 1
      /\ \A k \in 1 .. Len(workQueue) - 1 : Tail(workQueue)[k] = workQueue[k + 1]
  BY EmptySeq, HeadTailProperties
<1>3. i # 1
  BY <1>1, <1>2
<1>4. i - 1 \in 1 .. Len(Tail(workQueue)) /\ Tail(workQueue)[i - 1] = Task(do, s, l, d)
  BY <1>1, <1>2, <1>3
<1>5. Task(do, s, l, d) \in TasksIn(workQueue')
  BY <1>4 DEF TasksIn
<1> QED BY <1>5 DEF TasksIn, Scheduled

LEMMA AllScheduled ==
    ASSUME TasksIn(workQueue) \subseteq TasksIn(workQueue'),
           NEW do, NEW s, NEW l, NEW d, Scheduled(do, s, l, d)
    PROVE  Scheduled(do, s, l, d)'
BY DEF TasksIn, Scheduled

LEMMA InScheduled ==
    ASSUME NEW do, NEW s, NEW l, NEW d, Task(do, s, l, d) \in TasksIn(workQueue')
    PROVE  Scheduled(do, s, l, d)'
BY DEF TasksIn, Scheduled

(* An appended task, and those that were there.                            *)
LEMMA Appended ==
    ASSUME NEW q \in Seq(Tasks), NEW t \in Tasks
    PROVE  TasksIn(Append(q, t)) = TasksIn(q) \cup {t}
<1>1. /\ Len(q) \in Nat /\ Len(Append(q, t)) = Len(q) + 1
      /\ Append(q, t)[Len(q) + 1] = t
      /\ \A i \in 1 .. Len(q) : Append(q, t)[i] = q[i]
  BY AppendProperties
<1>2. \A i \in 1 .. Len(q) + 1 : i \in 1 .. Len(q) \/ i = Len(q) + 1
  BY <1>1
<1>3. TasksIn(Append(q, t)) \subseteq TasksIn(q) \cup {t}
  BY <1>1, <1>2 DEF TasksIn
<1>4. TasksIn(q) \cup {t} \subseteq TasksIn(Append(q, t))
  BY <1>1 DEF TasksIn
<1> QED BY <1>3, <1>4

Carry == IndInv /\ SomebodyCarriesOn

(* The parts of the invariant a step of a running process may use.         *)
LEMMA CarryOf ==
    ASSUME Carry, ~crashed
    PROVE  /\ \A s \in Sends : outcome[s] = "preparing" => \A l \in LegsOf(s) : CarriedOn(s, l)
           /\ \A s \in Sends : outcome[s] = "finishing" => Scheduled("finish", s, None, None)
           /\ \A s \in Sends : LegsOf(s) \subseteq Legs
           /\ \A s \in Sends, l \in Legs : None \notin waiting[s][l]
           /\ workQueue \in Seq(Tasks)
<1>1. ASSUME NEW s \in Sends PROVE LegsOf(s) \subseteq Legs
  BY OrderOfSend, ElementOfSeq DEF LegsOf
<1>2. \A s \in Sends, l \in Legs : None \notin waiting[s][l]
  BY SendAssumption DEF SendAssumption, Carry, IndInv, TypeOK
<1> QED BY <1>1, <1>2 DEF Carry, SomebodyCarriesOn, IndInv, TypeOK

(* bundleFetch: every device it waits for has an open request.             *)
LEMMA FetchCarries ==
    ASSUME Carry, NEW do \in {"start", "continue"}, Working(do),
           NEW s, s = Head(workQueue).send, NEW l, l = Head(workQueue).leg,
           NEW devices \in SUBSET Devices, FetchBundles(s, l, devices),
           workQueue' = Tail(workQueue),
           UNCHANGED <<waiter, outcome, crashed, forgotten>>
    PROVE  SomebodyCarriesOn'
<1> DEFINE missing == (devices \ {Self}) \ sessions
           stage == IF missing = {} THEN "done" ELSE "bundles"
           t == Head(workQueue)
<1>1. /\ t.do = do /\ t.send = s /\ t.leg = l /\ s \in Sends /\ l \in Legs
  BY TakeWork DEF Carry
<1>2. ~crashed /\ workQueue # <<>>
  BY DEF Working
<1>3. /\ prep \in [Sends -> [Legs -> Stages]] /\ waiting \in [Sends -> [Legs -> SUBSET Devices]]
      /\ missing \in SUBSET Devices /\ stage \in Stages
      /\ prep' = [prep EXCEPT ![s][l] = stage]
      /\ waiting' = [waiting EXCEPT ![s][l] = missing]
      /\ tracked' = tracked \cup {Request(s, l, d) : d \in missing}
  BY DEF Carry, IndInv, TypeOK, FetchBundles, Stages
<1>4. stage \in {"done", "bundles"}
  OBVIOUS
<1> HIDE DEF missing, stage, t
<1>5. \A i \in Sends, j \in Legs : prep'[i][j] = IF i = s /\ j = l THEN stage ELSE prep[i][j]
  BY <1>1, <1>3, Assign
<1>6. \A i \in Sends, j \in Legs : waiting'[i][j] = IF i = s /\ j = l THEN missing ELSE waiting[i][j]
  BY <1>1, <1>3, Assign
<1>7. ASSUME NEW o, NEW i, NEW j, NEW d, Scheduled(o, i, j, d), ~(o = do /\ i = s /\ j = l)
      PROVE  Scheduled(o, i, j, d)'
  <2>1. t # Task(o, i, j, d)
    BY <1>1, <1>7 DEF Task
  <2> QED BY <1>2, <1>7, <2>1, CarryOf, OthersScheduled DEF t
<1>8. \A i, j, d : Open(i, j, d) => Open(i, j, d)'
  BY <1>3, <1>7 DEF Open
<1>9. ASSUME NEW i \in Sends, outcome[i] = "preparing", NEW j \in LegsOf(i)
      PROVE  CarriedOn(i, j)'
  <2>1. j \in Legs /\ CarriedOn(i, j)
    BY <1>2, <1>9, CarryOf
  <2>2. CASE i = s /\ j = l
    <3>1. \A d \in missing : Open(s, l, d)'
      BY <1>3 DEF Open
    <3> QED BY <1>1, <1>4, <1>5, <1>6, <2>2, <3>1 DEF CarriedOn
  <2>3. CASE ~(i = s /\ j = l)
    <3>1. \A o \in {"start", "continue"} : Scheduled(o, i, j, None) => Scheduled(o, i, j, None)'
      BY <1>7, <2>3
    <3>2. prep'[i][j] = prep[i][j] /\ waiting'[i][j] = waiting[i][j]
      BY <1>5, <1>6, <2>1, <2>3
    <3> QED BY <1>8, <2>1, <3>1, <3>2, CarryOver
  <2> QED BY <2>2, <2>3
<1>10. ASSUME NEW i \in Sends, outcome[i] = "finishing" PROVE Scheduled("finish", i, None, None)'
  BY <1>2, <1>7, <1>10, CarryOf
<1> QED BY <1>9, <1>10 DEF SomebodyCarriesOn, LegsOf, Order

LEMMA StartWithRowsCarries == ASSUME Carry, StartWithRows PROVE SomebodyCarriesOn'
<1> DEFINE t == Head(workQueue)
<1>1. Working("start") /\ t.send \in Sends /\ t.leg \in Legs
  BY TakeWork DEF StartWithRows, Carry
<1>2. /\ snapshot[t.send][t.leg] \in SUBSET Devices
      /\ FetchBundles(t.send, t.leg, snapshot[t.send][t.leg])
      /\ workQueue' = Tail(workQueue) /\ UNCHANGED <<waiter, outcome, crashed, forgotten>>
  BY <1>1 DEF StartWithRows, Carry, IndInv, TypeOK
<1> HIDE DEF t
<1> QED BY <1>1, <1>2, FetchCarries DEF t

LEMMA ContinueCarries == ASSUME Carry, Continue PROVE SomebodyCarriesOn'
<1> DEFINE t == Head(workQueue)
           now == rows \cap DevicesOf(ParentOf(t.leg))
<1>1. /\ Working("continue") /\ now \in SUBSET Devices
      /\ FetchBundles(t.send, t.leg, now)
      /\ workQueue' = Tail(workQueue) /\ UNCHANGED <<waiter, outcome, crashed, forgotten>>
  BY DEF Continue, Carry, IndInv, TypeOK
<1> HIDE DEF t, now
<1> QED BY <1>1, FetchCarries DEF t

(* deviceFetch: the preparation has an open request; whose closure it      *)
(* replaced is forgotten.                                                  *)
LEMMA StartWithoutRowsCarries == ASSUME Carry, StartWithoutRows PROVE SomebodyCarriesOn'
<1> DEFINE t == Head(workQueue)
           s == t.send
           l == t.leg
<1>1. /\ t.do = "start" /\ s \in Sends /\ l \in Legs /\ ~crashed /\ workQueue # <<>>
  BY TakeWork DEF StartWithoutRows, Carry, Working
<1>2. /\ prep \in [Sends -> [Legs -> Stages]] /\ "list" \in Stages
      /\ waiter \in [Parents -> (Sends \X Legs) \cup {None}]
      /\ prep' = [prep EXCEPT ![s][l] = "list"] /\ workQueue' = Tail(workQueue)
      /\ waiter' = [waiter EXCEPT ![ParentOf(l)] = <<s, l>>]
      /\ tracked' = tracked \cup {Request(s, l, None)}
      /\ forgotten' = forgotten \cup
           {w \in Sends \X Legs : waiter[ParentOf(l)] = w /\ prep[w[1]][w[2]] = "list"}
      /\ UNCHANGED <<waiting, outcome, crashed>>
  BY DEF StartWithoutRows, Forget, Carry, IndInv, TypeOK, Stages
<1> HIDE DEF t, s, l
<1>3. \A i \in Sends, j \in Legs : prep'[i][j] = IF i = s /\ j = l THEN "list" ELSE prep[i][j]
  BY <1>1, <1>2, Assign
<1>4. ASSUME NEW o, NEW i, NEW j, NEW d, Scheduled(o, i, j, d), ~(o = "start" /\ i = s /\ j = l)
      PROVE  Scheduled(o, i, j, d)'
  <2>1. t # Task(o, i, j, d)
    BY <1>1, <1>4 DEF Task, s, l
  <2> QED BY <1>1, <1>2, <1>4, <2>1, CarryOf, OthersScheduled DEF t
<1>5. \A i, j, d : Open(i, j, d) => Open(i, j, d)'
  BY <1>2, <1>4 DEF Open
<1>6. ASSUME NEW i \in Sends, outcome[i] = "preparing", NEW j \in LegsOf(i)
      PROVE  CarriedOn(i, j)'
  <2>1. j \in Legs /\ CarriedOn(i, j)
    BY <1>1, <1>6, CarryOf
  <2>2. CASE i = s /\ j = l
    <3>1. Request(i, j, None) \in tracked' /\ waiter'[ParentOf(j)] = <<i, j>>
      BY <1>1, <1>2, <2>2, LegTyped
    <3>2. prep'[i][j] = "list"
      BY <1>1, <1>3, <2>2
    <3>3. Open(i, j, None)'
      BY <3>1 DEF Open, Request
    <3> QED BY <3>1, <3>2, <3>3 DEF CarriedOn
  <2>3. CASE ~(i = s /\ j = l)
    <3>1. \A o \in {"start", "continue"} : Scheduled(o, i, j, None) => Scheduled(o, i, j, None)'
      BY <1>4, <2>3
    <3>2. prep'[i][j] = prep[i][j] /\ waiting'[i][j] = waiting[i][j] /\ forgotten \subseteq forgotten'
      BY <1>2, <1>3, <2>1, <2>3
    <3>3. prep[i][j] = "list" /\ waiter[ParentOf(j)] = <<i, j>> =>
            <<i, j>> \in forgotten' \/ waiter'[ParentOf(j)] = <<i, j>>
      BY <1>1, <1>2, <2>1, LegTyped
    <3> QED BY <1>5, <2>1, <3>1, <3>2, <3>3, CarryOver
  <2> QED BY <2>2, <2>3
<1>7. ASSUME NEW i \in Sends, outcome[i] = "finishing" PROVE Scheduled("finish", i, None, None)'
  BY <1>1, <1>4, <1>7, CarryOf
<1> QED BY <1>2, <1>6, <1>7 DEF SomebodyCarriesOn, LegsOf, Order

(* A list's answer or failure: whoever waits in its closure goes on, and   *)
(* nobody else waits for it uncalled.                                      *)
LEMMA CallCarries ==
    ASSUME Carry, ~crashed, NEW q \in Queues, NEW p \in Parents,
           NEW tasks \in Seq(Tasks), CallWaiter(q, p, tasks),
           \A o, i, j, d : Scheduled(o, i, j, d) =>
              Task(o, i, j, d) \in TasksIn(tasks) \/ (o = "listFailed" /\ ParentOf(j) = p),
           \A r \in tracked : r \in tracked' \/ (r.device = None /\ ParentOf(r.leg) = p),
           UNCHANGED <<waiting, waiter, outcome, forgotten>>
    PROVE  SomebodyCarriesOn'
<1> DEFINE s == waiter[p][1]
           l == waiter[p][2]
           c == Task("continue", s, l, None)
<1>1. prep \in [Sends -> [Legs -> Stages]] /\ "listed" \in Stages
  BY DEF Carry, IndInv, TypeOK, Stages
<1> SUFFICES ASSUME ~crashed' PROVE SomebodyCarriesOn'
  BY DEF SomebodyCarriesOn
<1>2. CASE waiter[p] = None
  <2>1. workQueue' = tasks /\ prep' = prep
    BY <1>2 DEF CallWaiter
  <2>2. ASSUME NEW i \in Sends, outcome[i] = "preparing", NEW j \in LegsOf(i)
        PROVE  CarriedOn(i, j)'
    <3>1. <<i, j>> # None /\ j \in Legs /\ CarriedOn(i, j) /\ None \notin waiting[i][j]
      BY <2>2, CarryOf, NobodyIsNone
    <3>2. \A o \in {"start", "continue"} : Scheduled(o, i, j, None) => Scheduled(o, i, j, None)'
      BY <2>1, InScheduled
    <3>3. waiter[ParentOf(j)] = <<i, j>> => (Open(i, j, None) => Open(i, j, None)')
      <4> SUFFICES ASSUME waiter[ParentOf(j)] = <<i, j>>, Open(i, j, None) PROVE Open(i, j, None)'
        OBVIOUS
      <4>1. ParentOf(j) # p
        BY <1>2, <3>1
      <4> QED BY <2>1, <4>1, InScheduled DEF Open, Request
    <3>4. \A d \in waiting'[i][j] : Open(i, j, d) => Open(i, j, d)'
      BY <2>1, <3>1, InScheduled DEF Open, Request
    <3> QED BY <2>1, <3>1, <3>2, <3>3, <3>4, CarryOver
  <2>3. ASSUME NEW i \in Sends, outcome[i] = "finishing" PROVE Scheduled("finish", i, None, None)'
    BY <2>1, <2>3, CarryOf, InScheduled
  <2> QED BY <2>2, <2>3 DEF SomebodyCarriesOn, LegsOf, Order
<1>3. CASE waiter[p] # None
  <2>1. s \in Sends /\ l \in Legs /\ waiter[p] = <<s, l>>
    BY <1>3, WaiterTyped DEF Carry, IndInv
  <2>2. /\ prep' = [prep EXCEPT ![s][l] = "listed"] /\ workQueue' = Append(tasks, c)
    BY <1>3 DEF CallWaiter
  <2>3. c \in Tasks
    BY <2>1 DEF Task, Tasks
  <2> HIDE DEF s, l, c
  <2>4. \A i \in Sends, j \in Legs : prep'[i][j] = IF i = s /\ j = l THEN "listed" ELSE prep[i][j]
    BY <1>1, <2>1, <2>2, Assign
  <2>5. TasksIn(workQueue') = TasksIn(tasks) \cup {c}
    BY <2>2, <2>3, Appended
  <2>6. ASSUME NEW i \in Sends, outcome[i] = "preparing", NEW j \in LegsOf(i)
        PROVE  CarriedOn(i, j)'
    <3>1. j \in Legs /\ CarriedOn(i, j) /\ None \notin waiting[i][j]
      BY <2>6, CarryOf
    <3>2. CASE i = s /\ j = l
      <4>1. Scheduled("continue", i, j, None)'
        BY <2>5, <3>2, InScheduled DEF c
      <4> QED BY <2>1, <2>4, <3>2, <4>1 DEF CarriedOn
    <3>3. CASE ~(i = s /\ j = l)
      <4>1. \A o \in {"start", "continue"} : Scheduled(o, i, j, None) => Scheduled(o, i, j, None)'
        BY <2>5, InScheduled
      <4>2. waiter[ParentOf(j)] = <<i, j>> => (Open(i, j, None) => Open(i, j, None)')
        <5> SUFFICES ASSUME waiter[ParentOf(j)] = <<i, j>>, Open(i, j, None) PROVE Open(i, j, None)'
          OBVIOUS
        <5>1. ParentOf(j) # p
          BY <2>1, <3>3
        <5> QED BY <2>5, <5>1, InScheduled DEF Open, Request
      <4>3. \A d \in waiting'[i][j] : Open(i, j, d) => Open(i, j, d)'
        BY <2>5, <3>1, InScheduled DEF Open, Request
      <4>4. prep'[i][j] = prep[i][j]
        BY <2>4, <3>1, <3>3
      <4> QED BY <3>1, <4>1, <4>2, <4>3, <4>4, CarryOver
    <3> QED BY <3>2, <3>3
  <2>7. ASSUME NEW i \in Sends, outcome[i] = "finishing" PROVE Scheduled("finish", i, None, None)'
    BY <2>5, <2>7, CarryOf, InScheduled
  <2> QED BY <2>6, <2>7 DEF SomebodyCarriesOn, LegsOf, Order
<1> QED BY <1>2, <1>3

LEMMA ListFailedCarries == ASSUME Carry, ListFailed PROVE SomebodyCarriesOn'
<1> DEFINE t == Head(workQueue)
<1>1. /\ t.do = "listFailed" /\ ParentOf(t.leg) \in Parents /\ Tail(workQueue) \in Seq(Tasks)
      /\ ~crashed /\ workQueue # <<>> /\ workQueue \in Seq(Tasks)
  BY TakeWork, LegTyped DEF ListFailed, Carry, Working, IndInv, TypeOK
<1>2. /\ CallWaiter("work", ParentOf(t.leg), Tail(workQueue)) /\ tracked' = tracked
      /\ UNCHANGED <<waiting, waiter, outcome, forgotten>>
  BY DEF ListFailed
<1> HIDE DEF t
<1>3. ASSUME NEW o, NEW i, NEW j, NEW d, Scheduled(o, i, j, d),
             ~(o = "listFailed" /\ ParentOf(j) = ParentOf(t.leg))
      PROVE  Task(o, i, j, d) \in TasksIn(Tail(workQueue))
  <2>1. t # Task(o, i, j, d)
    BY <1>1, <1>3 DEF Task
  <2>2. PICK k \in 1 .. Len(workQueue) : workQueue[k] = Task(o, i, j, d)
    BY <1>3 DEF Scheduled
  <2>3. /\ t = workQueue[1] /\ Len(workQueue) \in Nat
        /\ Len(Tail(workQueue)) = Len(workQueue) - 1
        /\ \A m \in 1 .. Len(workQueue) - 1 : Tail(workQueue)[m] = workQueue[m + 1]
    BY <1>1, EmptySeq, HeadTailProperties DEF t
  <2>4. k - 1 \in 1 .. Len(Tail(workQueue)) /\ Tail(workQueue)[k - 1] = Task(o, i, j, d)
    BY <2>1, <2>2, <2>3
  <2> QED BY <2>4 DEF TasksIn
<1> QED BY <1>1, <1>2, <1>3, CallCarries DEF Queues

LEMMA StoreCarries ==
    ASSUME Carry, ~crashed, NEW p \in Parents, NEW L, StoreDeviceIds(p, L),
           \A r \in tracked : r \in tracked' \/ (r.device = None /\ ParentOf(r.leg) = p)
    PROVE  SomebodyCarriesOn'
<1>1. \A o, i, j, d : Scheduled(o, i, j, d) => Task(o, i, j, d) \in TasksIn(workQueue)
  BY DEF Scheduled, TasksIn
<1>2. /\ workQueue \in Seq(Tasks) /\ CallWaiter("module", p, workQueue)
      /\ UNCHANGED <<waiting, waiter, outcome, forgotten>>
  BY DEF StoreDeviceIds, Carry, IndInv, TypeOK
<1> QED BY <1>1, <1>2, CallCarries DEF Queues

(* The removal of a closure forgets whoever still waits in it.             *)
LEMMA RemoveWaiterCarries ==
    ASSUME Carry, NEW q \in Queues, RemoveWaiter(q)
    PROVE  SomebodyCarriesOn'
<1> DEFINE p == removing[q]
<1>1. /\ ~crashed /\ waiter \in [Parents -> (Sends \X Legs) \cup {None}]
      /\ waiter' = [waiter EXCEPT ![p] = None]
      /\ forgotten' = forgotten \cup
           {w \in Sends \X Legs : waiter[p] = w /\ prep[w[1]][w[2]] = "list"}
      /\ UNCHANGED <<prep, waiting, workQueue, tracked, outcome, crashed>>
  BY DEF RemoveWaiter, Forget, preparation, Carry, IndInv, TypeOK
<1> HIDE DEF p
<1>2. ASSUME NEW i \in Sends, outcome[i] = "preparing", NEW j \in LegsOf(i)
      PROVE  CarriedOn(i, j)'
  <2>1. j \in Legs /\ CarriedOn(i, j)
    BY <1>1, <1>2, CarryOf
  <2>2. prep[i][j] = "list" /\ waiter[ParentOf(j)] = <<i, j>> =>
          <<i, j>> \in forgotten' \/ waiter'[ParentOf(j)] = <<i, j>>
    BY <1>1, <2>1, LegTyped
  <2>3. \A o, d : /\ Scheduled(o, i, j, d) => Scheduled(o, i, j, d)'
                  /\ Open(i, j, d) => Open(i, j, d)'
    BY <1>1 DEF Scheduled, Open
  <2> QED BY <1>1, <2>1, <2>2, <2>3, CarryOver
<1>3. \A i \in Sends : outcome[i] = "finishing" => Scheduled("finish", i, None, None)'
  BY <1>1, CarryOf DEF Scheduled
<1> QED BY <1>1, <1>2, <1>3 DEF SomebodyCarriesOn, LegsOf, Order

(* A bundle's answer or failure: the device it was for is waited for no    *)
(* more, the others keep their requests.                                   *)
LEMMA BundleDoneCarries == ASSUME Carry, BundleDone PROVE SomebodyCarriesOn'
<1> DEFINE t == Head(workQueue)
           s == t.send
           l == t.leg
<1>1. /\ t.do \in {"bundle", "noBundle"} /\ s \in Sends /\ l \in Legs
      /\ ~crashed /\ workQueue # <<>>
  BY TakeWork DEF BundleDone, Carry, Working
<1>2. /\ waiting \in [Sends -> [Legs -> SUBSET Devices]]
      /\ prep \in [Sends -> [Legs -> Stages]]
      /\ workQueue' = Tail(workQueue)
      /\ waiting' = [waiting EXCEPT ![s][l] = @ \ {t.device}]
      /\ prep' = [prep EXCEPT ![s][l] =
           IF @ = "bundles" /\ waiting[s][l] \subseteq {t.device} THEN "done" ELSE @]
      /\ UNCHANGED <<waiter, tracked, outcome, crashed, forgotten>>
  BY DEF BundleDone, Carry, IndInv, TypeOK
<1> HIDE DEF t, s, l
<1>3. \A i \in Sends, j \in Legs :
        /\ waiting'[i][j] = IF i = s /\ j = l THEN waiting[i][j] \ {t.device} ELSE waiting[i][j]
        /\ prep'[i][j] = prep[i][j] \/ prep'[i][j] = "done"
  BY <1>1, <1>2
<1>4. ASSUME NEW o, NEW i, NEW j, NEW d, Scheduled(o, i, j, d),
             ~(o \in {"bundle", "noBundle"} /\ i = s /\ j = l /\ d = t.device)
      PROVE  Scheduled(o, i, j, d)'
  <2>1. t # Task(o, i, j, d)
    BY <1>1, <1>4 DEF Task, s, l
  <2> QED BY <1>1, <1>2, <1>4, <2>1, CarryOf, OthersScheduled DEF t
<1>5. ASSUME NEW i \in Sends, outcome[i] = "preparing", NEW j \in LegsOf(i)
      PROVE  CarriedOn(i, j)'
  <2>1. j \in Legs /\ CarriedOn(i, j)
    BY <1>1, <1>5, CarryOf
  <2>2. CASE prep'[i][j] = "done"
    BY <2>2 DEF CarriedOn
  <2>3. CASE prep'[i][j] = prep[i][j]
    <3>1. \A o \in {"start", "continue"} : Scheduled(o, i, j, None) => Scheduled(o, i, j, None)'
      BY <1>4
    <3>2. Open(i, j, None) => Open(i, j, None)'
      BY <1>2, <1>4 DEF Open
    <3>3. ASSUME NEW d \in waiting'[i][j], Open(i, j, d) PROVE Open(i, j, d)'
      <4>1. ~(i = s /\ j = l /\ d = t.device)
        BY <1>3, <2>1, <3>3
      <4> QED BY <1>2, <1>4, <3>3, <4>1 DEF Open
    <3>4. waiting'[i][j] \subseteq waiting[i][j]
      BY <1>3, <2>1
    <3> QED BY <1>2, <2>1, <2>3, <3>1, <3>2, <3>3, <3>4, CarryOver
  <2> QED BY <1>3, <2>1, <2>2, <2>3
<1>6. ASSUME NEW i \in Sends, outcome[i] = "finishing" PROVE Scheduled("finish", i, None, None)'
  BY <1>1, <1>4, <1>6, CarryOf
<1> QED BY <1>2, <1>5, <1>6 DEF SomebodyCarriesOn, LegsOf, Order

(* Steps that take no task: what is open stays open.                       *)
LEMMA QuietCarries ==
    ASSUME Carry, ~crashed,
           \A o, i, j, d : /\ Scheduled(o, i, j, d) => Scheduled(o, i, j, d)'
                           /\ Open(i, j, d) => Open(i, j, d)',
           UNCHANGED <<prep, waiting, waiter, forgotten>>,
           \A i \in Sends : outcome'[i] = "preparing" => outcome[i] = "preparing",
           \A i \in Sends : outcome'[i] = "finishing" =>
              outcome[i] = "finishing" \/ Scheduled("finish", i, None, None)'
    PROVE  SomebodyCarriesOn'
<1>1. ASSUME NEW i \in Sends, outcome'[i] = "preparing", NEW j \in LegsOf(i)
      PROVE  CarriedOn(i, j)'
  <2>1. CarriedOn(i, j)
    BY <1>1, CarryOf
  <2> QED BY <2>1, CarryOver
<1>2. \A i \in Sends : outcome'[i] = "finishing" => Scheduled("finish", i, None, None)'
  BY CarryOf
<1> QED BY <1>1, <1>2 DEF SomebodyCarriesOn, LegsOf, Order

LEMMA StartUnknownCarries == ASSUME Carry, StartUnknown PROVE SomebodyCarriesOn'
<1> DEFINE t == Head(workQueue)
           s == t.send
           l == t.leg
<1>1. /\ t.do = "start" /\ s \in Sends /\ l \in Legs /\ ~crashed /\ workQueue # <<>>
  BY TakeWork DEF StartUnknown, Carry, Working
<1>2. /\ prep \in [Sends -> [Legs -> Stages]] /\ "done" \in Stages
      /\ prep' = [prep EXCEPT ![s][l] = "done"] /\ workQueue' = Tail(workQueue)
      /\ UNCHANGED <<waiting, waiter, tracked, outcome, crashed, forgotten>>
  BY DEF StartUnknown, Carry, IndInv, TypeOK, Stages
<1> HIDE DEF t, s, l
<1>3. \A i \in Sends, j \in Legs : prep'[i][j] = IF i = s /\ j = l THEN "done" ELSE prep[i][j]
  BY <1>1, <1>2, Assign
<1>4. ASSUME NEW o, NEW i, NEW j, NEW d, Scheduled(o, i, j, d), ~(o = "start" /\ i = s /\ j = l)
      PROVE  Scheduled(o, i, j, d)'
  <2>1. t # Task(o, i, j, d)
    BY <1>1, <1>4 DEF Task, s, l
  <2> QED BY <1>1, <1>2, <1>4, <2>1, CarryOf, OthersScheduled DEF t
<1>5. \A i, j, d : Open(i, j, d) => Open(i, j, d)'
  BY <1>2, <1>4 DEF Open
<1>6. ASSUME NEW i \in Sends, outcome[i] = "preparing", NEW j \in LegsOf(i)
      PROVE  CarriedOn(i, j)'
  <2>1. j \in Legs /\ CarriedOn(i, j)
    BY <1>1, <1>6, CarryOf
  <2>2. CASE i = s /\ j = l
    BY <1>1, <1>3, <2>2 DEF CarriedOn
  <2>3. CASE ~(i = s /\ j = l)
    <3>1. \A o \in {"start", "continue"} : Scheduled(o, i, j, None) => Scheduled(o, i, j, None)'
      BY <1>4, <2>3
    <3>2. prep'[i][j] = prep[i][j]
      BY <1>3, <2>1, <2>3
    <3> QED BY <1>2, <1>5, <2>1, <3>1, <3>2, CarryOver
  <2> QED BY <2>2, <2>3
<1>7. ASSUME NEW i \in Sends, outcome[i] = "finishing" PROVE Scheduled("finish", i, None, None)'
  BY <1>1, <1>4, <1>7, CarryOf
<1> QED BY <1>2, <1>6, <1>7 DEF SomebodyCarriesOn, LegsOf, Order

LEMMA RefuseCarries ==
    ASSUME Carry, NEW s \in Sends, Refuse(s)
    PROVE  SomebodyCarriesOn'
<1>1. /\ ~crashed /\ outcome \in [Sends -> Outcomes]
      /\ outcome' = [outcome EXCEPT ![s] = "refused"]
      /\ UNCHANGED <<prep, waiting, waiter, workQueue, tracked, forgotten>>
  BY DEF Refuse, preparation, Carry, IndInv, TypeOK
<1>2. \A o, i, j, d : /\ Scheduled(o, i, j, d) => Scheduled(o, i, j, d)'
                      /\ Open(i, j, d) => Open(i, j, d)'
  BY <1>1 DEF Scheduled, Open
<1>3. \A i \in Sends : outcome'[i] = IF i = s THEN "refused" ELSE outcome[i]
  BY <1>1
<1> QED BY <1>1, <1>2, <1>3, QuietCarries

LEMMA AllPreparedCarries ==
    ASSUME Carry, NEW s \in Sends, AllPrepared(s)
    PROVE  SomebodyCarriesOn'
<1> DEFINE t == Task("finish", s, None, None)
<1>1. /\ ~crashed /\ outcome \in [Sends -> Outcomes] /\ workQueue \in Seq(Tasks)
      /\ outcome' = [outcome EXCEPT ![s] = "finishing"]
      /\ workQueue' = Append(workQueue, t)
      /\ UNCHANGED <<prep, waiting, waiter, tracked, forgotten>>
  BY DEF AllPrepared, preparation, Carry, IndInv, TypeOK
<1>2. TasksIn(workQueue') = TasksIn(workQueue) \cup {t}
  <2>1. t \in Tasks
    BY DEF Task, Tasks
  <2> QED BY <1>1, <2>1, Appended
<1>3. Scheduled("finish", s, None, None)'
  BY <1>2, InScheduled
<1>4. \A o, i, j, d : Scheduled(o, i, j, d) => Scheduled(o, i, j, d)'
  BY <1>2, AllScheduled
<1>5. \A i, j, d : Open(i, j, d) => Open(i, j, d)'
  BY <1>1, <1>4 DEF Open
<1>6. \A i \in Sends : outcome'[i] = IF i = s THEN "finishing" ELSE outcome[i]
  BY <1>1
<1> QED BY <1>1, <1>3, <1>4, <1>5, <1>6, QuietCarries

LEMMA ReportCarries ==
    ASSUME Carry, ~crashed, NEW r \in tracked, NEW t \in Tasks, Report(t),
           t = Task(t.do, r.send, r.leg, r.device),
           t.do \in IF r.device = None THEN {"listFailed"} ELSE {"bundle", "noBundle"},
           tracked \ {r} \subseteq tracked'
    PROVE  SomebodyCarriesOn'
<1>1. /\ workQueue \in Seq(Tasks) /\ workQueue' = Append(workQueue, t)
      /\ UNCHANGED <<prep, waiting, waiter, outcome, forgotten>>
  BY DEF Report, preparation, Carry, IndInv, TypeOK
<1>2. TasksIn(workQueue') = TasksIn(workQueue) \cup {t}
  BY <1>1, Appended
<1>3. \A o, i, j, d : Scheduled(o, i, j, d) => Scheduled(o, i, j, d)'
  BY <1>2, AllScheduled
<1>4. Scheduled(t.do, r.send, r.leg, r.device)'
  BY <1>2, InScheduled
<1>5. ASSUME NEW i, NEW j, NEW d, Open(i, j, d) PROVE Open(i, j, d)'
  <2>1. CASE Request(i, j, d) = r
    <3>1. r.send = i /\ r.leg = j /\ r.device = d
      BY <2>1 DEF Request
    <3> QED BY <1>4, <3>1 DEF Open
  <2>2. CASE Request(i, j, d) # r
    BY <1>3, <1>5, <2>2 DEF Open
  <2> QED BY <2>1, <2>2
<1> QED BY <1>1, <1>3, <1>5, QuietCarries

LEMMA AnswerCarries ==
    ASSUME Carry, NEW r \in tracked, Answer(r)
    PROVE  SomebodyCarriesOn'
<1>1. /\ r.send \in Sends /\ r.leg \in Legs /\ r.device \in Devices \cup {None}
  BY DEF Carry, IndInv, TypeOK, Requests
<1>2. ASSUME NEW L, ListAnswered(r, L) PROVE SomebodyCarriesOn'
  BY <1>1, <1>2, LegTyped, StoreCarries DEF ListAnswered, Module
<1>3. CASE BundleAnswered(r)
  <2> DEFINE t == Task("bundle", r.send, r.leg, r.device)
  <2>1. t \in Tasks /\ t.do = "bundle"
    BY <1>1 DEF Task, Tasks
  <2>2. /\ ~crashed /\ Report(t) /\ r.device # None /\ tracked' = tracked \ {r}
        /\ t = Task(t.do, r.send, r.leg, r.device)
    BY <1>3, <2>1 DEF BundleAnswered, Module
  <2> HIDE DEF t
  <2> QED BY <2>1, <2>2, ReportCarries
<1>4. CASE RequestFailed(r)
  <2> DEFINE t == Failure(r)
  <2>1. t \in Tasks /\ t.do = (IF r.device = None THEN "listFailed" ELSE "noBundle")
    BY <1>1 DEF Failure, Task, Tasks
  <2>2. /\ ~crashed /\ Report(t) /\ tracked \ {r} \subseteq tracked'
        /\ t = Task(t.do, r.send, r.leg, r.device)
    BY <1>4, <2>1 DEF RequestFailed, Module, Failure
  <2> HIDE DEF t
  <2> QED BY <2>1, <2>2, ReportCarries
<1> QED BY <1>2, <1>3, <1>4 DEF Answer

LEMMA FinishCarries == ASSUME Carry, Finish PROVE SomebodyCarriesOn'
<1> DEFINE t == Head(workQueue)
           s == t.send
<1>1. /\ t.do = "finish" /\ s \in Sends /\ ~crashed /\ workQueue # <<>>
  BY TakeWork DEF Finish, Carry, Working
<1>2. PICK o \in {"sent", "noDevices", "silent"} : outcome' = [outcome EXCEPT ![s] = o]
  BY DEF Finish
<1>3. /\ outcome \in [Sends -> Outcomes] /\ workQueue' = Tail(workQueue)
      /\ UNCHANGED <<prep, waiting, waiter, tracked, crashed, forgotten>>
  BY DEF Finish, preparation, Carry, IndInv, TypeOK
<1> HIDE DEF t, s
<1>4. \A i \in Sends : outcome'[i] = IF i = s THEN o ELSE outcome[i]
  BY <1>2, <1>3
<1>5. ASSUME NEW do, NEW i, NEW j, NEW d, Scheduled(do, i, j, d), ~(do = "finish" /\ i = s)
      PROVE  Scheduled(do, i, j, d)'
  <2>1. t # Task(do, i, j, d)
    BY <1>1, <1>5 DEF Task, s
  <2> QED BY <1>1, <1>3, <1>5, <2>1, CarryOf, OthersScheduled DEF t
<1>6. \A i, j, d : Open(i, j, d) => Open(i, j, d)'
  BY <1>3, <1>5 DEF Open
<1>7. ASSUME NEW i \in Sends, outcome'[i] = "preparing", NEW j \in LegsOf(i)
      PROVE  CarriedOn(i, j)'
  <2>1. outcome[i] = "preparing"
    BY <1>4, <1>7
  <2>2. CarriedOn(i, j)
    BY <1>1, <1>7, <2>1, CarryOf
  <2>3. \A do \in {"start", "continue"} : Scheduled(do, i, j, None) => Scheduled(do, i, j, None)'
    BY <1>5
  <2> QED BY <1>3, <1>6, <2>2, <2>3, CarryOver
<1>8. ASSUME NEW i \in Sends, outcome'[i] = "finishing" PROVE Scheduled("finish", i, None, None)'
  BY <1>1, <1>4, <1>5, <1>8, CarryOf
<1> QED BY <1>7, <1>8 DEF SomebodyCarriesOn, LegsOf, Order

(* A message begins with a task for each of its parents.                   *)
LEMMA BeginCarries ==
    ASSUME Carry, NEW s \in Sends, Begin(s)
    PROVE  SomebodyCarriesOn'
<1> DEFINE n == Len(Order(s))
           new == [i \in 1 .. n |-> Task("start", s, Order(s)[i], None)]
<1>1. /\ ~crashed /\ outcome \in [Sends -> Outcomes] /\ prep \in [Sends -> [Legs -> Stages]]
      /\ outcome' = [outcome EXCEPT ![s] = "preparing"]
      /\ prep' = [prep EXCEPT ![s] =
           [l \in Legs |-> IF l \in LegsOf(s) THEN "queued" ELSE "idle"]]
      /\ workQueue \in Seq(Tasks) /\ workQueue' = workQueue \o new
      /\ UNCHANGED <<waiting, waiter, tracked, forgotten>>
  BY DEF Begin, Carry, IndInv, TypeOK
<1>2. /\ n \in Nat /\ \A i \in 1 .. n : Order(s)[i] \in Legs
      /\ \A l \in LegsOf(s) : \E i \in 1 .. n : Order(s)[i] = l
  BY OrderOfSend, ElementOfSeq, LenProperties DEF LegsOf
<1>3. new \in Seq(Tasks) /\ Len(new) = n /\ \A i \in 1 .. n : new[i] = Task("start", s, Order(s)[i], None)
  <2>1. \A i \in 1 .. n : Task("start", s, Order(s)[i], None) \in Tasks
    BY <1>2 DEF Task, Tasks
  <2>2. new \in [1 .. n -> Tasks]
    BY <2>1
  <2> QED BY <1>2, <2>2, SeqDef
<1> HIDE DEF n, new
<1>4. /\ Len(workQueue) \in Nat /\ Len(workQueue') = Len(workQueue) + n
      /\ \A i \in 1 .. Len(workQueue) + n :
           workQueue'[i] = IF i <= Len(workQueue) THEN workQueue[i] ELSE new[i - Len(workQueue)]
  BY <1>1, <1>3, ConcatProperties, LenProperties
<1>5. ASSUME NEW l \in LegsOf(s) PROVE Scheduled("start", s, l, None)'
  <2>1. PICK i \in 1 .. n : Order(s)[i] = l
    BY <1>2
  <2>2. /\ i + Len(workQueue) \in 1 .. Len(workQueue')
        /\ ~(i + Len(workQueue) <= Len(workQueue)) /\ (i + Len(workQueue)) - Len(workQueue) = i
    BY <1>2, <1>4, <2>1
  <2>3. workQueue'[i + Len(workQueue)] = Task("start", s, l, None)
    BY <1>3, <1>4, <2>1, <2>2
  <2> QED BY <2>2, <2>3 DEF Scheduled
<1>6. ASSUME NEW o, NEW i, NEW j, NEW d, Scheduled(o, i, j, d) PROVE Scheduled(o, i, j, d)'
  <2>1. PICK k \in 1 .. Len(workQueue) : workQueue[k] = Task(o, i, j, d)
    BY <1>6 DEF Scheduled
  <2>2. k \in 1 .. Len(workQueue') /\ workQueue'[k] = Task(o, i, j, d)
    BY <1>2, <1>4, <2>1
  <2> QED BY <2>2 DEF Scheduled
<1>7. \A i, j, d : Open(i, j, d) => Open(i, j, d)'
  BY <1>1, <1>6 DEF Open
<1>8. ASSUME NEW i \in Sends, outcome'[i] = "preparing", NEW j \in LegsOf(i)
      PROVE  CarriedOn(i, j)'
  <2>1. j \in Legs
    BY <1>1, CarryOf
  <2>2. CASE i = s
    <3>1. prep'[i][j] = "queued"
      BY <1>1, <1>8, <2>1, <2>2
    <3> QED BY <1>5, <1>8, <2>2, <3>1 DEF CarriedOn
  <2>3. CASE i # s
    <3>1. outcome[i] = "preparing" /\ prep'[i] = prep[i]
      BY <1>1, <1>8, <2>3
    <3>2. CarriedOn(i, j)
      BY <1>1, <1>8, <3>1, CarryOf
    <3> QED BY <1>1, <1>6, <1>7, <3>1, <3>2, CarryOver
  <2> QED BY <2>2, <2>3
<1>9. ASSUME NEW i \in Sends, outcome'[i] = "finishing" PROVE Scheduled("finish", i, None, None)'
  <2>1. outcome[i] = "finishing"
    BY <1>1, <1>9
  <2> QED BY <1>1, <1>6, <1>9, <2>1, CarryOf
<1> QED BY <1>8, <1>9 DEF SomebodyCarriesOn, LegsOf, Order

LEMMA CarryStep == Carry /\ [Next]_vars => SomebodyCarriesOn'
<1> SUFFICES ASSUME Carry, [Next]_vars PROVE SomebodyCarriesOn'
  OBVIOUS
<1>1. CASE \E s \in Sends : Refuse(s) \/ Begin(s) \/ AllPrepared(s)
  BY <1>1, RefuseCarries, BeginCarries, AllPreparedCarries
<1>2. CASE WorkStep
  BY <1>2, StartUnknownCarries, StartWithRowsCarries, StartWithoutRowsCarries, ContinueCarries, ListFailedCarries,
     BundleDoneCarries, FinishCarries DEF WorkStep
<1>3. CASE \E q \in Queues : RemoveWaiter(q)
  BY <1>3, RemoveWaiterCarries
<1>4. ASSUME NEW p \in Parents, NEW L, PushList(p, L) PROVE SomebodyCarriesOn'
  BY <1>4, StoreCarries DEF PushList, Module
<1>5. CASE \E r \in tracked : Answer(r)
  BY <1>5, AnswerCarries
<1>6. CASE UNCHANGED vars
  BY <1>6 DEF vars, preparation, Carry, SomebodyCarriesOn, CarriedOn, Open, Scheduled,
     LegsOf, Order
<1> QED BY <1>1, <1>2, <1>3, <1>4, <1>5, <1>6 DEF Next

(* No message is ever left with nobody to take it on, except where a       *)
(* closure of it was dropped uncalled or a group was left twice: with the  *)
(* fairness of the queues and the requests this is why its completion is   *)
(* called.                                                                 *)
THEOREM CarriedCorrect == Spec => []SomebodyCarriesOn
<1>1. Init => SomebodyCarriesOn
  BY DEF Init, SomebodyCarriesOn
<1>2. Carry /\ [Next]_vars => Carry'
  BY StepHolds, CarryStep DEF Carry
<1>3. Spec => []Carry
  BY <1>1, <1>2, InitHolds, PTL DEF Spec, Carry
<1> QED BY <1>3, PTL DEF Carry

-----------------------------------------------------------------------------
(* Groups left twice.                                                      *)

(* A closure that was called is still there only while one of the queues   *)
(* that called it is about to remove it.                                   *)
CalledIsRemoved == \A p \in Parents :
    waiter[p] # None /\ prep[waiter[p][1]][waiter[p][2]] # "list" =>
      \E q \in Queues : removing[q] = p
(* A closure is kept under the JID of the parent its preparation is about. *)
KeptByParent == \A p \in Parents : waiter[p] # None => ParentOf(waiter[p][2]) = p
CrashInv == IndInv /\ CrashHasCause /\ KeptByParent /\ (crashed \/ CalledIsRemoved)

(* The stage of the preparation that waits for a parent's list.            *)
StageOf(p) == prep[waiter[p][1]][waiter[p][2]]

LEMMA CallCrashes ==
    ASSUME CrashInv, ~crashed, NEW q \in Queues, NEW p \in Parents, NEW tasks,
           removing[q] = None, CallWaiter(q, p, tasks), waiter' = waiter
    PROVE  CrashHasCause' /\ (crashed' \/ CalledIsRemoved')
<1>1. /\ prep \in [Sends -> [Legs -> Stages]] /\ "listed" \in Stages
      /\ removing \in [Queues -> Parents \cup {None}] /\ crashed \in BOOLEAN
      /\ CalledIsRemoved /\ None \notin Parents
  BY SendAssumption DEF SendAssumption, CrashInv, IndInv, TypeOK, Stages
<1>2. CASE waiter[p] = None
  BY <1>1, <1>2 DEF CallWaiter, CrashHasCause, CalledIsRemoved
<1>3. CASE waiter[p] # None
  <2> DEFINE s == waiter[p][1]
             l == waiter[p][2]
  <2>1. s \in Sends /\ l \in Legs /\ removing' = [removing EXCEPT ![q] = p]
    BY <1>3, WaiterTyped DEF CallWaiter, CrashInv, IndInv
  <2>2. CASE prep[s][l] # "list"
    <3>1. PICK k \in Queues : removing[k] = p
      BY <1>1, <1>3, <2>2 DEF CalledIsRemoved
    <3>2. k # q
      BY <1>1, <3>1
    <3>3. \A i \in Queues : i = q \/ i = k
      BY <3>2 DEF Queues
    <3>4. \A i \in Queues : removing'[i] = p
      BY <1>1, <2>1, <3>1, <3>3
    <3>5. crashed'
      BY <1>3, <2>2 DEF CallWaiter
    <3> QED BY <3>4, <3>5 DEF CrashHasCause
  <2>3. CASE prep[s][l] = "list"
    <3>1. ~crashed' /\ prep' = [prep EXCEPT ![s][l] = "listed"]
      BY <1>3, <2>3 DEF CallWaiter
    <3>2. removing'[q] = p /\ \A i \in Queues : i # q => removing'[i] = removing[i]
      BY <1>1, <2>1
    <3>3. \A i \in Sends, j \in Legs : prep'[i][j] = "list" \/ prep'[i][j] = prep[i][j] \/ (i = s /\ j = l)
      BY <1>1, <2>1, <3>1
    <3>4. \A j \in Parents : waiter[j] # None => waiter[j][1] \in Sends /\ waiter[j][2] \in Legs
                              /\ waiter[j] = <<waiter[j][1], waiter[j][2]>>
      BY WaiterTyped DEF CrashInv, IndInv
    <3>5. ASSUME NEW j \in Parents, waiter[j] # None, StageOf(j)' # "list"
          PROVE  \E k \in Queues : removing'[k] = j
      <4>1. CASE j = p
        BY <3>2, <4>1
      <4>2. CASE j # p /\ StageOf(j) # "list"
        <5>1. PICK k \in Queues : removing[k] = j
          BY <1>1, <3>5, <4>2 DEF CalledIsRemoved, StageOf
        <5>2. k # q
          BY <1>1, <5>1
        <5> QED BY <3>2, <5>1, <5>2
      <4>3. CASE j # p /\ StageOf(j) = "list"
        <5>1. waiter[j][2] = l
          BY <3>3, <3>4, <3>5, <4>3 DEF StageOf
        <5> QED BY <1>3, <3>5, <4>3, <5>1 DEF CrashInv, KeptByParent
      <4> QED BY <4>1, <4>2, <4>3
    <3>6. CalledIsRemoved'
      BY <3>5 DEF CalledIsRemoved, StageOf
    <3> QED BY <3>1, <3>6 DEF CrashHasCause
  <2> QED BY <2>2, <2>3
<1> QED BY <1>2, <1>3

LEMMA KeptStep == IndInv /\ KeptByParent /\ [Next]_vars => KeptByParent'
<1> SUFFICES ASSUME IndInv, KeptByParent, [Next]_vars PROVE KeptByParent'
  OBVIOUS
<1>t. waiter \in [Parents -> (Sends \X Legs) \cup {None}] /\ removing \in [Queues -> Parents \cup {None}]
  BY DEF IndInv, TypeOK
<1>1. CASE waiter' = waiter
  BY <1>1 DEF KeptByParent
<1>2. CASE StartWithoutRows
  <2> DEFINE s == Head(workQueue).send
             l == Head(workQueue).leg
  <2>1. l \in Legs /\ waiter' = [waiter EXCEPT ![ParentOf(l)] = <<s, l>>]
    BY <1>2, TakeWork DEF StartWithoutRows
  <2> HIDE DEF s, l
  <2>2. ParentOf(l) \in Parents /\ waiter'[ParentOf(l)][2] = l
    BY <1>t, <2>1, LegTyped
  <2>3. \A p \in Parents : p # ParentOf(l) => waiter'[p] = waiter[p]
    BY <1>t, <2>1
  <2> QED BY <2>2, <2>3 DEF KeptByParent
<1>3. CASE \E q \in Queues : RemoveWaiter(q)
  <2>1. PICK q \in Queues : waiter' = [waiter EXCEPT ![removing[q]] = None] /\ removing[q] \in Parents
    BY <1>3, <1>t DEF RemoveWaiter
  <2>2. \A p \in Parents : waiter'[p] = None \/ waiter'[p] = waiter[p]
    BY <1>t, <2>1
  <2> QED BY <2>2 DEF KeptByParent
<1>4. Next => waiter' = waiter \/ StartWithoutRows \/ \E q \in Queues : RemoveWaiter(q)
  BY DEF Next, Refuse, Begin, AllPrepared, WorkStep, StartUnknown, StartWithRows, Continue,
     ListFailed, BundleDone, Finish, PushList, Answer, ListAnswered, StoreDeviceIds,
     BundleAnswered, RequestFailed, Report
<1> QED BY <1>1, <1>2, <1>3, <1>4 DEF vars

LEMMA CrashStep == CrashInv /\ [Next]_vars => CrashInv'
<1> SUFFICES ASSUME CrashInv, [Next]_vars PROVE CrashHasCause' /\ (crashed' \/ CalledIsRemoved')
  BY StepHolds, KeptStep DEF CrashInv
<1> DEFINE Goal == CrashHasCause' /\ (crashed' \/ CalledIsRemoved')
<1>1. CASE UNCHANGED vars
  BY <1>1 DEF vars, preparation, CrashInv, CrashHasCause, CalledIsRemoved
<1>2. ASSUME Next PROVE ~crashed
  BY <1>2 DEF Next, Refuse, Begin, AllPrepared, WorkStep, StartUnknown, StartWithRows,
     StartWithoutRows, Continue, ListFailed, BundleDone, Finish, Working, RemoveWaiter, PushList,
     Answer, ListAnswered, BundleAnswered, RequestFailed, Module
<1> USE DEF CrashInv
<1>t. /\ prep \in [Sends -> [Legs -> Stages]] /\ waiter \in [Parents -> (Sends \X Legs) \cup {None}]
      /\ removing \in [Queues -> Parents \cup {None}] /\ None \notin Parents
      /\ \A p \in Parents : waiter[p] # None => waiter[p][1] \in Sends /\ waiter[p][2] \in Legs
  BY SendAssumption, WaiterTyped DEF SendAssumption, IndInv, TypeOK
<1>c. ASSUME ~crashed, ~crashed',
             \A p \in Parents : waiter'[p] # None /\ StageOf(p)' # "list" =>
                /\ waiter[p] # None /\ StageOf(p) # "list"
                /\ \A q \in Queues : removing[q] = p => removing'[q] = p
      PROVE  Goal
  BY <1>c DEF CrashHasCause, CalledIsRemoved, StageOf
<1>3. ASSUME NEW s \in Sends, NEW l \in Legs, NEW v, ~crashed, prep[s][l] # "list",
             prep' = [prep EXCEPT ![s][l] = v], UNCHANGED <<waiter, removing, crashed>>
      PROVE  Goal
  <2>1. \A i \in Sends, j \in Legs : prep'[i][j] = prep[i][j] \/ prep[i][j] # "list"
    BY <1>3, <1>t
  <2>2. \A p \in Parents : waiter[p] # None /\ StageOf(p)' # "list" => StageOf(p) # "list"
    BY <1>3, <1>t, <2>1 DEF StageOf
  <2> QED BY <1>3, <1>c, <2>2
<1>4. ASSUME NEW s \in Sends, Begin(s) PROVE Goal
  <2>1. \A l \in Legs : prep[s][l] # "list"
    BY <1>4 DEF Begin, IndInv, StagesFit, Untouched
  <2>2. /\ ~crashed /\ UNCHANGED <<waiter, removing, crashed>>
        /\ prep' = [prep EXCEPT ![s] = [l \in Legs |-> IF l \in LegsOf(s) THEN "queued" ELSE "idle"]]
    BY <1>4 DEF Begin
  <2>3. \A i \in Sends, j \in Legs : prep'[i][j] = prep[i][j] \/ prep[i][j] # "list"
    BY <1>t, <2>1, <2>2
  <2>4. \A p \in Parents : waiter[p] # None /\ StageOf(p)' # "list" => StageOf(p) # "list"
    BY <1>t, <2>2, <2>3 DEF StageOf
  <2> QED BY <1>c, <2>2, <2>4
<1>5. ASSUME StartUnknown \/ StartWithRows \/ Continue PROVE Goal
  <2> DEFINE t == Head(workQueue)
  <2>1. t.send \in Sends /\ t.leg \in Legs /\ prep[t.send][t.leg] # "list"
    BY <1>5, TakeWork DEF StartUnknown, StartWithRows, Continue, TaskFits
  <2>2. \E v : prep' = [prep EXCEPT ![t.send][t.leg] = v]
    BY <1>5 DEF StartUnknown, StartWithRows, Continue, FetchBundles
  <2>3. ~crashed /\ UNCHANGED <<waiter, removing, crashed>>
    BY <1>5 DEF StartUnknown, StartWithRows, Continue, Working
  <2> HIDE DEF t
  <2> QED BY <1>3, <2>1, <2>2, <2>3
<1>6. ASSUME StartWithoutRows PROVE Goal
  <2>1. PICK s \in Sends, l \in Legs : s = Head(workQueue).send /\ l = Head(workQueue).leg
    BY <1>6, TakeWork DEF StartWithoutRows
  <2>2. /\ prep' = [prep EXCEPT ![s][l] = "list"] /\ ParentOf(l) \in Parents
        /\ waiter' = [waiter EXCEPT ![ParentOf(l)] = <<s, l>>]
        /\ ~crashed /\ UNCHANGED <<removing, crashed>>
    BY <1>6, <2>1, LegTyped DEF StartWithoutRows, Working
  <2>3. StageOf(ParentOf(l))' = "list"
    <3>1. waiter'[ParentOf(l)] = <<s, l>>
      BY <1>t, <2>1, <2>2
    <3>2. prep'[s][l] = "list"
      BY <1>t, <2>1, <2>2
    <3> QED BY <3>1, <3>2 DEF StageOf
  <2>4. \A i \in Sends, j \in Legs : prep'[i][j] = prep[i][j] \/ prep'[i][j] = "list"
    BY <1>t, <2>1, <2>2
  <2>5. ASSUME NEW p \in Parents, p # ParentOf(l), waiter'[p] # None, StageOf(p)' # "list"
        PROVE  waiter[p] # None /\ StageOf(p) # "list"
    <3>1. waiter'[p] = waiter[p]
      BY <1>t, <2>1, <2>2, <2>5
    <3> QED BY <1>t, <2>4, <2>5, <3>1 DEF StageOf
  <2>6. /\ ~crashed /\ ~crashed'
        /\ \A q \in Queues : \A p : removing[q] = p => removing'[q] = p
    BY <2>2
  <2>7. \A p \in Parents : waiter'[p] # None /\ StageOf(p)' # "list" => waiter[p] # None /\ StageOf(p) # "list"
    BY <2>3, <2>5
  <2> QED BY <1>c, <2>6, <2>7
<1>7. ASSUME ListFailed PROVE Goal
  <2>1. /\ ParentOf(Head(workQueue).leg) \in Parents /\ ~crashed /\ removing["work"] = None
        /\ CallWaiter("work", ParentOf(Head(workQueue).leg), Tail(workQueue)) /\ waiter' = waiter
    BY <1>7, TakeWork, LegTyped DEF ListFailed, Working
  <2> QED BY <2>1, CallCrashes DEF Queues
<1>8. ASSUME BundleDone PROVE Goal
  <2> DEFINE t == Head(workQueue)
  <2>1. /\ t.send \in Sends /\ t.leg \in Legs /\ prep[t.send][t.leg] # "list"
    BY <1>8, TakeWork DEF BundleDone, TaskFits, Fetched
  <2>2. \E v : prep' = [prep EXCEPT ![t.send][t.leg] = v]
    BY <1>8 DEF BundleDone
  <2>3. ~crashed /\ UNCHANGED <<waiter, removing, crashed>>
    BY <1>8 DEF BundleDone, Working
  <2> HIDE DEF t
  <2> QED BY <1>3, <2>1, <2>2, <2>3
<1>9. ASSUME NEW p \in Parents, NEW L, StoreDeviceIds(p, L), Module PROVE Goal
  <2>1. ~crashed /\ removing["module"] = None /\ waiter' = waiter /\ CallWaiter("module", p, workQueue)
    BY <1>9 DEF StoreDeviceIds, Module
  <2> QED BY <2>1, CallCrashes DEF Queues
<1>10. ASSUME NEW q \in Queues, RemoveWaiter(q) PROVE Goal
  <2>1. /\ waiter' = [waiter EXCEPT ![removing[q]] = None] /\ prep' = prep
        /\ removing' = [removing EXCEPT ![q] = None] /\ ~crashed /\ crashed' = crashed
        /\ removing[q] \in Parents
    BY <1>10, <1>t DEF RemoveWaiter, preparation
  <2>2. waiter'[removing[q]] = None
    BY <1>t, <2>1
  <2>3. \A p \in Parents : p # removing[q] =>
          /\ waiter'[p] = waiter[p]
          /\ \A k \in Queues : removing[k] = p => removing'[k] = p
    BY <1>t, <2>1
  <2> QED BY <1>c, <2>1, <2>2, <2>3 DEF StageOf
<1>11. ASSUME UNCHANGED <<prep, waiter, removing, crashed>>, ~crashed PROVE Goal
  BY <1>11, <1>c DEF StageOf
<1>12. ASSUME NEW r \in tracked, Answer(r) PROVE Goal
  <2>1. ParentOf(r.leg) \in Parents
    BY LegTyped DEF IndInv, TypeOK, Requests
  <2>2. CASE \E L \in Lists(ParentOf(r.leg)) : ListAnswered(r, L)
    BY <1>9, <2>1, <2>2 DEF ListAnswered
  <2>3. CASE BundleAnswered(r) \/ RequestFailed(r)
    BY <1>11, <2>3 DEF BundleAnswered, RequestFailed, Report, Module, preparation
  <2> QED BY <1>12, <2>2, <2>3 DEF Answer
<1>13. ASSUME NEW p \in Parents, NEW L, PushList(p, L) PROVE Goal
  BY <1>9, <1>13 DEF PushList
<1>14. ASSUME (\E s \in Sends : Refuse(s) \/ AllPrepared(s)) \/ Finish PROVE Goal
  BY <1>11, <1>14 DEF Refuse, AllPrepared, Finish, Working, preparation
<1> QED BY <1>1, <1>4, <1>5, <1>6, <1>7, <1>8, <1>10, <1>12, <1>13, <1>14 DEF Next, WorkStep

(* A dispatch group is left twice in one way only, for any number of       *)
(* messages, buddies, devices and pushed lists: both queues are between    *)
(* the call and the removal of the same closure.                           *)
THEOREM CrashExplained == Spec => []CrashHasCause
<1>1. Init => CrashInv
  BY InitHolds DEF Init, CrashInv, CrashHasCause, CalledIsRemoved, KeptByParent
<1>2. Spec => []CrashInv
  BY <1>1, CrashStep, PTL DEF Spec
<1> QED BY <1>2, PTL DEF CrashInv

-----------------------------------------------------------------------------
(* Refinement of Encryption.                                               *)

Asked == {s \in Sends : outcome[s] # "new"}
Ready == {c \in Sends \X Legs : prep[c[1]][c[2]] = "done"}
Result == [s \in Sends |-> IF outcome[s] \in Ends THEN outcome[s] ELSE "none"]

LEMMA PromiseStutters ==
    ASSUME UNCHANGED <<Asked, Ready, Result>>
    PROVE  [Promise!Next]_(Promise!vars)
BY DEF Promise!vars, Asked, Ready, Result

LEMMA QuietRefines ==
    ASSUME UNCHANGED <<prep, outcome>>
    PROVE  [Promise!Next]_(Promise!vars)
BY PromiseStutters DEF Asked, Ready, Result

(* A step that moves on one preparation completes it or changes nothing    *)
(* that Encryption knows of.                                               *)
LEMMA MoveRefines ==
    ASSUME IndInv, NEW s \in Sends, NEW l \in Legs, NEW stage \in Stages,
           prep' = [prep EXCEPT ![s][l] = stage], outcome' = outcome,
           prep[s][l] # "idle", prep[s][l] = "done" => stage = "done"
    PROVE  [Promise!Next]_(Promise!vars)
<1>1. /\ prep \in [Sends -> [Legs -> Stages]]
      /\ \A i \in Sends, j \in Legs : prep'[i][j] = IF i = s /\ j = l THEN stage ELSE prep[i][j]
  BY Assign DEF IndInv, TypeOK
<1>2. Asked' = Asked /\ Result' = Result
  BY DEF Asked, Result
<1>3. \A c \in Sends \X Legs : c \in Ready' <=> IF c = <<s, l>> THEN stage = "done" ELSE c \in Ready
  <2> TAKE c \in Sends \X Legs
  <2>1. /\ c[1] \in Sends /\ c[2] \in Legs /\ c = <<c[1], c[2]>>
        /\ c = <<s, l>> <=> c[1] = s /\ c[2] = l
    OBVIOUS
  <2> QED BY <1>1, <2>1 DEF Ready
<1>4. Ready' \subseteq Sends \X Legs /\ Ready \subseteq Sends \X Legs
  BY DEF Ready
<1>5. CASE stage # "done" \/ prep[s][l] = "done"
  <2>1. <<s, l>> \in Ready <=> stage = "done"
    BY <1>5 DEF Ready
  <2>2. Ready' = Ready
    BY <1>3, <1>4, <2>1
  <2> QED BY <1>2, <2>2, PromiseStutters
<1>6. CASE stage = "done" /\ prep[s][l] # "done"
  <2>1. <<s, l>> \notin Ready /\ Ready' = Ready \cup {<<s, l>>}
    BY <1>3, <1>4, <1>6 DEF Ready
  <2>2. s \in Asked /\ l \in LegsOf(s) /\ Result[s] = "none"
    BY <1>6 DEF IndInv, StagesFit, Asked, Result, Over, Untouched, Ends
  <2>3. Promise!Prepare(s, l)
    BY <1>2, <2>1, <2>2 DEF Promise!Prepare, Asked, Ready, Result
  <2> QED BY <2>2, <2>3 DEF Promise!Next
<1> QED BY <1>5, <1>6

LEMMA FetchRefines ==
    ASSUME IndInv, NEW do \in {"start", "continue"}, Working(do), NEW devices,
           FetchBundles(Head(workQueue).send, Head(workQueue).leg, devices), outcome' = outcome
    PROVE  [Promise!Next]_(Promise!vars)
<1> DEFINE t == Head(workQueue)
<1>1. t.send \in Sends /\ t.leg \in Legs /\ prep[t.send][t.leg] \in {"queued", "listed"}
  BY TakeWork DEF TaskFits
<1>2. \E v \in {"done", "bundles"} : prep' = [prep EXCEPT ![t.send][t.leg] = v]
  BY DEF FetchBundles
<1> HIDE DEF t
<1> QED BY <1>1, <1>2, MoveRefines DEF Stages

(* The closure of a list is called, on whichever queue.                    *)
LEMMA CallRefines ==
    ASSUME IndInv, NEW q \in Queues, NEW p \in Parents, NEW tasks, CallWaiter(q, p, tasks),
           outcome' = outcome
    PROVE  [Promise!Next]_(Promise!vars)
<1> DEFINE s == waiter[p][1]
           l == waiter[p][2]
<1>1. CASE waiter[p] = None
  BY <1>1, QuietRefines DEF CallWaiter
<1>2. CASE waiter[p] # None
  <2>1. /\ s \in Sends /\ l \in Legs
        /\ prep' = [prep EXCEPT ![s][l] = IF prep[s][l] # "list" THEN prep[s][l] ELSE "listed"]
    BY <1>2, WaiterTyped DEF CallWaiter, IndInv
  <2>2. prep \in [Sends -> [Legs -> Stages]]
    BY DEF IndInv, TypeOK
  <2> HIDE DEF s, l
  <2>3. CASE prep[s][l] # "list"
    <3>1. prep' = prep
      BY <2>1, <2>2, <2>3
    <3> QED BY <3>1, QuietRefines
  <2>4. CASE prep[s][l] = "list"
    BY <2>1, <2>4, MoveRefines DEF Stages
  <2> QED BY <2>3, <2>4
<1> QED BY <1>1, <1>2

LEMMA BundleRefines == ASSUME IndInv, BundleDone PROVE [Promise!Next]_(Promise!vars)
<1> DEFINE s == Head(workQueue).send
           l == Head(workQueue).leg
<1>1. s \in Sends /\ l \in Legs /\ prep[s][l] \in Fetched
  BY TakeWork DEF BundleDone, TaskFits
<1>2. /\ \/ prep' = [prep EXCEPT ![s][l] = "done"]
         \/ prep' = [prep EXCEPT ![s][l] = prep[s][l]]
      /\ outcome' = outcome
  BY DEF BundleDone
<1> HIDE DEF s, l
<1>3. prep[s][l] \in Stages /\ prep[s][l] # "idle"
  BY <1>1 DEF Fetched, Stages
<1> QED BY <1>1, <1>2, <1>3, MoveRefines DEF Stages

(* A message is handed over.                                               *)
LEMMA BeginRefines ==
    ASSUME IndInv, NEW s \in Sends, Begin(s)
    PROVE  [Promise!Next]_(Promise!vars)
<1>1. /\ outcome[s] = "new" /\ outcome' = [outcome EXCEPT ![s] = "preparing"]
      /\ prep' = [prep EXCEPT ![s] =
           [l \in Legs |-> IF l \in LegsOf(s) THEN "queued" ELSE "idle"]]
      /\ outcome \in [Sends -> Outcomes] /\ prep \in [Sends -> [Legs -> Stages]]
  BY DEF Begin, IndInv, TypeOK
<1>2. \A l \in Legs : prep[s][l] # "done" /\ prep'[s][l] # "done"
  BY <1>1 DEF IndInv, StagesFit, Untouched
<1>3. Ready' = Ready
  <2>1. \A i \in Sends, j \in Legs : prep'[i][j] = "done" <=> prep[i][j] = "done"
    BY <1>1, <1>2
  <2> QED BY <2>1 DEF Ready
<1>4. s \notin Asked /\ Asked' = Asked \cup {s}
  BY <1>1 DEF Asked
<1>5. Result' = Result
  <2>1. \A i \in Sends : i # s => outcome'[i] = outcome[i]
    BY <1>1
  <2>2. outcome[s] \notin Ends /\ outcome'[s] \notin Ends
    BY <1>1 DEF Ends, Encrypted
  <2> QED BY <2>1, <2>2 DEF Result
<1>6. Promise!Ask(s)
  BY <1>3, <1>4, <1>5 DEF Promise!Ask, Asked, Ready, Result
<1> QED BY <1>6 DEF Promise!Next

(* A message is refused when it is handed over.                            *)
LEMMA RefuseRefines ==
    ASSUME IndInv, NEW s \in Sends, Refuse(s)
    PROVE  [Promise!Next]_(Promise!vars)
<1>1. /\ outcome[s] = "new" /\ outcome' = [outcome EXCEPT ![s] = "refused"]
      /\ outcome \in [Sends -> Outcomes] /\ prep' = prep
  BY DEF Refuse, preparation, IndInv, TypeOK
<1>2. \A i \in Sends : outcome'[i] = IF i = s THEN "refused" ELSE outcome[i]
  BY <1>1
<1>3. s \notin Asked /\ Asked' = Asked \cup {s} /\ Ready' = Ready
  BY <1>1, <1>2 DEF Asked, Ready
<1>4. Result' = [Result EXCEPT ![s] = "refused"]
  BY <1>1, <1>2 DEF Result, Ends
<1>5. Promise!Refuse(s)
  BY <1>3, <1>4 DEF Promise!Refuse, Asked, Ready, Result
<1> QED BY <1>5 DEF Promise!Next

(* The group of a message is left: its end is near, and not yet told.      *)
LEMMA AllPreparedRefines ==
    ASSUME IndInv, NEW s \in Sends, AllPrepared(s)
    PROVE  [Promise!Next]_(Promise!vars)
<1>1. /\ outcome[s] = "preparing" /\ outcome' = [outcome EXCEPT ![s] = "finishing"]
      /\ outcome \in [Sends -> Outcomes] /\ prep' = prep
  BY DEF AllPrepared, preparation, IndInv, TypeOK
<1>2. \A i \in Sends : /\ outcome'[i] = "new" <=> outcome[i] = "new"
                       /\ outcome'[i] \in Ends <=> outcome[i] \in Ends
                       /\ outcome[i] \in Ends => outcome'[i] = outcome[i]
  BY <1>1 DEF Ends, Encrypted
<1>3. UNCHANGED <<Asked, Ready, Result>>
  BY <1>1, <1>2 DEF Asked, Ready, Result
<1> QED BY <1>3, PromiseStutters

(* The message is encrypted, or not, and that is told.                     *)
LEMMA FinishRefines == ASSUME IndInv, Finish PROVE [Promise!Next]_(Promise!vars)
<1>s. PICK s \in Sends : s = Head(workQueue).send
  BY TakeWork DEF Finish
<1>1. outcome[s] = "finishing" /\ outcome \in [Sends -> Outcomes] /\ prep' = prep
  BY <1>s, TakeWork DEF Finish, TaskFits, preparation, IndInv, TypeOK
<1>2. PICK o \in Encrypted : outcome' = [outcome EXCEPT ![s] = o]
  BY <1>s DEF Finish, Encrypted
<1>3. /\ outcome[s] \notin Ends /\ outcome[s] # "new" /\ o # "new"
      /\ outcome'[s] = o /\ \A i \in Sends : i # s => outcome'[i] = outcome[i]
  BY <1>1, <1>2 DEF Ends, Encrypted
<1>4. s \in Asked /\ Asked' = Asked /\ Ready' = Ready
  BY <1>1, <1>3 DEF Asked, Ready
<1>5. Result[s] = "none" /\ Result' = [Result EXCEPT ![s] = o]
  BY <1>1, <1>2, <1>3 DEF Result, Ends
<1>6. \A l \in LegsOf(s) : <<s, l>> \in Ready
  <2> TAKE l \in LegsOf(s)
  <2>1. l \in Legs
    BY <1>1, OrderOfSend, ElementOfSeq DEF LegsOf
  <2>2. prep[s][l] = "done"
    BY <1>1, <1>3, <2>1 DEF IndInv, StagesFit, Over, Untouched
  <2> QED BY <1>1, <2>1, <2>2 DEF Ready
<1>7. Promise!Answer(s)
  BY <1>1, <1>2, <1>4, <1>5, <1>6 DEF Promise!Answer, Asked, Ready, Result
<1> QED BY <1>7 DEF Promise!Next

LEMMA PromiseStep == IndInv /\ [Next]_vars => [Promise!Next]_(Promise!vars)
<1> SUFFICES ASSUME IndInv, [Next]_vars PROVE [Promise!Next]_(Promise!vars)
  OBVIOUS
<1>1. CASE \E s \in Sends : Refuse(s) \/ Begin(s) \/ AllPrepared(s)
  BY <1>1, RefuseRefines, BeginRefines, AllPreparedRefines
<1>2. CASE StartWithRows \/ Continue
  BY <1>2, FetchRefines DEF StartWithRows, Continue
<1>3. CASE StartUnknown \/ StartWithoutRows
  <2> DEFINE t == Head(workQueue)
  <2>1. t.send \in Sends /\ t.leg \in Legs /\ prep[t.send][t.leg] = "queued"
    BY <1>3, TakeWork DEF StartUnknown, StartWithoutRows, TaskFits
  <2>2. /\ \E v \in {"list", "done"} : prep' = [prep EXCEPT ![t.send][t.leg] = v]
        /\ outcome' = outcome
    BY <1>3 DEF StartUnknown, StartWithoutRows
  <2> HIDE DEF t
  <2> QED BY <2>1, <2>2, MoveRefines DEF Stages
<1>4. CASE ListFailed
  <2>1. /\ ParentOf(Head(workQueue).leg) \in Parents /\ outcome' = outcome
        /\ CallWaiter("work", ParentOf(Head(workQueue).leg), Tail(workQueue))
    BY <1>4, TakeWork, LegTyped DEF ListFailed
  <2> QED BY <2>1, CallRefines DEF Queues
<1>5. CASE BundleDone
  BY <1>5, BundleRefines
<1>6. CASE Finish
  BY <1>6, FinishRefines
<1>7. CASE \E q \in Queues : RemoveWaiter(q)
  BY <1>7, QuietRefines DEF RemoveWaiter, preparation
<1>8. ASSUME NEW p \in Parents, NEW L, StoreDeviceIds(p, L) PROVE [Promise!Next]_(Promise!vars)
  BY <1>8, CallRefines DEF StoreDeviceIds, Queues
<1>9. CASE \E p \in Parents, L \in SUBSET Devices : L \in Lists(p) /\ PushList(p, L)
  BY <1>8, <1>9 DEF PushList
<1>10. ASSUME NEW r \in tracked, Answer(r) PROVE [Promise!Next]_(Promise!vars)
  <2>1. ParentOf(r.leg) \in Parents
    BY LegTyped DEF IndInv, TypeOK, Requests
  <2>2. CASE \E L \in Lists(ParentOf(r.leg)) : ListAnswered(r, L)
    BY <1>8, <2>1, <2>2 DEF ListAnswered
  <2>3. CASE BundleAnswered(r) \/ RequestFailed(r)
    BY <2>3, QuietRefines DEF BundleAnswered, RequestFailed, Report, preparation
  <2> QED BY <1>10, <2>2, <2>3 DEF Answer
<1>11. CASE UNCHANGED vars
  BY <1>11, QuietRefines DEF vars, preparation
<1> QED BY <1>1, <1>2, <1>3, <1>4, <1>5, <1>6, <1>7, <1>9, <1>10, <1>11 DEF Next, WorkStep

(* Sending does what Encryption promises, for any messages, any lists of   *)
(* buddies, with one of them named twice or not, and any devices: a        *)
(* message is refused when it is handed over, with nothing prepared, or    *)
(* what became of it is said once, when every entry of its list and the    *)
(* account have been prepared, no entry twice.                             *)
THEOREM EncryptionImplemented == Spec => ImplementsEncryption
<1>1. Init => Promise!Init
  BY DEF Init, Promise!Init, Ends, Encrypted
<1>2. IndInv /\ [Next]_vars => [Promise!Next]_(Promise!vars)
  BY PromiseStep
<1> QED BY <1>1, <1>2, IndInvHolds, PTL DEF Spec, ImplementsEncryption, Promise!Spec
=============================================================================
