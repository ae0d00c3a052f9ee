----------------------------- MODULE OmemoSend ------------------------------
(***************************************************************************)
(* Sending an OMEMO message (OTROMEMOSignalCoordinator): for every entry   *)
(* of its list of buddies and for the account itself, device lists and     *)
(* bundles are fetched as far as they are missing, then the message is     *)
(* encrypted to the trusted devices and its completion called.             *)
(*                                                                         *)
(* Two serial queues run this: the coordinator's work queue, modelled with *)
(* its tasks, and the queue of OMEMOModule, which hands over answers,      *)
(* timeouts and pushed device lists. The closures that wait for a list are *)
(* kept by JID and touched from both queues; those that wait for a bundle  *)
(* are kept by request and touched from the work queue only.               *)
(***************************************************************************)
EXTENDS Naturals, Sequences, FiniteSets

CONSTANTS
    Sends,          \* messages to send
    Parents,        \* the buddies and the account: each has a JID and devices
    Legs,           \* what a message is prepared for: an entry of its list of
                    \* buddies, or the account
    Own,            \* the leg of the account
    ParentOf(_),    \* whose devices a leg is about; a list of buddies may
                    \* name one of them twice
    Devices,
    Self,           \* this device
    None,
    DevicesOf(_),   \* the devices a parent has
    Recipients(_),  \* the entries of a message's list of buddies, in order
    FirstRows, FirstSessions,   \* what the database holds at first
    Batches,        \* the sets of messages that one behaviour may send
    MaxPushes,      \* how many device lists the server pushes
    MaxLate         \* how many requests that timed out may still be answered

Account == ParentOf(Own)

ASSUME SendAssumption ==
    /\ Own \in Legs /\ Self \in DevicesOf(Account)
    /\ \A l \in Legs : ParentOf(l) \in Parents /\ (l # Own => ParentOf(l) # Account)
    /\ None \notin Sends \cup Parents \cup Legs \cup Devices \cup (Sends \X Legs)
    /\ \A p \in Parents : DevicesOf(p) \subseteq Devices
    /\ \A s \in Sends : /\ Recipients(s) \in Seq(Legs \ {Own})
                        /\ \A i, j \in 1 .. Len(Recipients(s)) :
                             Recipients(s)[i] = Recipients(s)[j] => i = j
    /\ FirstRows \subseteq Devices /\ FirstSessions \subseteq Devices
    /\ Batches \subseteq SUBSET Sends /\ MaxPushes \in Nat /\ MaxLate \in Nat

VARIABLES
    rows,           \* devices with a row; DeviceTrust says which are trusted
    sessions,       \* devices with a session and a known identity key
    prep,           \* per message and leg, how far its preparation is
    snapshot,       \* the rows the preparation works on
    waiting,        \* outstandingXMPPStanzaResponseBlocks: the bundles it needs
    waiter,         \* deviceIdFetchCallbacks: per parent, the preparation waiting
    workQueue,
    removing,       \* per queue, the parent whose closure it has called and
                    \* is about to remove
    tracked,        \* requests XMPPIDTracker remembers
    outcome,        \* per message
    crashed,        \* a dispatch group was left more often than entered
    pushes,
    forgotten       \* preparations whose closure was dropped uncalled;
                    \* only the properties read it

db == <<rows, sessions>>
preparation == <<prep, snapshot, waiting>>
vars == <<db, preparation, waiter, workQueue, removing, tracked, outcome, crashed,
          pushes, forgotten>>

Queues == {"work", "module"}
Stages == {"idle", "queued", "list", "listed", "bundles", "done"}
Outcomes == {"new", "preparing", "finishing", "sent", "noDevices", "silent", "refused"}

Order(s) == Recipients(s) \o <<Own>>
LegsOf(s) == {Order(s)[i] : i \in 1 .. Len(Order(s))}

Task(do, s, l, d) == [do |-> do, send |-> s, leg |-> l, device |-> d]
Request(s, l, d) == [send |-> s, leg |-> l, device |-> d, late |-> FALSE]

Init ==
    /\ rows = FirstRows
    /\ sessions = FirstSessions
    /\ prep = [s \in Sends |-> [l \in Legs |-> "idle"]]
    /\ snapshot = [s \in Sends |-> [l \in Legs |-> {}]]
    /\ waiting = [s \in Sends |-> [l \in Legs |-> {}]]
    /\ waiter = [p \in Parents |-> None]
    /\ workQueue = <<>>
    /\ removing = [q \in Queues |-> None]
    /\ tracked = {}
    /\ outcome = [s \in Sends |-> "new"]
    /\ crashed = FALSE
    /\ pushes = 0
    /\ forgotten = {}

-----------------------------------------------------------------------------
(* The bound on what is sent.                                              *)
MaySend(s) == \E B \in Batches : {r \in Sends : outcome[r] # "new"} \cup {s} \subseteq B

(* encryptAndSendMessage finds no buddy's key, or no JID to send to: its   *)
(* completion is called at once.                                           *)
Refuse(s) ==
    /\ ~crashed /\ outcome[s] = "new" /\ MaySend(s)
    /\ outcome' = [outcome EXCEPT ![s] = "refused"]
    /\ UNCHANGED <<db, preparation, waiter, workQueue, removing, tracked, crashed,
                   pushes, forgotten>>

(* It enters its group once per leg; prepareSession reads the rows and     *)
(* goes on on the work queue.                                              *)
Begin(s) ==
    /\ ~crashed /\ outcome[s] = "new" /\ MaySend(s) /\ Recipients(s) # <<>>
    /\ outcome' = [outcome EXCEPT ![s] = "preparing"]
    /\ prep' = [prep EXCEPT ![s] =
         [l \in Legs |-> IF l \in LegsOf(s) THEN "queued" ELSE "idle"]]
    /\ snapshot' = [snapshot EXCEPT ![s] =
         [l \in Legs |-> rows \cap DevicesOf(ParentOf(l))]]
    /\ workQueue' = workQueue \o [i \in 1 .. Len(Order(s)) |-> Task("start", s, Order(s)[i], None)]
    /\ UNCHANGED <<db, waiting, waiter, removing, tracked, crashed, pushes, forgotten>>

-----------------------------------------------------------------------------
(* The work queue runs one task at a time, except that the module's queue  *)
(* may come in between the call and the removal of a list's closure.       *)

Working(do) ==
    /\ ~crashed /\ removing["work"] = None
    /\ workQueue # <<>> /\ Head(workQueue).do = do

(* Mutant: the group is not entered for the bundles that are fetched.      *)
FetchBundlesAndGo(s, l, devices) ==
    /\ prep' = [prep EXCEPT ![s][l] = "done"]
    /\ waiting' = [waiting EXCEPT ![s][l] = (devices \ {Self}) \ sessions]
    /\ tracked' = tracked \cup {Request(s, l, d) : d \in (devices \ {Self}) \ sessions}

(* Mutant: this device's own bundle is fetched too.                        *)
FetchBundlesOwn(s, l, devices) ==
    LET missing == devices \ sessions IN
    /\ prep' = [prep EXCEPT ![s][l] = IF missing = {} THEN "done" ELSE "bundles"]
    /\ waiting' = [waiting EXCEPT ![s][l] = missing]
    /\ tracked' = tracked \cup {Request(s, l, d) : d \in missing}

(* bundleFetch: a bundle for every device without a session or a key.      *)
FetchBundles(s, l, devices) ==
    LET missing == (devices \ {Self}) \ sessions IN
    /\ prep' = [prep EXCEPT ![s][l] = IF missing = {} THEN "done" ELSE "bundles"]
    /\ waiting' = [waiting EXCEPT ![s][l] = missing]
    /\ tracked' = tracked \cup {Request(s, l, d) : d \in missing}

(* Whoever waits for a parent's list is no longer known by it.             *)
Forget(p) == forgotten' = forgotten \cup
    {w \in Sends \X Legs : waiter[p] = w /\ prep[w[1]][w[2]] = "list"}

(* prepareSession finds no user name or no JID: the preparation is over,   *)
(* unsuccessfully, and nothing is fetched. In the code its completion      *)
(* takes the callback queue; the group waits for the account's preparation *)
(* in any case.                                                            *)
StartUnknown == LET t == Head(workQueue) IN
    /\ Working("start") /\ t.leg # Own
    /\ workQueue' = Tail(workQueue)
    /\ prep' = [prep EXCEPT ![t.send][t.leg] = "done"]
    /\ UNCHANGED <<db, snapshot, waiting, waiter, removing, tracked, outcome, crashed,
                   pushes, forgotten>>

(* The task workQueue.async adds at the end of prepareSession.             *)
StartWithRows == LET t == Head(workQueue) IN
    /\ Working("start") /\ snapshot[t.send][t.leg] # {}
    /\ workQueue' = Tail(workQueue)
    /\ FetchBundles(t.send, t.leg, snapshot[t.send][t.leg])
    /\ UNCHANGED <<db, snapshot, waiter, removing, outcome, crashed, pushes, forgotten>>

(* deviceFetch: the closure takes the place of another one of this JID.    *)
StartWithoutRows == LET t == Head(workQueue)
                        p == ParentOf(t.leg) IN
    /\ Working("start") /\ snapshot[t.send][t.leg] = {}
    /\ workQueue' = Tail(workQueue)
    /\ prep' = [prep EXCEPT ![t.send][t.leg] = "list"]
    /\ waiter' = [waiter EXCEPT ![p] = <<t.send, t.leg>>]
    /\ Forget(p)
    /\ tracked' = tracked \cup {Request(t.send, t.leg, None)}
    /\ UNCHANGED <<db, snapshot, waiting, removing, outcome, crashed, pushes>>

(* group.notify of deviceFetch: go on with the rows there are now.         *)
Continue == LET t == Head(workQueue)
                now == rows \cap DevicesOf(ParentOf(t.leg)) IN
    /\ Working("continue")
    /\ workQueue' = Tail(workQueue)
    /\ snapshot' = [snapshot EXCEPT ![t.send][t.leg] = now]
    /\ FetchBundles(t.send, t.leg, now)
    /\ UNCHANGED <<db, waiter, removing, outcome, crashed, pushes, forgotten>>

(* callAndRemoveOutstandingDeviceIdFetch, first half: the closure leaves   *)
(* its group, whose notification goes to the work queue. Leaving twice is  *)
(* fatal.                                                                  *)
CallWaiter(q, p, tasks) == LET s == waiter[p][1]
                               l == waiter[p][2] IN
    IF waiter[p] = None
    THEN /\ workQueue' = tasks
         /\ UNCHANGED <<prep, removing, crashed>>
    ELSE /\ removing' = [removing EXCEPT ![q] = p]
         /\ crashed' = (prep[s][l] # "list")
         /\ prep' = [prep EXCEPT ![s][l] = IF crashed' THEN @ ELSE "listed"]
         /\ workQueue' = IF crashed' THEN tasks
                         ELSE Append(tasks, Task("continue", s, l, None))

(* failedToFetchDeviceIdsForJID                                            *)
ListFailed ==
    /\ Working("listFailed")
    /\ CallWaiter("work", ParentOf(Head(workQueue).leg), Tail(workQueue))
    /\ UNCHANGED <<db, snapshot, waiting, waiter, tracked, outcome, pushes, forgotten>>

(* Mutant: the closure is called and stays.                                *)
RemoveWaiterNever(q) ==
    /\ ~crashed /\ removing[q] # None
    /\ removing' = [removing EXCEPT ![q] = None]
    /\ UNCHANGED <<db, preparation, waiter, workQueue, tracked, outcome, crashed,
                   pushes, forgotten>>

(* callAndRemoveOutstandingDeviceIdFetch, second half.                     *)
RemoveWaiter(q) ==
    /\ ~crashed /\ removing[q] # None
    /\ waiter' = [waiter EXCEPT ![removing[q]] = None]
    /\ removing' = [removing EXCEPT ![q] = None]
    /\ Forget(removing[q])
    /\ UNCHANGED <<db, preparation, workQueue, tracked, outcome, crashed, pushes>>

(* Mutant: a failed request does not call its closure.                     *)
BundleDoneIfFound == LET t == Head(workQueue) IN
    /\ Working("bundle") \/ Working("noBundle")
    /\ workQueue' = Tail(workQueue)
    /\ sessions' = IF t.do = "bundle" THEN sessions \cup {t.device} ELSE sessions
    /\ waiting' = [waiting EXCEPT ![t.send][t.leg] =
         IF t.do = "bundle" THEN @ \ {t.device} ELSE @]
    /\ prep' = [prep EXCEPT ![t.send][t.leg] =
         IF @ = "bundles" /\ waiting'[t.send][t.leg] = {} THEN "done" ELSE @]
    /\ UNCHANGED <<rows, snapshot, waiter, removing, tracked, outcome, crashed,
                   pushes, forgotten>>

(* fetchedBundle stores the session; it and failedToFetchBundle call the   *)
(* closure if it is still there.                                           *)
BundleDone == LET t == Head(workQueue) IN
    /\ Working("bundle") \/ Working("noBundle")
    /\ workQueue' = Tail(workQueue)
    /\ sessions' = IF t.do = "bundle" THEN sessions \cup {t.device} ELSE sessions
    /\ waiting' = [waiting EXCEPT ![t.send][t.leg] = @ \ {t.device}]
    /\ prep' = [prep EXCEPT ![t.send][t.leg] =
         IF @ = "bundles" /\ waiting[t.send][t.leg] \subseteq {t.device} THEN "done" ELSE @]
    /\ UNCHANGED <<rows, snapshot, waiter, removing, tracked, outcome, crashed,
                   pushes, forgotten>>

(* Mutant: the group is left for all when one preparation is complete.     *)
AnyPrepared(s) ==
    /\ ~crashed /\ outcome[s] = "preparing"
    /\ \E l \in LegsOf(s) : prep[s][l] = "done"
    /\ outcome' = [outcome EXCEPT ![s] = "finishing"]
    /\ workQueue' = Append(workQueue, Task("finish", s, None, None))
    /\ UNCHANGED <<db, preparation, waiter, removing, tracked, crashed, pushes, forgotten>>

(* group.notify of encryptAndSendMessage, once every completion has run on *)
(* the callback queue. That a fetch failed makes no difference.            *)
AllPrepared(s) ==
    /\ ~crashed /\ outcome[s] = "preparing"
    /\ \A l \in LegsOf(s) : prep[s][l] = "done"
    /\ outcome' = [outcome EXCEPT ![s] = "finishing"]
    /\ workQueue' = Append(workQueue, Task("finish", s, None, None))
    /\ UNCHANGED <<db, preparation, waiter, removing, tracked, crashed, pushes, forgotten>>

Encryptable(s) == rows \cap sessions \cap UNION {DevicesOf(ParentOf(l)) : l \in LegsOf(s) \ {Own}}

(* The block it runs. "sent": the key was encrypted to some trusted device *)
(* of a buddy; "noDevices": to none, the buddies are gone, or encryption   *)
(* threw; "silent": the message has no text or the payload came back       *)
(* empty, and the block returns without a word.                            *)
Finish == LET s == Head(workQueue).send IN
    /\ Working("finish")
    /\ workQueue' = Tail(workQueue)
    /\ \E o \in {"sent", "noDevices", "silent"} :
        /\ o = "sent" => Encryptable(s) # {}
        /\ outcome' = [outcome EXCEPT ![s] = o]
    /\ UNCHANGED <<db, preparation, waiter, removing, tracked, crashed, pushes, forgotten>>

-----------------------------------------------------------------------------
(* The queue of OMEMOModule.                                               *)

Module == ~crashed /\ removing["module"] = None

(* storeDeviceIds. The transaction runs before any later read of the same  *)
(* connection; a row whose device is missing stays, marked as removed, and *)
(* an empty list deletes the rows.                                         *)
StoreRows(p, L) ==
    LET told == IF p = Account THEN L \cup {Self} ELSE L IN
    rows' = IF told = {} THEN rows \ DevicesOf(p) ELSE rows \cup told

StoreDeviceIds(p, L) ==
    /\ StoreRows(p, L)
    /\ CallWaiter("module", p, workQueue)
    /\ UNCHANGED <<sessions, snapshot, waiting, waiter, outcome, forgotten>>

Lists(p) == {{}, DevicesOf(p)}

PushList(p, L) ==
    /\ Module /\ pushes < MaxPushes
    /\ pushes' = pushes + 1
    /\ StoreDeviceIds(p, L)
    /\ UNCHANGED tracked

(* An answer, perhaps after the timeout.                                   *)
ListAnswered(r, L) ==
    /\ Module /\ r.device = None
    /\ tracked' = tracked \ {r}
    /\ StoreDeviceIds(ParentOf(r.leg), L)
    /\ UNCHANGED pushes

Failure(r) == Task(IF r.device = None THEN "listFailed" ELSE "noBundle",
                   r.send, r.leg, r.device)

Report(task) ==
    /\ workQueue' = Append(workQueue, task)
    /\ UNCHANGED <<db, preparation, waiter, removing, outcome, crashed, pushes, forgotten>>

BundleAnswered(r) ==
    /\ Module /\ r.device # None
    /\ tracked' = tracked \ {r}
    /\ Report(Task("bundle", r.send, r.leg, r.device))

(* The error answer and the timer, which leaves the request in the table:  *)
(* it can still be answered.                                               *)
(* The account's own list counts as empty then, see DeviceList.            *)
RequestFailed(r) ==
    /\ Module /\ ~(r.device = None /\ r.leg = Own)
    /\ \/ tracked' = tracked \ {r}
       \/ /\ ~r.late /\ Cardinality({o \in tracked : o.late}) < MaxLate
          /\ tracked' = (tracked \ {r}) \cup {[r EXCEPT !.late = TRUE]}
    /\ Report(Failure(r))

WorkStep ==
    \/ StartUnknown \/ StartWithRows \/ StartWithoutRows \/ Continue
    \/ ListFailed \/ BundleDone \/ Finish

Answer(r) ==
    \/ \E L \in Lists(ParentOf(r.leg)) : ListAnswered(r, L)
    \/ BundleAnswered(r) \/ RequestFailed(r)

Tasks == [do : {"start", "continue", "listFailed", "bundle", "noBundle", "finish"},
          send : Sends, leg : Legs \cup {None}, device : Devices \cup {None}]
Requests == [send : Sends, leg : Legs, device : Devices \cup {None}, late : BOOLEAN]

Next ==
    \/ \E s \in Sends : Refuse(s) \/ Begin(s) \/ AllPrepared(s)
    \/ WorkStep
    \/ \E q \in Queues : RemoveWaiter(q)
    \/ \E p \in Parents, L \in SUBSET Devices : L \in Lists(p) /\ PushList(p, L)
    \/ \E r \in tracked : Answer(r)

(* As long as a queue has something to run or a request is open, something *)
(* happens: a task, an answer or a timer.                                  *)
Fairness == WF_vars(\/ WorkStep
                    \/ \E q \in Queues : RemoveWaiter(q)
                    \/ \E s \in Sends : AllPrepared(s)
                    \/ \E r \in tracked : ~r.late /\ Answer(r))

Spec == Init /\ [][Next]_vars
FairSpec == Spec /\ Fairness

-----------------------------------------------------------------------------
Answered == {"sent", "noDevices", "refused"}

TypeOK ==
    /\ rows \subseteq Devices /\ sessions \subseteq Devices
    /\ prep \in [Sends -> [Legs -> Stages]]
    /\ snapshot \in [Sends -> [Legs -> SUBSET Devices]]
    /\ waiting \in [Sends -> [Legs -> SUBSET Devices]]
    /\ \A s \in Sends, l \in Legs :
        /\ waiting[s][l] \subseteq snapshot[s][l] \ {Self}
        /\ waiting[s][l] # {} <=> prep[s][l] = "bundles"
    /\ waiter \in [Parents -> (Sends \X Legs) \cup {None}]
    /\ workQueue \in Seq(Tasks)
    /\ removing \in [Queues -> Parents \cup {None}]
    /\ tracked \subseteq Requests
    /\ outcome \in [Sends -> Outcomes]
    /\ crashed \in BOOLEAN
    /\ pushes \in 0 .. MaxPushes
    /\ forgotten \subseteq Sends \X Legs

(* A message is encrypted only after each of its requests for a bundle was *)
(* answered or timed out: a late answer to one cannot stand in for         *)
(* another, and none is counted twice.                                     *)
NothingPending == \A s \in Sends : outcome[s] \in {"finishing"} \cup Answered =>
    \A r \in tracked : r.send = s /\ r.device # None => r.late

Scheduled(do, s, l, d) == \E i \in 1 .. Len(workQueue) : workQueue[i] = Task(do, s, l, d)

(* A request can still be answered or time out, or a task reports its end. *)
Open(s, l, d) ==
    \/ Request(s, l, d) \in tracked
    \/ \E do \in IF d = None THEN {"listFailed"} ELSE {"bundle", "noBundle"} :
         Scheduled(do, s, l, d)

(* Who takes a preparation on from where it is: a task of the work queue,  *)
(* an open request, or for a list the closure that its answer calls - if   *)
(* it was not dropped uncalled.                                            *)
CarriedOn(s, l) ==
    \/ prep[s][l] = "queued" /\ Scheduled("start", s, l, None)
    \/ /\ prep[s][l] = "list"
       /\ <<s, l>> \in forgotten \/ (waiter[ParentOf(l)] = <<s, l>> /\ Open(s, l, None))
    \/ prep[s][l] = "listed" /\ Scheduled("continue", s, l, None)
    \/ prep[s][l] = "bundles" /\ \A d \in waiting[s][l] : Open(s, l, d)
    \/ prep[s][l] = "done"

(* A message is never left with nobody to take it on, except where one of  *)
(* its closures was dropped uncalled: every preparation is with a task, a  *)
(* request or a closure, and so is the end of the message.                 *)
SomebodyCarriesOn == crashed \/ \A s \in Sends :
    /\ outcome[s] = "preparing" => \A l \in LegsOf(s) : CarriedOn(s, l)
    /\ outcome[s] = "finishing" => Scheduled("finish", s, None, None)

(* A dispatch group is left twice in one way only: both queues have called *)
(* the closure of one parent before either removed it.                     *)
CrashHasCause == crashed => \E p \in Parents : \A q \in Queues : removing[q] = p

(* The completion of every message is called: again and again there is a   *)
(* moment at which no message is unanswered, except those of which a       *)
(* closure was overwritten or removed before it was called, or on which    *)
(* the block gave up without a word - or a group was left twice.           *)
EverySendAnswered == []<>\A s \in Sends :
    \/ outcome[s] \in {"new"} \cup Answered \cup {"silent"}
    \/ crashed
    \/ \E l \in Legs : <<s, l>> \in forgotten

-----------------------------------------------------------------------------
(* Refinement of Encryption.                                               *)
Encrypted == {"sent", "noDevices", "silent"}
Ends == Encrypted \cup {"refused"}

Promise == INSTANCE Encryption WITH
    Parties <- [s \in Sends |-> LegsOf(s)],
    Results <- Encrypted,
    Refusal <- "refused",
    asked <- {s \in Sends : outcome[s] # "new"},
    ready <- {c \in Sends \X Legs : prep[c[1]][c[2]] = "done"},
    result <- [s \in Sends |-> IF outcome[s] \in Ends THEN outcome[s] ELSE "none"]

(* Whatever is fetched, refused, pushed, answered late or twice, and even  *)
(* if the list of buddies names one of them twice: a message is refused    *)
(* when it is handed over, with nothing prepared, or it is finished once,  *)
(* when every entry of the list and the account have been prepared, no     *)
(* entry twice.                                                            *)
ImplementsEncryption == Promise!Spec
=============================================================================
