------------------------- MODULE MessageQueueProofs -------------------------
(***************************************************************************)
(* Theorems about the outgoing message queue, for any actions, threads and *)
(* accounts, any kinds of message and any number and kind of faults.       *)
(***************************************************************************)
EXTENDS MessageQueue, SequenceTheorems, TLAPS

-----------------------------------------------------------------------------
(* Removing an action from a queue closes the gap it leaves.               *)
LEMMA WithoutByIndex ==
    ASSUME NEW S, NEW s \in Seq(S), NEW a, \E i \in 1..Len(s) : s[i] = a
    PROVE  /\ Without(s, a) \in Seq(S)
           /\ Len(Without(s, a)) = Len(s) - 1
           /\ \E k \in 1..Len(s) :
                 /\ s[k] = a
                 /\ \A i \in 1..(Len(s) - 1) :
                       Without(s, a)[i] = IF i < k THEN s[i] ELSE s[i + 1]
<1> DEFINE k == CHOOSE i \in 1..Len(s) : s[i] = a
           l == SubSeq(s, 1, k - 1)
           r == SubSeq(s, k + 1, Len(s))
<1>1. k \in 1..Len(s) /\ s[k] = a
  OBVIOUS
<1>2. Without(s, a) = l \o r
  BY DEF Without, RemoveAt
<1>3. Len(s) \in Nat /\ \A i \in 1..Len(s) : s[i] \in S
  BY ElementOfSeq
<1> HIDE DEF k
<1>4. /\ l \in Seq(S)
      /\ Len(l) = k - 1
      /\ \A i \in 1..(k - 1) : l[i] = s[i]
  <2>1. k - 1 \in Int /\ \A i \in 1..(k - 1) : s[i] \in S  BY <1>1, <1>3
  <2> QED  BY <2>1, <1>1, <1>3, SubSeqProperties
<1>5. /\ r \in Seq(S)
      /\ Len(r) = Len(s) - k
      /\ \A i \in 1..(Len(s) - k) : r[i] = s[k + i]
  <2>1. k + 1 \in Int /\ \A i \in (k + 1)..Len(s) : s[i] \in S  BY <1>1, <1>3
  <2>2. /\ r \in Seq(S)
        /\ Len(r) = IF k + 1 <= Len(s) THEN Len(s) - (k + 1) + 1 ELSE 0
        /\ \A i \in 1..(Len(s) - (k + 1) + 1) : r[i] = s[(k + 1) + i - 1]
    BY <2>1, <1>3, SubSeqProperties
  <2> QED  BY <2>2, <1>1, <1>3
<1> HIDE DEF l, r
<1>6. /\ l \o r \in Seq(S)
      /\ Len(l \o r) = Len(s) - 1
      /\ \A i \in 1..(Len(s) - 1) :
            (l \o r)[i] = IF i <= k - 1 THEN l[i] ELSE r[i - (k - 1)]
  <2>1. /\ l \o r \in Seq(S)
        /\ Len(l \o r) = Len(l) + Len(r)
        /\ \A i \in 1..(Len(l) + Len(r)) :
              (l \o r)[i] = IF i <= Len(l) THEN l[i] ELSE r[i - Len(l)]
    BY <1>4, <1>5, ConcatProperties, Zenon
  <2>2. Len(l) = k - 1 /\ Len(l) + Len(r) = Len(s) - 1
    BY <1>1, <1>3, <1>4, <1>5
  <2> QED  BY <2>1, <2>2
<1>7. ASSUME NEW i \in 1..(Len(s) - 1)
      PROVE  (l \o r)[i] = IF i < k THEN s[i] ELSE s[i + 1]
  <2>1. CASE i < k
    <3>1. i \in 1..(k - 1) /\ i <= k - 1  BY <2>1, <1>1, <1>3
    <3> QED  BY <2>1, <3>1, <1>6, <1>4
  <2>2. CASE ~(i < k)
    <3>1. ~(i <= k - 1) /\ i - (k - 1) \in 1..(Len(s) - k)  BY <2>2, <1>1, <1>3
    <3>2. r[i - (k - 1)] = s[k + (i - (k - 1))]  BY <3>1, <1>5
    <3>3. k + (i - (k - 1)) = i + 1  BY <1>1, <1>3
    <3> QED  BY <2>2, <3>1, <3>2, <3>3, <1>6
  <2> QED  BY <2>1, <2>2
<1> QED  BY <1>1, <1>2, <1>6, <1>7

LEMMA WithoutIsSeq ==
    ASSUME NEW S, NEW s \in Seq(S), NEW a
    PROVE  /\ Without(s, a) \in Seq(S)
           /\ \A i \in 1..Len(Without(s, a)) :
                 \E j \in 1..Len(s) : Without(s, a)[i] = s[j]
<1>1. CASE \E i \in 1..Len(s) : s[i] = a
  <2>1. Len(s) \in Nat
    OBVIOUS
  <2>2. ASSUME NEW i \in 1..(Len(s) - 1)
        PROVE  \E j \in 1..Len(s) : Without(s, a)[i] = s[j]
    <3>1. i \in 1..Len(s) /\ i + 1 \in 1..Len(s)  BY <2>1
    <3> QED  BY <1>1, <3>1, WithoutByIndex
  <2> QED  BY <1>1, <2>2, WithoutByIndex
<1>2. CASE ~(\E i \in 1..Len(s) : s[i] = a)  BY <1>2 DEF Without
<1> QED  BY <1>1, <1>2

-----------------------------------------------------------------------------
(* Type correctness.                                                       *)

LEMMA CallType ==
    ASSUME NEW op \in Ops, NEW a \in Actions
    PROVE  Call(op, a) \in Calls
BY DEF Call, Calls

(* completion(true) keeps the queue, the slot and the paused set typed.    *)
LEMMA FinishType ==
    ASSUME TypeOK, NEW a \in Actions, Finish(a)
    PROVE  /\ queue' \in [Threads -> Seq(Actions)]
           /\ slot' \in [Threads -> Actions \cup {None}]
           /\ paused' \subseteq Threads
<1>1. ThreadOf[a] \in Threads  BY ConstantsAssumption
<1>2. queue[ThreadOf[a]] \in Seq(Actions)  BY <1>1 DEF TypeOK
<1>3. Without(queue[ThreadOf[a]], a) \in Seq(Actions)  BY <1>2, WithoutIsSeq
<1>4. QED  BY <1>1, <1>3 DEF TypeOK, Finish, RemoveRow

LEMMA RemoveRowType ==
    ASSUME TypeOK, NEW a \in Actions, RemoveRow(a)
    PROVE  queue' \in [Threads -> Seq(Actions)]
<1>1. ThreadOf[a] \in Threads  BY ConstantsAssumption
<1>2. queue[ThreadOf[a]] \in Seq(Actions)  BY <1>1 DEF TypeOK
<1>3. Without(queue[ThreadOf[a]], a) \in Seq(Actions)  BY <1>2, WithoutIsSeq
<1>4. QED  BY <1>1, <1>3 DEF TypeOK, RemoveRow

(* Everything is filed under its owner: queues, slots and OTR waits under  *)
(* the action's own thread, login waits under its account, and only a busy *)
(* thread is paused.                                                       *)
FiledByOwner ==
    /\ \A t \in Threads :
          /\ \A i \in 1..Len(queue[t]) : ThreadOf[queue[t][i]] = t
          /\ slot[t] # None => ThreadOf[slot[t]] = t
          /\ outstandingBuddies[t] # None => ThreadOf[outstandingBuddies[t]] = t
    /\ \A c \in Accounts : \A a \in outstandingAccounts[c] : AccountFor(a) = c
    /\ \A t \in paused : slot[t] # None

(* A retry timer needs an action to retry, so types alone are not          *)
(* inductive: FiledByOwner supplies it.                                    *)
LEMMA TypeStep == TypeOK /\ FiledByOwner /\ [Next]_vars => TypeOK'
<1> SUFFICES ASSUME TypeOK, FiledByOwner, [Next]_vars PROVE TypeOK'
  OBVIOUS
<1> USE DEF TypeOK, dbVars, brokerVars, tableVars, envVars
<1>1. ASSUME NEW a \in Actions, HandleMissing(a) PROVE TypeOK'
  BY <1>1, FinishType DEF HandleMissing, Done
<1>2. ASSUME NEW a \in Actions, HandleOffline(a) PROVE TypeOK'
  BY <1>2, CallType DEF HandleOffline, Then, Ops, HolderOps
<1>3. ASSUME NEW a \in Actions, HandleManual(a) PROVE TypeOK'
  BY <1>3, ConstantsAssumption DEF HandleManual, Done
<1>4. ASSUME NEW a \in Actions, AddBuddyToRoster(a) PROVE TypeOK'
  BY <1>4, FinishType DEF AddBuddyToRoster, Done
<1>5. ASSUME NEW a \in Actions, SendPlain(a) PROVE TypeOK'
  BY <1>5, CallType DEF SendPlain, Then, Ops, HolderOps, WaitForMessage, Entry, CollectionOf, Collections
<1>6. ASSUME NEW a \in Actions, SendGroupNowhere(a) PROVE TypeOK'
  BY <1>6, FinishType DEF SendGroupNowhere, Done
<1>7. ASSUME NEW a \in Actions, SendGroup(a) PROVE TypeOK'
  BY <1>7, CallType DEF SendGroup, Ops, HolderOps, WaitForMessage, Entry, CollectionOf, Collections
<1>8. ASSUME NEW a \in Actions, SendOMEMO(a) PROVE TypeOK'
  BY <1>8, CallType DEF SendOMEMO, Then, Ops, HolderOps, WaitForMessage, Entry, Collections
<1>9. ASSUME NEW a \in Actions, SendEncoded(a) PROVE TypeOK'
  BY <1>9, CallType DEF SendEncoded, Then, Ops, HolderOps, WaitForMessage, Entry, Collections
<1>10. ASSUME NEW a \in Actions, RequestSession(a) PROVE TypeOK'
  BY <1>10, CallType DEF RequestSession, Then, Ops, HolderOps
<1>11. ASSUME NEW a \in Actions, WaitForAccount(a) PROVE TypeOK'
  BY <1>11, CallType, ConstantsAssumption DEF WaitForAccount, Then, Ops, HolderOps, AccountFor
<1>12. ASSUME NEW a \in Actions, Connect(a) PROVE TypeOK'
  BY <1>12, ConstantsAssumption DEF Connect, Done, AccountFor, LoginStates
<1>13. ASSUME NEW a \in Actions, MarkPending(a) PROVE TypeOK'
  BY <1>13 DEF MarkPending, Done, Results
<1>14. ASSUME NEW a \in Actions, InitiateEncryption(a) PROVE TypeOK'
  <2>1. ThreadOf[a] \in Threads  BY ConstantsAssumption
  <2>2. timers' \in [Actions -> Nat]  BY <1>14 DEF InitiateEncryption
  <2>3. outstandingBuddies' \in [Threads -> Actions \cup {None}]
    BY <1>14, <2>1 DEF InitiateEncryption
  <2>4. calls' \subseteq Calls  BY <1>14 DEF InitiateEncryption, Done
  <2> QED  BY <1>14, <2>2, <2>3, <2>4 DEF InitiateEncryption
<1>15. ASSUME NEW a \in Actions, Resend(a) PROVE TypeOK'
  BY <1>15, FinishType, CallType DEF Resend, Done, Then, Ops, HolderOps
<1>16. ASSUME NEW a \in Actions, OtrTimeout(a) PROVE TypeOK'
  <2>1. ThreadOf[a] \in Threads  BY ConstantsAssumption
  <2>2. timers' \in [Actions -> Nat]
    <3>1. timers[a] \in Nat /\ timers[a] > 0 /\ timers' = [timers EXCEPT ![a] = @ - 1]
      BY <1>16 DEF OtrTimeout
    <3> QED  BY <3>1
  <2>3. outstandingBuddies' \in [Threads -> Actions \cup {None}]
    BY <1>16, <2>1 DEF OtrTimeout
  <2>4. CASE outstandingBuddies[ThreadOf[a]] = None
    BY <1>16, <2>2, <2>3, <2>4 DEF OtrTimeout
  <2>5. CASE outstandingBuddies[ThreadOf[a]] # None
    <3> DEFINE b == outstandingBuddies[ThreadOf[a]]
    <3>1. b \in Actions  BY <2>1, <2>5
    <3>2. SaveError(b) /\ Finish(b)  BY <1>16, <2>5 DEF OtrTimeout
    <3> HIDE DEF b
    <3>3. result' \in [Actions -> Results]  BY <3>1, <3>2 DEF SaveError, Results
    <3> QED  BY <1>16, <2>2, <2>3, <3>1, <3>2, <3>3, FinishType DEF OtrTimeout
  <2> QED  BY <2>4, <2>5
<1>17. ASSUME NEW a \in Actions, Write(a) PROVE TypeOK'
  <2>1. ThreadOf[a] \in Threads  BY ConstantsAssumption
  <2>2. Append(wire[ThreadOf[a]], a) \in Seq(Actions)  BY <2>1, AppendProperties
  <2>3. wire' \in [Threads -> Seq(Actions)]  BY <1>17, <2>1, <2>2 DEF Write
  <2>4. calls' \subseteq Calls  BY <1>17, CallType DEF Write, Then, Ops, HolderOps
  <2> QED  BY <1>17, <2>3, <2>4 DEF Write
<1>18. ASSUME NEW a \in Actions, WriteFails(a) PROVE TypeOK'
  BY <1>18, CallType DEF WriteFails, Then, Ops, HolderOps
<1>19. ASSUME NEW a \in Actions, WriteForgotten(a) PROVE TypeOK'
  BY <1>19 DEF WriteForgotten, Done
<1>20. ASSUME NEW a \in Actions, DidSendMessage(a) PROVE TypeOK'
  BY <1>20, FinishType DEF DidSendMessage, Done, PopMessage, Results
<1>21. ASSUME NEW a \in Actions, DidFailToSendMessage(a) PROVE TypeOK'
  BY <1>21, FinishType DEF DidFailToSendMessage, Done, PopMessage, SaveError, Results
<1>22. ASSUME NEW a \in Actions, Encoded(a) PROVE TypeOK'
  BY <1>22, CallType DEF Encoded, Then, Ops, HolderOps, RowStates
<1>23. ASSUME NEW a \in Actions, EncodeFails(a) PROVE TypeOK'
  <2>1. result' \in [Actions -> Results]
    BY <1>23 DEF EncodeFails, SaveError, Results
  <2>2. queue' \in [Threads -> Seq(Actions)]
    BY <1>23, RemoveRowType DEF EncodeFails
  <2>3. faults' \in Nat  BY <1>23 DEF EncodeFails, Fault
  <2>4. calls' \subseteq Calls  BY <1>23 DEF EncodeFails, Done
  <2> QED  BY <1>23, <2>1, <2>2, <2>3, <2>4 DEF EncodeFails
<1>24. ASSUME NEW a \in Actions, OmemoEncrypted(a) PROVE TypeOK'
  BY <1>24, CallType DEF OmemoEncrypted, Then, Ops, HolderOps
<1>25. ASSUME NEW a \in Actions, OmemoFails(a) PROVE TypeOK'
  BY <1>25, FinishType DEF OmemoFails, Done, PopMessage, SaveError, Results
<1>26. ASSUME NEW a \in Actions, Enqueue(a) PROVE TypeOK'
  <2>1. ThreadOf[a] \in Threads  BY ConstantsAssumption
  <2>2. Append(queue[ThreadOf[a]], a) \in Seq(Actions)  BY <2>1, AppendProperties
  <2>3. queue' \in [Threads -> Seq(Actions)]  BY <1>26, <2>1, <2>2 DEF Enqueue
  <2>4. saved' \in [Actions -> RowStates]  BY <1>26 DEF Enqueue, RowStates
  <2>5. ASSUME NEW f \in {"nil", "empty", "unsupported"}, flaw' = [flaw EXCEPT ![a] = f]
        PROVE  flaw' \in [Actions -> Flaws]
    BY <2>5 DEF Flaws
  <2>6. faults' \in Nat  BY <1>26 DEF Enqueue, Fault
  <2>7. flaw' \in [Actions -> Flaws]  BY <1>26, <2>5 DEF Enqueue
  <2> QED  BY <1>26, <2>3, <2>4, <2>6, <2>7 DEF Enqueue
<1>27. ASSUME NEW a \in Actions, Delete(a) PROVE TypeOK'
  BY <1>27, RemoveRowType DEF Delete, RowStates, Fault
<1>28. ASSUME NEW t \in Threads, HandNext(t) PROVE TypeOK'
  BY <1>28, CallType DEF HandNext, Ops, HolderOps
<1>29. ASSUME NEW t \in Threads, RetryFires(t) PROVE TypeOK'
  <2>1. slot[t] \in Actions  BY <1>29 DEF RetryFires, FiledByOwner
  <2>2. Call("handle", slot[t]) \in Calls  BY <2>1, CallType DEF Ops, HolderOps
  <2> QED  BY <1>29, <2>2 DEF RetryFires
<1>30. ASSUME NEW t \in Threads, DeliverEncrypted(t) PROVE TypeOK'
  BY <1>30, CallType DEF DeliverEncrypted, Ops, HolderOps
<1>31. ASSUME NEW t \in Threads, JoinRoom(t) PROVE TypeOK'
  BY <1>31 DEF JoinRoom
<1>32. ASSUME NEW t \in Threads, GoneSecure(t) PROVE TypeOK'
  BY <1>32 DEF GoneSecure
<1>33. ASSUME NEW t \in Threads, SessionEnds(t) PROVE TypeOK'
  BY <1>33 DEF SessionEnds, Fault
<1>34. ASSUME NEW c \in Accounts, DeliverLogin(c) PROVE TypeOK'
  BY <1>34, CallType DEF DeliverLogin, Ops, HolderOps
<1>35. ASSUME NEW c \in Accounts, Reconnect(c) PROVE TypeOK'
  BY <1>35 DEF Reconnect, LoginStates
<1>36. ASSUME NEW c \in Accounts, DidAuthenticate(c) PROVE TypeOK'
  BY <1>36 DEF DidAuthenticate, LoginStates
<1>37. ASSUME NEW c \in Accounts, DidDisconnect(c) \/ StatusFalls(c) PROVE TypeOK'
  <2>1. CASE DidDisconnect(c)  BY <2>1 DEF DidDisconnect, LoginStates, Fault
  <2>2. CASE StatusFalls(c)  BY <2>2 DEF StatusFalls, LoginStates, Fault
  <2> QED  BY <1>37, <2>1, <2>2
<1>38. CASE Restart  BY <1>38 DEF Restart, LoginStates, Fault
<1>39. CASE UNCHANGED vars  BY <1>39 DEF vars
<1>40. ASSUME NEW a \in Actions, HandleUnsupported(a) \/ SendOTRWithoutText(a) PROVE TypeOK'
  <2>1. Finish(a) /\ Done(Call("handle", a)) /\ UNCHANGED <<saved, flaw, result, tableVars, envVars, wire>>
    BY <1>40 DEF HandleUnsupported, SendOTRWithoutText
  <2> QED  BY <2>1, FinishType DEF Done
<1>41. ASSUME NEW a \in Actions, SendGroupUnsupported(a) PROVE TypeOK'
  BY <1>41 DEF SendGroupUnsupported, Done, WaitForMessage, Entry, CollectionOf, Collections
<1>42. ASSUME NEW a \in Actions, OmemoWithoutText(a) \/ OmemoUnavailable(a) PROVE TypeOK'
  <2>1. PICK later \in {{}, {"saveError"}} : OmemoGivesUp(a, later)
    BY <1>42 DEF OmemoWithoutText, OmemoUnavailable
  <2>2. faults' \in Nat  BY <1>42 DEF OmemoWithoutText, OmemoUnavailable, Fault
  <2>3. \A op \in later \cup {"markPending"} : Call(op, a) \in Calls
    BY CallType DEF Ops
  <2>4. calls' \subseteq Calls  BY <2>1, <2>3 DEF OmemoGivesUp
  <2>5. outstandingMessages' \subseteq (Actions \X Collections)
    BY <2>1 DEF OmemoGivesUp, WaitForMessage, Entry, CollectionOf, Collections
  <2> QED  BY <2>1, <2>2, <2>4, <2>5, FinishType DEF OmemoGivesUp
<1>43. ASSUME NEW a \in Actions, SaveOmemoError(a) PROVE TypeOK'
  BY <1>43 DEF SaveOmemoError, Done, SaveError, Results
<1>44. ASSUME NEW a \in Actions, EncodedToNothing(a) \/ OmemoUnanswered(a) PROVE TypeOK'
  BY <1>44 DEF EncodedToNothing, OmemoUnanswered, Done, Fault
<1>45. ASSUME NEW a \in Actions, Orphan(a) PROVE TypeOK'
  BY <1>45 DEF Orphan, Flaws, Fault
<1> QED
  BY <1>40, <1>41, <1>42, <1>43, <1>44, <1>45, <1>1, <1>2, <1>3, <1>4, <1>5, <1>6, <1>7, <1>8, <1>9, <1>10, <1>11, <1>12, <1>13, <1>14, <1>15, <1>16, <1>17, <1>18, <1>19, <1>20, <1>21, <1>22, <1>23, <1>24, <1>25, <1>26, <1>27, <1>28, <1>29, <1>30, <1>31, <1>32, <1>33, <1>34, <1>35, <1>36, <1>37, <1>38, <1>39
  DEF Next, Broker, Handle, Callback, Encryption, Notification, Environment

-----------------------------------------------------------------------------
(* Who holds a completion.  Holds(a) is read member by member, in both     *)
(* states of a step.                                                       *)

LEMMA HoldsMember ==
    ASSUME TypeOK, NEW a \in Actions, NEW p
    PROVE  p \in Holds(a) <=>
              \/ p \in HolderOps /\ Call(p, a) \in calls
              \/ p = "account" /\ a \in outstandingAccounts[AccountFor(a)]
              \/ p = "buddy" /\ outstandingBuddies[ThreadOf[a]] = a
<1>1. ASSUME NEW c \in calls, c.op = p, c.act = a PROVE c = Call(p, a)
  BY <1>1 DEF TypeOK, Calls, Call
<1>2. Call(p, a).op = p /\ Call(p, a).act = a  BY DEF Call
<1> QED  BY <1>1, <1>2 DEF Holds

LEMMA HoldsMemberNext ==
    ASSUME TypeOK', NEW a \in Actions, NEW p
    PROVE  p \in Holds(a)' <=>
              \/ p \in HolderOps /\ Call(p, a) \in calls'
              \/ p = "account" /\ a \in outstandingAccounts'[AccountFor(a)]
              \/ p = "buddy" /\ outstandingBuddies'[ThreadOf[a]] = a
<1>1. ASSUME NEW c \in calls', c.op = p, c.act = a PROVE c = Call(p, a)
  BY <1>1 DEF TypeOK, Calls, Call
<1>2. Call(p, a).op = p /\ Call(p, a).act = a  BY DEF Call
<1> QED  BY <1>1, <1>2 DEF Holds, AccountFor

LEMMA CallInjective ==
    ASSUME NEW p, NEW q, NEW a, NEW b, Call(p, a) = Call(q, b)
    PROVE  p = q /\ a = b
<1>1. Call(p, a).op = p /\ Call(p, a).act = a  BY DEF Call
<1>2. Call(q, b).op = q /\ Call(q, b).act = b  BY DEF Call
<1> QED  BY <1>1, <1>2

(* The tables gain nothing.                                                *)
TablesShrink ==
    \A b \in Actions :
        /\ b \in outstandingAccounts'[AccountFor(b)] =>
              b \in outstandingAccounts[AccountFor(b)]
        /\ outstandingBuddies'[ThreadOf[b]] = b => outstandingBuddies[ThreadOf[b]] = b

(* The inductive invariant.                                                *)
Ownership == TypeOK /\ FiledByOwner /\ CompletionOwned /\ SingleHolder

(* A step that dispatches no block with a completion and files nothing.    *)
LEMMA HoldsShrink ==
    ASSUME TypeOK, TypeOK', TablesShrink,
           \A p \in HolderOps, b \in Actions : Call(p, b) \in calls' => Call(p, b) \in calls
    PROVE  \A b \in Actions : Holds(b)' \subseteq Holds(b)
BY HoldsMember, HoldsMemberNext DEF TablesShrink

LEMMA QuietStep ==
    ASSUME Ownership, TypeOK', TablesShrink, UNCHANGED <<slot, paused>>,
           \A p \in HolderOps, b \in Actions : Call(p, b) \in calls' => Call(p, b) \in calls
    PROVE  CompletionOwned' /\ SingleHolder'
<1>1. \A b \in Actions : Holds(b)' \subseteq Holds(b)
  BY HoldsShrink DEF Ownership
<1> QED  BY <1>1 DEF Ownership, CompletionOwned, SingleHolder

(* A block of a runs and hands its completion on to the block q of a.      *)
LEMMA MoveStep ==
    ASSUME Ownership, TypeOK', TablesShrink, UNCHANGED <<slot, paused>>,
           NEW a \in Actions, NEW o \in Holds(a), NEW q,
           o \notin Holds(a)' \/ o = q,
           \A p \in HolderOps, b \in Actions :
              Call(p, b) \in calls' => Call(p, b) \in calls \/ (p = q /\ b = a)
    PROVE  CompletionOwned' /\ SingleHolder'
<1>1. ASSUME NEW b \in Actions, b # a PROVE Holds(b)' \subseteq Holds(b)
  BY <1>1, HoldsMember, HoldsMemberNext DEF TablesShrink, Ownership
<1>2. ASSUME NEW p \in Holds(a)' PROVE p = q
  <2>1. p \in Holds(a) \/ p = q
    BY <1>2, HoldsMember, HoldsMemberNext DEF TablesShrink, Ownership
  <2>2. p \in Holds(a) => p = o  BY DEF Ownership, SingleHolder
  <2> QED  BY <1>2, <2>1, <2>2
<1>3. slot[ThreadOf[a]] = a /\ ThreadOf[a] \notin paused
  BY DEF Ownership, CompletionOwned
<1> QED  BY <1>1, <1>2, <1>3 DEF Ownership, CompletionOwned, SingleHolder

(* The completion of a is used up; only a's thread moves on.               *)
LEMMA EndStep ==
    ASSUME Ownership, TypeOK', TablesShrink, NEW a \in Actions, NEW o \in Holds(a),
           o \notin Holds(a)',
           \A p \in HolderOps, b \in Actions : Call(p, b) \in calls' => Call(p, b) \in calls,
           \A t \in Threads \ {ThreadOf[a]} :
              slot'[t] = slot[t] /\ (t \in paused' => t \in paused)
    PROVE  CompletionOwned' /\ SingleHolder'
<1>1. \A b \in Actions : Holds(b)' \subseteq Holds(b)
  BY HoldsShrink DEF Ownership
<1>2. slot[ThreadOf[a]] = a  BY DEF Ownership, CompletionOwned
<1>3. \A p \in Holds(a) : p = o  BY DEF Ownership, SingleHolder
<1>4. Holds(a)' = {}  BY <1>1, <1>3
<1>5. ASSUME NEW b \in Actions, Holds(b)' # {}
      PROVE  slot'[ThreadOf[b]] = b /\ ThreadOf[b] \notin paused'
  <2>1. Holds(b) # {} /\ b # a  BY <1>1, <1>4, <1>5
  <2>2. slot[ThreadOf[b]] = b /\ ThreadOf[b] \notin paused
    BY <2>1 DEF Ownership, CompletionOwned
  <2>3. ThreadOf[b] \in Threads \ {ThreadOf[a]}
    BY <1>2, <2>1, <2>2, ConstantsAssumption
  <2> QED  BY <2>2, <2>3
<1> QED  BY <1>1, <1>5 DEF Ownership, CompletionOwned, SingleHolder

(* The two shapes most branches have.                                      *)
LEMMA ThenStep ==
    ASSUME Ownership, TypeOK', NEW a \in Actions, NEW o \in HolderOps, NEW q,
           o # q, Call(o, a) \in calls, Then(Call(o, a), Call(q, a)),
           UNCHANGED <<outstandingAccounts, outstandingBuddies, slot, paused>>
    PROVE  CompletionOwned' /\ SingleHolder'
<1>1. o \in Holds(a)  BY HoldsMember DEF Ownership
<1>2. Call(o, a) \notin calls'  BY CallInjective DEF Then
<1>3. o \notin Holds(a)'  BY <1>2, HoldsMemberNext DEF HolderOps
<1>4. ASSUME NEW p \in HolderOps, NEW b \in Actions, Call(p, b) \in calls'
      PROVE  Call(p, b) \in calls \/ (p = q /\ b = a)
  BY <1>4, CallInjective DEF Then
<1>5. TablesShrink  BY DEF TablesShrink
<1> QED  BY <1>1, <1>3, <1>4, <1>5, MoveStep

LEMMA DoneStep ==
    ASSUME Ownership, TypeOK', NEW a \in Actions, NEW o \in HolderOps,
           Call(o, a) \in calls, Done(Call(o, a)),
           UNCHANGED <<outstandingAccounts, outstandingBuddies>>,
           \A t \in Threads \ {ThreadOf[a]} :
              slot'[t] = slot[t] /\ (t \in paused' => t \in paused)
    PROVE  CompletionOwned' /\ SingleHolder'
<1>1. o \in Holds(a)  BY HoldsMember DEF Ownership
<1>2. o \notin Holds(a)'  BY HoldsMemberNext DEF Done, HolderOps
<1>3. TablesShrink  BY DEF TablesShrink
<1> QED  BY <1>1, <1>2, <1>3, EndStep DEF Done

LEMMA FinishLocal ==
    ASSUME TypeOK, NEW a \in Actions, Finish(a)
    PROVE  \A t \in Threads \ {ThreadOf[a]} :
              slot'[t] = slot[t] /\ (t \in paused' => t \in paused)
BY DEF Finish, TypeOK

LEMMA OwnedStep == Ownership /\ TypeOK' /\ [Next]_vars => CompletionOwned' /\ SingleHolder'
<1> SUFFICES ASSUME Ownership, TypeOK', [Next]_vars
             PROVE  CompletionOwned' /\ SingleHolder'
  OBVIOUS
<1> DEFINE Goal == CompletionOwned' /\ SingleHolder'
<1> USE DEF dbVars, brokerVars, tableVars, envVars
<1>t. TypeOK  BY DEF Ownership
<1>q. ASSUME UNCHANGED <<outstandingAccounts, outstandingBuddies, slot, paused>>,
             \A p \in HolderOps, b \in Actions : Call(p, b) \in calls' => Call(p, b) \in calls
      PROVE  Goal
  <2>1. TablesShrink  BY <1>q DEF TablesShrink
  <2> QED  BY <1>q, <2>1, QuietStep
<1>1. ASSUME NEW a \in Actions, HandleOffline(a) PROVE Goal
  <2>1. "handle" \in HolderOps /\ "handle" # "register"  BY DEF HolderOps
  <2> QED  BY <1>1, <2>1, ThenStep DEF HandleOffline, Handling, Sendable
<1>2. ASSUME NEW a \in Actions, SendPlain(a) PROVE Goal
  <2>1. "handle" \in HolderOps /\ "handle" # "stream"  BY DEF HolderOps
  <2> QED  BY <1>2, <2>1, ThenStep DEF SendPlain, Handling, Sendable
<1>3. ASSUME NEW a \in Actions, SendOMEMO(a) PROVE Goal
  <2>1. "handle" \in HolderOps /\ "handle" # "omemo"  BY DEF HolderOps
  <2> QED  BY <1>3, <2>1, ThenStep DEF SendOMEMO, Handling, Sendable
<1>4. ASSUME NEW a \in Actions, SendEncoded(a) PROVE Goal
  <2>1. "handle" \in HolderOps /\ "handle" # "encode"  BY DEF HolderOps
  <2> QED  BY <1>4, <2>1, ThenStep DEF SendEncoded, Handling, Sendable
<1>5. ASSUME NEW a \in Actions, RequestSession(a) PROVE Goal
  <2>1. "handle" \in HolderOps /\ "handle" # "otrStart"  BY DEF HolderOps
  <2> QED  BY <1>5, <2>1, ThenStep DEF RequestSession, Handling, Sendable
<1>6. ASSUME NEW a \in Actions, Encoded(a) PROVE Goal
  <2>1. "encode" \in HolderOps /\ "encode" # "stream"  BY DEF HolderOps
  <2> QED  BY <1>6, <2>1, ThenStep DEF Encoded
<1>7. ASSUME NEW a \in Actions, OmemoEncrypted(a) PROVE Goal
  <2>1. "omemo" \in HolderOps /\ "omemo" # "stream"  BY DEF HolderOps
  <2> QED  BY <1>7, <2>1, ThenStep DEF OmemoEncrypted
<1>8. ASSUME NEW a \in Actions, Write(a) PROVE Goal
  <2>1. "stream" \in HolderOps /\ "stream" # "didSend"  BY DEF HolderOps
  <2> QED  BY <1>8, <2>1, ThenStep DEF Write, ToStream
<1>9. ASSUME NEW a \in Actions, WriteFails(a) PROVE Goal
  <2>1. "stream" \in HolderOps /\ "stream" # "didFail"  BY DEF HolderOps
  <2> QED  BY <1>9, <2>1, ThenStep DEF WriteFails, ToStream
<1>10. ASSUME NEW a \in Actions, HandleMissing(a) PROVE Goal
  <2>1. "handle" \in HolderOps  BY DEF HolderOps
  <2> QED  BY <1>10, <1>t, <2>1, FinishLocal, DoneStep DEF HandleMissing, Handling, Sendable
<1>11. ASSUME NEW a \in Actions, AddBuddyToRoster(a) PROVE Goal
  <2>1. "handle" \in HolderOps  BY DEF HolderOps
  <2> QED  BY <1>11, <1>t, <2>1, FinishLocal, DoneStep DEF AddBuddyToRoster, Handling, Sendable
<1>12. ASSUME NEW a \in Actions, SendGroupNowhere(a) PROVE Goal
  <2>1. "handle" \in HolderOps  BY DEF HolderOps
  <2> QED  BY <1>12, <1>t, <2>1, FinishLocal, DoneStep DEF SendGroupNowhere, Handling, Sendable
<1>13. ASSUME NEW a \in Actions, HandleManual(a) PROVE Goal
  <2>1. "handle" \in HolderOps  BY DEF HolderOps
  <2> QED  BY <1>13, <2>1, DoneStep DEF HandleManual, Handling, Sendable
<1>14. ASSUME NEW a \in Actions, WriteForgotten(a) PROVE Goal
  <2>1. "stream" \in HolderOps  BY DEF HolderOps
  <2> QED  BY <1>14, <2>1, DoneStep DEF WriteForgotten
<1>15. ASSUME NEW a \in Actions, EncodeFails(a) PROVE Goal
  <2>1. "encode" \in HolderOps  BY DEF HolderOps
  <2> QED  BY <1>15, <2>1, DoneStep DEF EncodeFails
<1>16. ASSUME NEW a \in Actions, DidSendMessage(a) PROVE Goal
  <2>1. "didSend" \in HolderOps  BY DEF HolderOps
  <2>2. \A t \in Threads \ {ThreadOf[a]} :
           slot'[t] = slot[t] /\ (t \in paused' => t \in paused)
    BY <1>16, <1>t, FinishLocal DEF DidSendMessage, PopMessage
  <2> QED  BY <1>16, <2>1, <2>2, DoneStep DEF DidSendMessage, PopMessage
<1>17. ASSUME NEW a \in Actions, DidFailToSendMessage(a) PROVE Goal
  <2>1. "didFail" \in HolderOps  BY DEF HolderOps
  <2>2. \A t \in Threads \ {ThreadOf[a]} :
           slot'[t] = slot[t] /\ (t \in paused' => t \in paused)
    BY <1>17, <1>t, FinishLocal DEF DidFailToSendMessage, PopMessage
  <2> QED  BY <1>17, <2>1, <2>2, DoneStep DEF DidFailToSendMessage, PopMessage
<1>18. ASSUME NEW a \in Actions, OmemoFails(a) PROVE Goal
  <2>1. "omemo" \in HolderOps  BY DEF HolderOps
  <2>2. \A t \in Threads \ {ThreadOf[a]} :
           slot'[t] = slot[t] /\ (t \in paused' => t \in paused)
    BY <1>18, <1>t, FinishLocal DEF OmemoFails, PopMessage
  <2> QED  BY <1>18, <2>1, <2>2, DoneStep DEF OmemoFails, PopMessage
<1>19. ASSUME NEW a \in Actions, Resend(a) PROVE Goal
  <2>1. "resend" \in HolderOps /\ "resend" # "handle"  BY DEF HolderOps
  <2>2. CASE HasRow(a)  BY <1>19, <2>1, <2>2, ThenStep DEF Resend
  <2>3. CASE ~HasRow(a)  BY <1>19, <1>t, <2>1, <2>3, FinishLocal, DoneStep DEF Resend
  <2> QED  BY <2>2, <2>3
<1>20. ASSUME NEW a \in Actions, SendGroup(a) PROVE Goal
  <2> DEFINE q == IF KindOf[a] = "groupOmemo" THEN "omemo" ELSE "stream"
  <2>1. /\ Call("handle", a) \in calls
        /\ calls' = (calls \ {Call("handle", a)}) \cup {Call(q, a), Call("markPending", a)}
        /\ UNCHANGED <<outstandingAccounts, outstandingBuddies, slot, paused>>
    BY <1>20 DEF SendGroup, Handling, Sendable
  <2>2. q # "handle"  OBVIOUS
  <2> HIDE DEF q
  <2>3. "handle" \in HolderOps /\ "markPending" \notin HolderOps  BY DEF HolderOps
  <2>4. "handle" \in Holds(a)  BY <1>t, <2>1, <2>3, HoldsMember
  <2>5. Call("handle", a) \notin calls'  BY <2>1, <2>2, CallInjective
  <2>6. "handle" \notin Holds(a)'  BY <2>5, HoldsMemberNext
  <2>7. ASSUME NEW p \in HolderOps, NEW b \in Actions, Call(p, b) \in calls'
        PROVE  Call(p, b) \in calls \/ (p = q /\ b = a)
    BY <2>1, <2>3, <2>7, CallInjective
  <2>8. TablesShrink  BY <2>1 DEF TablesShrink
  <2> QED  BY <2>1, <2>4, <2>6, <2>7, <2>8, MoveStep
<1>21. ASSUME NEW a \in Actions, WaitForAccount(a) PROVE Goal
  <2>1. "register" \in HolderOps /\ "connect" \notin HolderOps /\ "account" \notin HolderOps
    BY DEF HolderOps
  <2>2. "register" \in Holds(a)  BY <1>21, <1>t, <2>1, HoldsMember DEF WaitForAccount
  <2>3. "register" \notin Holds(a)'
    BY <1>21, <2>1, HoldsMemberNext, CallInjective DEF WaitForAccount, Then
  <2>4. ASSUME NEW b \in Actions, b # a PROVE Holds(b)' \subseteq Holds(b)
    <3>1. AccountFor(a) \in Accounts /\ AccountFor(b) \in Accounts
      BY ConstantsAssumption DEF AccountFor
    <3>2. b \in outstandingAccounts'[AccountFor(b)] => b \in outstandingAccounts[AccountFor(b)]
      BY <1>21, <1>t, <2>4, <3>1 DEF WaitForAccount, TypeOK
    <3>3. \A p \in HolderOps : Call(p, b) \in calls' => Call(p, b) \in calls
      BY <1>21, <2>4, CallInjective DEF WaitForAccount, Then
    <3> QED  BY <1>21, <1>t, <3>2, <3>3, HoldsMember, HoldsMemberNext DEF WaitForAccount
  <2>5. ASSUME NEW p \in Holds(a)' PROVE p = "account"
    <3>1. \A r \in Holds(a) : r = "register"  BY <2>2 DEF Ownership, SingleHolder
    <3>2. p \in Holds(a) \/ p = "account"
      BY <1>21, <1>t, <2>1, HoldsMember, HoldsMemberNext, CallInjective DEF WaitForAccount, Then
    <3> QED  BY <2>3, <2>5, <3>1, <3>2
  <2>6. slot[ThreadOf[a]] = a /\ ThreadOf[a] \notin paused
    BY <2>2 DEF Ownership, CompletionOwned
  <2> QED
    BY <1>21, <2>4, <2>5, <2>6 DEF WaitForAccount, Ownership, CompletionOwned, SingleHolder
<1>22. ASSUME NEW a \in Actions, InitiateEncryption(a) PROVE Goal
  <2>1. "otrStart" \in HolderOps  BY DEF HolderOps
  <2>2. "otrStart" \in Holds(a)  BY <1>22, <1>t, <2>1, HoldsMember DEF InitiateEncryption
  <2>3. "otrStart" \notin Holds(a)'
    BY <1>22, <2>1, HoldsMemberNext DEF InitiateEncryption, Done
  <2>4. ASSUME NEW b \in Actions, b # a PROVE Holds(b)' \subseteq Holds(b)
    <3>1. ThreadOf[a] \in Threads /\ ThreadOf[b] \in Threads  BY ConstantsAssumption
    <3>2. outstandingBuddies'[ThreadOf[b]] = b => outstandingBuddies[ThreadOf[b]] = b
      BY <1>22, <1>t, <2>4, <3>1 DEF InitiateEncryption, TypeOK
    <3> QED
      BY <1>22, <1>t, <3>2, HoldsMember, HoldsMemberNext DEF InitiateEncryption, Done
  <2>5. ASSUME NEW p \in Holds(a)' PROVE p = "buddy"
    <3>1. \A r \in Holds(a) : r = "otrStart"  BY <2>2 DEF Ownership, SingleHolder
    <3>2. p \in Holds(a) \/ p = "buddy"
      BY <1>22, <1>t, HoldsMember, HoldsMemberNext DEF InitiateEncryption, Done
    <3> QED  BY <2>3, <2>5, <3>1, <3>2
  <2>6. slot[ThreadOf[a]] = a /\ ThreadOf[a] \notin paused
    BY <2>2 DEF Ownership, CompletionOwned
  <2> QED
    BY <1>22, <2>4, <2>5, <2>6 DEF InitiateEncryption, Ownership, CompletionOwned, SingleHolder
<1>23. ASSUME NEW a \in Actions, OtrTimeout(a) PROVE Goal
  <2>1. ThreadOf[a] \in Threads  BY ConstantsAssumption
  <2>2. TablesShrink
    BY <1>23, <1>t, <2>1, ConstantsAssumption DEF OtrTimeout, TablesShrink, TypeOK
  <2>3. CASE outstandingBuddies[ThreadOf[a]] = None
    BY <1>23, <2>2, <2>3, QuietStep DEF OtrTimeout
  <2>4. CASE outstandingBuddies[ThreadOf[a]] # None
    <3>1. PICK b \in Actions :
             b = outstandingBuddies[ThreadOf[a]] /\ Finish(b) /\ UNCHANGED calls
      BY <1>23, <1>t, <2>1, <2>4 DEF OtrTimeout, TypeOK
    <3>2. ThreadOf[b] = ThreadOf[a]
      BY <2>1, <2>4, <3>1 DEF Ownership, FiledByOwner
    <3>3. outstandingBuddies[ThreadOf[b]] = b  BY <3>1, <3>2
    <3>4. outstandingBuddies'[ThreadOf[b]] # b
      BY <1>23, <1>t, <2>1, <3>2, ConstantsAssumption DEF OtrTimeout, TypeOK
    <3>5. "buddy" \in Holds(b) /\ "buddy" \notin Holds(b)'
      BY <1>t, <3>1, <3>3, <3>4, HoldsMember, HoldsMemberNext DEF HolderOps
    <3> QED  BY <1>t, <2>2, <3>1, <3>5, FinishLocal, EndStep
  <2> QED  BY <2>3, <2>4
<1>24. ASSUME NEW t \in Threads, DeliverEncrypted(t) PROVE Goal
  <2>2. TablesShrink
    BY <1>24, <1>t, ConstantsAssumption DEF DeliverEncrypted, TablesShrink, TypeOK
  <2>3. CASE outstandingBuddies[t] = None
    BY <1>24, <2>2, <2>3, QuietStep DEF DeliverEncrypted
  <2>4. CASE outstandingBuddies[t] # None
    <3>1. PICK b \in Actions :
             b = outstandingBuddies[t] /\ calls' = calls \cup {Call("resend", b)}
      BY <1>24, <1>t, <2>4 DEF DeliverEncrypted, TypeOK
    <3>2. ThreadOf[b] = t
      BY <2>4, <3>1 DEF Ownership, FiledByOwner
    <3>3. outstandingBuddies[ThreadOf[b]] = b  BY <3>1, <3>2
    <3>4. outstandingBuddies'[ThreadOf[b]] # b
      BY <1>24, <1>t, <3>2, ConstantsAssumption DEF DeliverEncrypted, TypeOK
    <3>5. "buddy" \in Holds(b) /\ "buddy" \notin Holds(b)'
      BY <1>t, <3>1, <3>3, <3>4, HoldsMember, HoldsMemberNext DEF HolderOps
    <3>6. \A p \in HolderOps, d \in Actions :
             Call(p, d) \in calls' => Call(p, d) \in calls \/ (p = "resend" /\ d = b)
      BY <3>1, CallInjective
    <3> QED  BY <1>24, <2>2, <3>1, <3>5, <3>6, MoveStep DEF DeliverEncrypted
  <2> QED  BY <2>3, <2>4
<1>25. ASSUME NEW c \in Accounts, DeliverLogin(c) PROVE Goal
  <2>1. TablesShrink
    BY <1>25, <1>t, ConstantsAssumption DEF DeliverLogin, TablesShrink, TypeOK, AccountFor
  <2>2. CASE outstandingAccounts[c] = {} /\ UNCHANGED calls
    BY <1>25, <2>1, <2>2, QuietStep DEF DeliverLogin
  <2>3. ASSUME NEW a \in outstandingAccounts[c], calls' = calls \cup {Call("handle", a)}
        PROVE  Goal
    <3>1. a \in Actions /\ AccountFor(a) = c
      BY <1>t DEF Ownership, FiledByOwner, TypeOK
    <3>2. a \notin outstandingAccounts'[AccountFor(a)]
      BY <1>25, <1>t, <3>1 DEF DeliverLogin, TypeOK
    <3>3. "account" \in Holds(a) /\ "account" \notin Holds(a)'
      BY <1>t, <3>1, <3>2, HoldsMember, HoldsMemberNext DEF HolderOps
    <3>4. \A p \in HolderOps, d \in Actions :
             Call(p, d) \in calls' => Call(p, d) \in calls \/ (p = "handle" /\ d = a)
      BY <2>3, CallInjective
    <3> QED  BY <1>25, <2>1, <3>1, <3>3, <3>4, MoveStep DEF DeliverLogin
  <2> QED  BY <1>25, <2>2, <2>3 DEF DeliverLogin
<1>26. ASSUME NEW t \in Threads, HandNext(t) PROVE Goal
  <2> DEFINE a == Head(queue[t])
  <2>1. a \in Actions /\ ThreadOf[a] = t
    <3>1. queue[t] \in Seq(Actions) /\ queue[t] # <<>>  BY <1>26, <1>t DEF HandNext, TypeOK
    <3>2. Len(queue[t]) \in Nat \ {0} /\ queue[t][1] \in Actions
      BY <3>1, EmptySeq, ElementOfSeq
    <3>3. Head(queue[t]) = queue[t][1]  BY <3>1
    <3> QED  BY <3>2, <3>3 DEF Ownership, FiledByOwner
  <2>2. \A b \in Actions : ThreadOf[b] = t => Holds(b) = {}
    BY <1>26, ConstantsAssumption DEF HandNext, Ownership, CompletionOwned
  <2>3. slot'[t] = a /\ t \notin paused'
    BY <1>26, <1>t DEF HandNext, TypeOK, Ownership, FiledByOwner
  <2>4. \A u \in Threads \ {t} : slot'[u] = slot[u] /\ (u \in paused' => u \in paused)
    BY <1>26, <1>t DEF HandNext, TypeOK
  <2>5. calls' = calls \cup {Call("handle", a)} /\ UNCHANGED tableVars  BY <1>26 DEF HandNext
  <2> HIDE DEF a
  <2>6. ASSUME NEW b \in Actions, NEW p \in Holds(b)'
        PROVE  p \in Holds(b) \/ (b = a /\ p = "handle")
    BY <1>t, <2>5, HoldsMember, HoldsMemberNext, CallInjective
  <2>7. CompletionOwned'
    <3> SUFFICES ASSUME NEW b \in Actions, NEW p \in Holds(b)'
                 PROVE  slot'[ThreadOf[b]] = b /\ ThreadOf[b] \notin paused'
      BY DEF CompletionOwned
    <3>1. CASE b = a  BY <2>1, <2>3, <3>1
    <3>2. CASE b # a
      <4>1. p \in Holds(b)  BY <2>6, <3>2
      <4>2. ThreadOf[b] \in Threads \ {t}  BY <4>1, <2>2, ConstantsAssumption
      <4> QED  BY <2>4, <4>1, <4>2 DEF Ownership, CompletionOwned
    <3> QED  BY <3>1, <3>2
  <2>8. SingleHolder'
    BY <2>1, <2>2, <2>6 DEF Ownership, SingleHolder
  <2> QED  BY <2>7, <2>8
<1>27. ASSUME NEW t \in Threads, RetryFires(t) PROVE Goal
  <2> DEFINE a == slot[t]
  <2>1. a \in Actions /\ ThreadOf[a] = t
    BY <1>27, <1>t DEF RetryFires, TypeOK, Ownership, FiledByOwner
  <2>2. \A b \in Actions : ThreadOf[b] = t => Holds(b) = {}
    BY <1>27 DEF RetryFires, Ownership, CompletionOwned
  <2>3. slot'[t] = a /\ t \notin paused'
    BY <1>27 DEF RetryFires
  <2>4. \A u \in Threads \ {t} : slot'[u] = slot[u] /\ (u \in paused' => u \in paused)
    BY <1>27, <1>t DEF RetryFires, TypeOK
  <2>5. calls' = calls \cup {Call("handle", a)} /\ UNCHANGED tableVars  BY <1>27 DEF RetryFires
  <2> HIDE DEF a
  <2>6. ASSUME NEW b \in Actions, NEW p \in Holds(b)'
        PROVE  p \in Holds(b) \/ (b = a /\ p = "handle")
    BY <1>t, <2>5, HoldsMember, HoldsMemberNext, CallInjective
  <2>7. CompletionOwned'
    <3> SUFFICES ASSUME NEW b \in Actions, NEW p \in Holds(b)'
                 PROVE  slot'[ThreadOf[b]] = b /\ ThreadOf[b] \notin paused'
      BY DEF CompletionOwned
    <3>1. CASE b = a  BY <2>1, <2>3, <3>1
    <3>2. CASE b # a
      <4>1. p \in Holds(b)  BY <2>6, <3>2
      <4>2. ThreadOf[b] \in Threads \ {t}  BY <4>1, <2>2, ConstantsAssumption
      <4> QED  BY <2>4, <4>1, <4>2 DEF Ownership, CompletionOwned
    <3> QED  BY <3>1, <3>2
  <2>8. SingleHolder'
    BY <2>1, <2>2, <2>6 DEF Ownership, SingleHolder
  <2> QED  BY <2>7, <2>8
<1>28. ASSUME NEW a \in Actions, Enqueue(a) PROVE Goal
  BY <1>28, <1>q DEF Enqueue
<1>29. ASSUME NEW a \in Actions, Delete(a) PROVE Goal
  BY <1>29, <1>q DEF Delete
<1>30. ASSUME NEW t \in Threads, JoinRoom(t) PROVE Goal
  BY <1>30, <1>q DEF JoinRoom
<1>31. ASSUME NEW t \in Threads, GoneSecure(t) PROVE Goal
  BY <1>31, <1>q DEF GoneSecure
<1>32. ASSUME NEW t \in Threads, SessionEnds(t) PROVE Goal
  BY <1>32, <1>q DEF SessionEnds
<1>33. ASSUME NEW c \in Accounts, Reconnect(c) PROVE Goal
  BY <1>33, <1>q DEF Reconnect
<1>34. ASSUME NEW c \in Accounts, DidAuthenticate(c) PROVE Goal
  BY <1>34, <1>q DEF DidAuthenticate
<1>35. ASSUME NEW c \in Accounts, DidDisconnect(c) \/ StatusFalls(c) PROVE Goal
  BY <1>35, <1>q DEF DidDisconnect, StatusFalls
<1>36. ASSUME NEW a \in Actions, Connect(a) PROVE Goal
  BY <1>36, <1>q DEF Connect, Done
<1>37. ASSUME NEW a \in Actions, MarkPending(a) PROVE Goal
  BY <1>37, <1>q DEF MarkPending, Done
<1>38. CASE Restart
  <2>1. \A b \in Actions : ThreadOf[b] \in Threads /\ AccountFor(b) \in Accounts
    BY ConstantsAssumption DEF AccountFor
  <2>2. ASSUME NEW b \in Actions, NEW p \in Holds(b)' PROVE FALSE
    BY <1>38, <2>1, <2>2, HoldsMemberNext, ConstantsAssumption DEF Restart
  <2> QED  BY <2>2 DEF CompletionOwned, SingleHolder
<1>39. CASE UNCHANGED vars  BY <1>39, <1>q DEF vars
<1>40. ASSUME NEW a \in Actions, HandleUnsupported(a) \/ SendOTRWithoutText(a) PROVE Goal
  <2>1. "handle" \in HolderOps  BY DEF HolderOps
  <2>2. /\ Call("handle", a) \in calls /\ Done(Call("handle", a)) /\ Finish(a)
        /\ UNCHANGED <<outstandingAccounts, outstandingBuddies>>
    BY <1>40 DEF HandleUnsupported, SendOTRWithoutText, Handling, Sendable
  <2> QED  BY <1>t, <2>1, <2>2, FinishLocal, DoneStep
<1>41. ASSUME NEW a \in Actions, SendGroupUnsupported(a) PROVE Goal
  <2>1. "handle" \in HolderOps  BY DEF HolderOps
  <2> QED  BY <1>41, <2>1, DoneStep DEF SendGroupUnsupported, Handling
<1>42. ASSUME NEW a \in Actions, OmemoWithoutText(a) \/ OmemoUnavailable(a) PROVE Goal
  <2>1. PICK later \in {{}, {"saveError"}} : OmemoGivesUp(a, later)
    BY <1>42 DEF OmemoWithoutText, OmemoUnavailable
  <2>2. /\ "handle" \in HolderOps
        /\ \A op \in later \cup {"markPending"} : op \notin HolderOps
    BY DEF HolderOps
  <2>3. /\ Call("handle", a) \in calls
        /\ Finish(a)
        /\ UNCHANGED <<outstandingAccounts, outstandingBuddies>>
        /\ \A c \in calls' : \/ c \in calls /\ c # Call("handle", a)
                             \/ \E op \in later \cup {"markPending"} : c = Call(op, a)
    BY <2>1 DEF OmemoGivesUp, Handling, Sendable
  <2>4. "handle" \in Holds(a)  BY <1>t, <2>2, <2>3, HoldsMember
  <2>5. ASSUME NEW p \in HolderOps, NEW b \in Actions, Call(p, b) \in calls'
        PROVE  Call(p, b) \in calls /\ Call(p, b) # Call("handle", a)
    BY <2>2, <2>3, <2>5, CallInjective
  <2>6. "handle" \notin Holds(a)'  BY <2>2, <2>5, HoldsMemberNext DEF HolderOps
  <2>7. TablesShrink  BY <2>3 DEF TablesShrink
  <2> QED  BY <1>t, <2>3, <2>4, <2>5, <2>6, <2>7, FinishLocal, EndStep
<1>43. ASSUME NEW a \in Actions, SaveOmemoError(a) PROVE Goal
  BY <1>43, <1>q DEF SaveOmemoError, Done
<1>44. ASSUME NEW a \in Actions, EncodedToNothing(a) \/ OmemoUnanswered(a) PROVE Goal
  <2>1. "encode" \in HolderOps /\ "omemo" \in HolderOps  BY DEF HolderOps
  <2>2. CASE EncodedToNothing(a)  BY <2>1, <2>2, DoneStep DEF EncodedToNothing
  <2>3. CASE OmemoUnanswered(a)  BY <2>1, <2>3, DoneStep DEF OmemoUnanswered
  <2> QED  BY <1>44, <2>2, <2>3
<1>45. ASSUME NEW a \in Actions, Orphan(a) PROVE Goal
  BY <1>45, <1>q DEF Orphan
<1> QED
  BY <1>40, <1>41, <1>42, <1>43, <1>44, <1>45, <1>1, <1>2, <1>3, <1>4, <1>5, <1>6, <1>7, <1>8, <1>9, <1>10, <1>11, <1>12, <1>13, <1>14, <1>15, <1>16, <1>17, <1>18, <1>19, <1>20, <1>21, <1>22, <1>23, <1>24, <1>25, <1>26, <1>27, <1>28, <1>29, <1>30, <1>31, <1>32, <1>33, <1>34, <1>35, <1>36, <1>37, <1>38, <1>39
  DEF Next, Broker, Handle, Callback, Encryption, Notification, Environment

-----------------------------------------------------------------------------
(* Everything stays filed under its owner.                                 *)

BrokerFiled ==
    /\ \A t \in Threads :
          /\ \A i \in 1..Len(queue[t]) : ThreadOf[queue[t][i]] = t
          /\ slot[t] # None => ThreadOf[slot[t]] = t
    /\ \A t \in paused : slot[t] # None

TablesFiled ==
    /\ \A t \in Threads :
          outstandingBuddies[t] # None => ThreadOf[outstandingBuddies[t]] = t
    /\ \A c \in Accounts : \A a \in outstandingAccounts[c] : AccountFor(a) = c

LEMMA FiledParts == FiledByOwner <=> BrokerFiled /\ TablesFiled
BY DEF FiledByOwner, BrokerFiled, TablesFiled

LEMMA RemoveRowFiled ==
    ASSUME TypeOK, BrokerFiled, NEW a \in Actions, RemoveRow(a)
    PROVE  \A t \in Threads : \A i \in 1..Len(queue'[t]) : ThreadOf[queue'[t][i]] = t
<1> SUFFICES ASSUME NEW t \in Threads, NEW i \in 1..Len(queue'[t])
             PROVE  ThreadOf[queue'[t][i]] = t
  OBVIOUS
<1>1. queue[t] \in Seq(Actions)  BY DEF TypeOK
<1>2. CASE t = ThreadOf[a]
  <2>1. queue'[t] = Without(queue[t], a)  BY <1>2 DEF RemoveRow, TypeOK
  <2>2. PICK j \in 1..Len(queue[t]) : queue'[t][i] = queue[t][j]
    BY <1>1, <2>1, WithoutIsSeq
  <2> QED  BY <2>2 DEF BrokerFiled
<1>3. CASE t # ThreadOf[a]
  <2>1. queue'[t] = queue[t]  BY <1>3 DEF RemoveRow, TypeOK
  <2> QED  BY <2>1 DEF BrokerFiled
<1> QED  BY <1>2, <1>3

(* A completion is used only by its holder, whose thread is not paused.    *)
LEMMA FinishFiled ==
    ASSUME Ownership, NEW a \in Actions, Holds(a) # {}, Finish(a)
    PROVE  BrokerFiled'
<1>1. BrokerFiled /\ TypeOK  BY FiledParts DEF Ownership
<1>2. slot[ThreadOf[a]] = a /\ ThreadOf[a] \notin paused
  BY DEF Ownership, CompletionOwned
<1>3. \A t \in Threads : \A i \in 1..Len(queue'[t]) : ThreadOf[queue'[t][i]] = t
  BY <1>1, RemoveRowFiled DEF Finish
<1>4. \A t \in Threads : slot'[t] = IF t = ThreadOf[a] THEN None ELSE slot[t]
  BY <1>1, <1>2 DEF Finish, TypeOK
<1>5. paused' = paused /\ paused \subseteq Threads  BY <1>1 DEF Finish, TypeOK
<1> QED  BY <1>1, <1>2, <1>3, <1>4, <1>5 DEF BrokerFiled

LEMMA FiledStep == Ownership /\ TypeOK' /\ [Next]_vars => FiledByOwner'
<1> SUFFICES ASSUME Ownership, TypeOK', [Next]_vars PROVE BrokerFiled' /\ TablesFiled'
  BY FiledParts DEF FiledByOwner, BrokerFiled, TablesFiled
<1> DEFINE Goal == BrokerFiled' /\ TablesFiled'
<1> USE DEF dbVars, brokerVars, tableVars, envVars
<1>t. TypeOK /\ BrokerFiled /\ TablesFiled  BY FiledParts DEF Ownership
<1>h. ASSUME NEW a \in Actions, NEW o \in HolderOps, Call(o, a) \in calls
      PROVE  Holds(a) # {}
  BY <1>t, <1>h, HoldsMember
<1>b. ASSUME UNCHANGED <<queue, slot, paused>> PROVE BrokerFiled'
  BY <1>t, <1>b DEF BrokerFiled
<1>u. ASSUME UNCHANGED <<outstandingAccounts, outstandingBuddies>> PROVE TablesFiled'
  BY <1>t, <1>u DEF TablesFiled, AccountFor
<1>1. ASSUME NEW a \in Actions, HandleOffline(a) PROVE Goal
  BY <1>1, <1>b, <1>u DEF HandleOffline
<1>2. ASSUME NEW a \in Actions, SendPlain(a) PROVE Goal
  BY <1>2, <1>b, <1>u DEF SendPlain
<1>3. ASSUME NEW a \in Actions, SendGroup(a) PROVE Goal
  BY <1>3, <1>b, <1>u DEF SendGroup
<1>4. ASSUME NEW a \in Actions, SendOMEMO(a) PROVE Goal
  BY <1>4, <1>b, <1>u DEF SendOMEMO
<1>5. ASSUME NEW a \in Actions, SendEncoded(a) PROVE Goal
  BY <1>5, <1>b, <1>u DEF SendEncoded
<1>6. ASSUME NEW a \in Actions, RequestSession(a) PROVE Goal
  BY <1>6, <1>b, <1>u DEF RequestSession
<1>7. ASSUME NEW a \in Actions, Connect(a) PROVE Goal
  BY <1>7, <1>b, <1>u DEF Connect
<1>8. ASSUME NEW a \in Actions, MarkPending(a) PROVE Goal
  BY <1>8, <1>b, <1>u DEF MarkPending
<1>9. ASSUME NEW a \in Actions, Write(a) PROVE Goal
  BY <1>9, <1>b, <1>u DEF Write
<1>10. ASSUME NEW a \in Actions, WriteFails(a) PROVE Goal
  BY <1>10, <1>b, <1>u DEF WriteFails
<1>11. ASSUME NEW a \in Actions, WriteForgotten(a) PROVE Goal
  BY <1>11, <1>b, <1>u DEF WriteForgotten
<1>12. ASSUME NEW a \in Actions, Encoded(a) PROVE Goal
  BY <1>12, <1>b, <1>u DEF Encoded
<1>13. ASSUME NEW a \in Actions, OmemoEncrypted(a) PROVE Goal
  BY <1>13, <1>b, <1>u DEF OmemoEncrypted
<1>14. ASSUME NEW t \in Threads, JoinRoom(t) PROVE Goal
  BY <1>14, <1>b, <1>u DEF JoinRoom
<1>15. ASSUME NEW t \in Threads, GoneSecure(t) PROVE Goal
  BY <1>15, <1>b, <1>u DEF GoneSecure
<1>16. ASSUME NEW t \in Threads, SessionEnds(t) PROVE Goal
  BY <1>16, <1>b, <1>u DEF SessionEnds
<1>17. ASSUME NEW c \in Accounts, Reconnect(c) PROVE Goal
  BY <1>17, <1>b, <1>u DEF Reconnect
<1>18. ASSUME NEW c \in Accounts, DidAuthenticate(c) PROVE Goal
  BY <1>18, <1>b, <1>u DEF DidAuthenticate
<1>19. ASSUME NEW c \in Accounts, DidDisconnect(c) \/ StatusFalls(c) PROVE Goal
  BY <1>19, <1>b, <1>u DEF DidDisconnect, StatusFalls
<1>20. ASSUME NEW a \in Actions, HandleMissing(a) PROVE Goal
  <2>1. Holds(a) # {}  BY <1>20, <1>h DEF HandleMissing, Handling, Sendable, HolderOps
  <2> QED  BY <1>20, <1>u, <2>1, FinishFiled DEF HandleMissing
<1>21. ASSUME NEW a \in Actions, AddBuddyToRoster(a) PROVE Goal
  <2>1. Holds(a) # {}  BY <1>21, <1>h DEF AddBuddyToRoster, Handling, Sendable, HolderOps
  <2> QED  BY <1>21, <1>u, <2>1, FinishFiled DEF AddBuddyToRoster
<1>22. ASSUME NEW a \in Actions, SendGroupNowhere(a) PROVE Goal
  <2>1. Holds(a) # {}  BY <1>22, <1>h DEF SendGroupNowhere, Handling, Sendable, HolderOps
  <2> QED  BY <1>22, <1>u, <2>1, FinishFiled DEF SendGroupNowhere
<1>23. ASSUME NEW a \in Actions, Resend(a) PROVE Goal
  <2>1. Holds(a) # {}  BY <1>23, <1>h DEF Resend, HolderOps
  <2> QED  BY <1>23, <1>b, <1>u, <2>1, FinishFiled DEF Resend
<1>24. ASSUME NEW a \in Actions, DidSendMessage(a) PROVE Goal
  <2>1. Holds(a) # {}  BY <1>24, <1>h DEF DidSendMessage, HolderOps
  <2>2. Finish(a) \/ UNCHANGED <<queue, slot, paused>>  BY <1>24 DEF DidSendMessage, PopMessage
  <2>3. UNCHANGED <<outstandingAccounts, outstandingBuddies>>  BY <1>24 DEF DidSendMessage
  <2> QED  BY <1>b, <1>u, <2>1, <2>2, <2>3, FinishFiled
<1>25. ASSUME NEW a \in Actions, DidFailToSendMessage(a) PROVE Goal
  <2>1. Holds(a) # {}  BY <1>25, <1>h DEF DidFailToSendMessage, HolderOps
  <2>2. Finish(a) \/ UNCHANGED <<queue, slot, paused>>  BY <1>25 DEF DidFailToSendMessage, PopMessage
  <2>3. UNCHANGED <<outstandingAccounts, outstandingBuddies>>  BY <1>25 DEF DidFailToSendMessage
  <2> QED  BY <1>b, <1>u, <2>1, <2>2, <2>3, FinishFiled
<1>26. ASSUME NEW a \in Actions, OmemoFails(a) PROVE Goal
  <2>1. Holds(a) # {}  BY <1>26, <1>h DEF OmemoFails, HolderOps
  <2>2. Finish(a) \/ UNCHANGED <<queue, slot, paused>>  BY <1>26 DEF OmemoFails, PopMessage
  <2>3. UNCHANGED <<outstandingAccounts, outstandingBuddies>>  BY <1>26 DEF OmemoFails
  <2> QED  BY <1>b, <1>u, <2>1, <2>2, <2>3, FinishFiled
<1>27. ASSUME NEW a \in Actions, EncodeFails(a) PROVE Goal
  <2>1. RemoveRow(a) \/ UNCHANGED queue  BY <1>27 DEF EncodeFails
  <2>2. UNCHANGED <<slot, paused, outstandingAccounts, outstandingBuddies>>
    BY <1>27 DEF EncodeFails
  <2> QED  BY <1>t, <1>u, <2>1, <2>2, RemoveRowFiled DEF BrokerFiled
<1>28. ASSUME NEW a \in Actions, Delete(a) PROVE Goal
  <2>1. RemoveRow(a)  BY <1>28 DEF Delete
  <2>2. UNCHANGED <<slot, paused, outstandingAccounts, outstandingBuddies>>
    BY <1>28 DEF Delete
  <2> QED  BY <1>t, <1>u, <2>1, <2>2, RemoveRowFiled DEF BrokerFiled
<1>29. ASSUME NEW a \in Actions, HandleManual(a) PROVE Goal
  <2>1. Holds(a) # {}  BY <1>29, <1>h DEF HandleManual, Handling, Sendable, HolderOps
  <2>2. slot[ThreadOf[a]] = a  BY <2>1 DEF Ownership, CompletionOwned
  <2> QED
    BY <1>29, <1>t, <1>u, <2>2, ConstantsAssumption DEF HandleManual, BrokerFiled
<1>30. ASSUME NEW a \in Actions, Enqueue(a) PROVE Goal
  <2>1. ThreadOf[a] \in Threads  BY ConstantsAssumption
  <2>2. ASSUME NEW t \in Threads, NEW i \in 1..Len(queue'[t])
        PROVE  ThreadOf[queue'[t][i]] = t
    <3>1. queue[t] \in Seq(Actions)  BY <1>t DEF TypeOK
    <3>2. CASE t = ThreadOf[a]
      <4>1. queue'[t] = Append(queue[t], a)  BY <1>30, <1>t, <3>2 DEF Enqueue, TypeOK
      <4>2. Len(queue[t]) \in Nat /\ Len(queue'[t]) = Len(queue[t]) + 1
        BY <3>1, <4>1, AppendProperties
      <4>3. i \in 1..Len(queue[t]) \/ i = Len(queue[t]) + 1  BY <4>2
      <4>4. queue'[t][i] = a \/ (i \in 1..Len(queue[t]) /\ queue'[t][i] = queue[t][i])
        BY <3>1, <4>1, <4>3, AppendProperties
      <4> QED  BY <1>t, <3>2, <4>4 DEF BrokerFiled
    <3>3. CASE t # ThreadOf[a]
      <4>1. queue'[t] = queue[t]  BY <1>30, <1>t, <3>3 DEF Enqueue, TypeOK
      <4> QED  BY <1>t, <4>1 DEF BrokerFiled
    <3> QED  BY <3>2, <3>3
  <2> QED  BY <1>30, <1>t, <1>u, <2>2 DEF Enqueue, BrokerFiled
<1>31. ASSUME NEW t \in Threads, HandNext(t) PROVE Goal
  <2>1. queue[t] \in Seq(Actions) /\ queue[t] # <<>>  BY <1>31, <1>t DEF HandNext, TypeOK
  <2>2. 1 \in 1..Len(queue[t]) /\ Head(queue[t]) = queue[t][1] /\ queue[t][1] \in Actions
    BY <2>1, EmptySeq, ElementOfSeq
  <2>3. ThreadOf[Head(queue[t])] = t /\ Head(queue[t]) # None
    BY <1>t, <2>2, ConstantsAssumption DEF BrokerFiled
  <2>4. \A u \in Threads : slot'[u] = IF u = t THEN Head(queue[t]) ELSE slot[u]
    BY <1>31, <1>t DEF HandNext, TypeOK
  <2>5. queue' = queue /\ paused' = paused /\ paused \subseteq Threads
    BY <1>31, <1>t DEF HandNext, TypeOK
  <2> QED  BY <1>31, <1>t, <1>u, <2>3, <2>4, <2>5 DEF HandNext, BrokerFiled
<1>32. ASSUME NEW t \in Threads, RetryFires(t) PROVE Goal
  BY <1>32, <1>t, <1>u DEF RetryFires, BrokerFiled
<1>33. ASSUME NEW a \in Actions, WaitForAccount(a) PROVE Goal
  <2>1. AccountFor(a) \in Accounts  BY ConstantsAssumption DEF AccountFor
  <2>2. \A c \in Accounts : outstandingAccounts'[c] =
           IF c = AccountFor(a) THEN outstandingAccounts[c] \cup {a} ELSE outstandingAccounts[c]
    BY <1>33, <1>t, <2>1 DEF WaitForAccount, TypeOK
  <2> QED  BY <1>33, <1>t, <1>b, <2>2 DEF WaitForAccount, TablesFiled, AccountFor
<1>34. ASSUME NEW a \in Actions, InitiateEncryption(a) PROVE Goal
  <2>1. \A t \in Threads : outstandingBuddies'[t] =
           IF t = ThreadOf[a] THEN a ELSE outstandingBuddies[t]
    BY <1>34, <1>t DEF InitiateEncryption, TypeOK
  <2> QED  BY <1>34, <1>t, <1>b, <2>1 DEF InitiateEncryption, TablesFiled, AccountFor
<1>35. ASSUME NEW t \in Threads, DeliverEncrypted(t) PROVE Goal
  <2>1. \A u \in Threads : outstandingBuddies'[u] =
           IF u = t THEN None ELSE outstandingBuddies[u]
    BY <1>35, <1>t DEF DeliverEncrypted, TypeOK
  <2> QED  BY <1>35, <1>t, <1>b, <2>1 DEF DeliverEncrypted, TablesFiled, AccountFor
<1>36. ASSUME NEW c \in Accounts, DeliverLogin(c) PROVE Goal
  <2>1. \A d \in Accounts : outstandingAccounts'[d] =
           IF d = c THEN {} ELSE outstandingAccounts[d]
    BY <1>36, <1>t DEF DeliverLogin, TypeOK
  <2> QED  BY <1>36, <1>t, <1>b, <2>1 DEF DeliverLogin, TablesFiled, AccountFor
<1>37. ASSUME NEW a \in Actions, OtrTimeout(a) PROVE Goal
  <2>1. ThreadOf[a] \in Threads  BY ConstantsAssumption
  <2>2. \A u \in Threads : outstandingBuddies'[u] =
           IF u = ThreadOf[a] THEN None ELSE outstandingBuddies[u]
    BY <1>37, <1>t, <2>1 DEF OtrTimeout, TypeOK
  <2>3. TablesFiled'
    BY <1>37, <1>t, <2>2 DEF OtrTimeout, TablesFiled, AccountFor
  <2>4. CASE outstandingBuddies[ThreadOf[a]] = None
    BY <1>37, <1>b, <2>3, <2>4 DEF OtrTimeout
  <2>5. CASE outstandingBuddies[ThreadOf[a]] # None
    <3>1. PICK b \in Actions : b = outstandingBuddies[ThreadOf[a]] /\ Finish(b)
      BY <1>37, <1>t, <2>1, <2>5 DEF OtrTimeout, TypeOK
    <3>2. outstandingBuddies[ThreadOf[b]] = b
      BY <1>t, <2>1, <2>5, <3>1 DEF TablesFiled
    <3>3. Holds(b) # {}  BY <1>t, <3>2, HoldsMember
    <3> QED  BY <2>3, <3>1, <3>3, FinishFiled
  <2> QED  BY <2>4, <2>5
<1>38. CASE Restart
  <2>1. \A t \in Threads : slot'[t] = None /\ outstandingBuddies'[t] = None
    BY <1>38 DEF Restart
  <2>2. \A c \in Accounts : outstandingAccounts'[c] = {}  BY <1>38 DEF Restart
  <2>3. queue' = queue /\ paused' = {}  BY <1>38 DEF Restart
  <2> QED  BY <1>t, <2>1, <2>2, <2>3 DEF BrokerFiled, TablesFiled
<1>39. CASE UNCHANGED vars  BY <1>39, <1>b, <1>u DEF vars
<1>40. ASSUME NEW a \in Actions, HandleUnsupported(a) \/ SendOTRWithoutText(a) PROVE Goal
  <2>1. /\ Call("handle", a) \in calls /\ Finish(a)
        /\ UNCHANGED <<outstandingAccounts, outstandingBuddies>>
    BY <1>40 DEF HandleUnsupported, SendOTRWithoutText, Handling, Sendable
  <2>2. Holds(a) # {}  BY <2>1, <1>h DEF HolderOps
  <2> QED  BY <1>u, <2>1, <2>2, FinishFiled
<1>41. ASSUME NEW a \in Actions, SendGroupUnsupported(a) PROVE Goal
  BY <1>41, <1>b, <1>u DEF SendGroupUnsupported
<1>42. ASSUME NEW a \in Actions, OmemoWithoutText(a) \/ OmemoUnavailable(a) PROVE Goal
  <2>1. /\ Call("handle", a) \in calls /\ Finish(a)
        /\ UNCHANGED <<outstandingAccounts, outstandingBuddies>>
    BY <1>42 DEF OmemoWithoutText, OmemoUnavailable, OmemoGivesUp, Handling, Sendable
  <2>2. Holds(a) # {}  BY <2>1, <1>h DEF HolderOps
  <2> QED  BY <1>u, <2>1, <2>2, FinishFiled
<1>43. ASSUME NEW a \in Actions, SaveOmemoError(a) PROVE Goal
  BY <1>43, <1>b, <1>u DEF SaveOmemoError
<1>44. ASSUME NEW a \in Actions, EncodedToNothing(a) \/ OmemoUnanswered(a) PROVE Goal
  BY <1>44, <1>b, <1>u DEF EncodedToNothing, OmemoUnanswered
<1>45. ASSUME NEW a \in Actions, Orphan(a) PROVE Goal
  BY <1>45, <1>b, <1>u DEF Orphan
<1> QED
  BY <1>40, <1>41, <1>42, <1>43, <1>44, <1>45, <1>1, <1>2, <1>3, <1>4, <1>5, <1>6, <1>7, <1>8, <1>9, <1>10, <1>11, <1>12, <1>13, <1>14, <1>15, <1>16, <1>17, <1>18, <1>19, <1>20, <1>21, <1>22, <1>23, <1>24, <1>25, <1>26, <1>27, <1>28, <1>29, <1>30, <1>31, <1>32, <1>33, <1>34, <1>35, <1>36, <1>37, <1>38, <1>39
  DEF Next, Broker, Handle, Callback, Encryption, Notification, Environment

-----------------------------------------------------------------------------
(* Theorems.                                                               *)

LEMMA OwnershipInit == Init => Ownership
<1> SUFFICES ASSUME Init PROVE Ownership
  OBVIOUS
<1>1. TypeOK
  BY EmptySeq DEF Init, TypeOK, RowStates, Flaws, Results, LoginStates
<1>2. FiledByOwner
  <2>1. \A t \in Threads : Len(queue[t]) = 0 /\ slot[t] = None /\ outstandingBuddies[t] = None
    BY EmptySeq DEF Init
  <2> QED  BY <2>1 DEF Init, FiledByOwner
<1>3. \A a \in Actions : Holds(a) = {}
  <2> SUFFICES ASSUME NEW a \in Actions, NEW p \in Holds(a) PROVE FALSE
    OBVIOUS
  <2>1. ThreadOf[a] \in Threads /\ AccountFor(a) \in Accounts /\ a # None
    BY ConstantsAssumption DEF AccountFor
  <2>2. p \in Holds(a)  OBVIOUS
  <2> QED  BY <1>1, <2>1, <2>2, HoldsMember DEF Init
<1> QED  BY <1>1, <1>2, <1>3 DEF Ownership, CompletionOwned, SingleHolder

LEMMA OwnershipStep == Ownership /\ [Next]_vars => Ownership'
<1> SUFFICES ASSUME Ownership, [Next]_vars PROVE Ownership'
  OBVIOUS
<1>1. TypeOK'  BY TypeStep DEF Ownership
<1>2. FiledByOwner'  BY <1>1, FiledStep
<1>3. CompletionOwned' /\ SingleHolder'  BY <1>1, OwnedStep
<1> QED  BY <1>1, <1>2, <1>3 DEF Ownership

(* The four parts are inductive together and hold in every reachable state *)
(* of every instance.                                                      *)
THEOREM OwnershipHolds == Spec => []Ownership
<1>1. Init => Ownership  BY OwnershipInit
<1>2. Ownership /\ [Next]_vars => Ownership'  BY OwnershipStep
<1> QED  BY <1>1, <1>2, PTL DEF Spec

(* The type invariant.                                                     *)
THEOREM TypeCorrect == Spec => []TypeOK
<1>1. Ownership => TypeOK  BY DEF Ownership
<1> QED  BY <1>1, OwnershipHolds, PTL

(* Queues, slots and tables are filed under their owners.                  *)
THEOREM FiledCorrect == Spec => []FiledByOwner
<1>1. Ownership => FiledByOwner  BY DEF Ownership
<1> QED  BY <1>1, OwnershipHolds, PTL

(* Whoever still keeps a completion keeps it for the action in process.    *)
THEOREM CompletionIsOwned == Spec => []CompletionOwned
<1>1. Ownership => CompletionOwned  BY DEF Ownership
<1> QED  BY <1>1, OwnershipHolds, PTL

(* No completion is kept twice, so none is called twice.                   *)
THEOREM HolderIsSingle == Spec => []SingleHolder
<1>1. Ownership => SingleHolder  BY DEF Ownership
<1> QED  BY <1>1, OwnershipHolds, PTL

=============================================================================
