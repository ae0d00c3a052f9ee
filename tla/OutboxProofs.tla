---------------------------- MODULE OutboxProofs ----------------------------
(***************************************************************************)
(* The outgoing message queue keeps the promise of the outbox: no stanza   *)
(* is written twice while the process runs, and every step of the handler  *)
(* is a step of Outbox or leaves what Outbox speaks of alone.              *)
(***************************************************************************)
EXTENDS MessageQueueProofs

Written(a) == Contains(wire[ThreadOf[a]], a)

(* A queue holds an action once.                                           *)
RowsOnce ==
    \A t \in Threads : \A i, j \in 1..Len(queue[t]) :
        queue[t][i] = queue[t][j] => i = j

(* A message that was not saved is neither queued nor taken nor written.   *)
NewIsUnknown ==
    \A a \in Actions : saved[a] = "new" =>
        ~HasRow(a) /\ slot[ThreadOf[a]] # a /\ ~Written(a)

(* A written action whose turn is over has left the queue, so that it is   *)
(* not taken again.                                                        *)
DoneIsGone ==
    \A a \in Actions : Written(a) /\ slot[ThreadOf[a]] # a => ~HasRow(a)

(* The broker tries again only what was not written.                       *)
RetryIsUnwritten ==
    \A t \in paused : ~Written(slot[t])

WireInv ==
    /\ RowsOnce
    /\ NewIsUnknown
    /\ DoneIsGone
    /\ RetryIsUnwritten
    /\ WrittenOnce

-----------------------------------------------------------------------------
(* Sequences.                                                              *)

LEMMA WithoutOnce ==
    ASSUME NEW S, NEW s \in Seq(S), NEW a,
           \A i, j \in 1..Len(s) : s[i] = s[j] => i = j
    PROVE  LET w == Without(s, a)
           IN  /\ \A i, j \in 1..Len(w) : w[i] = w[j] => i = j
               /\ \A i \in 1..Len(w) : w[i] # a
<1>1. CASE \E i \in 1..Len(s) : s[i] = a
  <2> DEFINE w == Without(s, a)
  <2>1. Len(s) \in Nat /\ Len(w) = Len(s) - 1
    BY <1>1, WithoutByIndex
  <2>2. PICK k \in 1..Len(s) :
           /\ s[k] = a
           /\ \A i \in 1..(Len(s) - 1) : w[i] = IF i < k THEN s[i] ELSE s[i + 1]
    BY <1>1, WithoutByIndex
  <2> HIDE DEF w
  <2>3. ASSUME NEW i \in 1..Len(w)
        PROVE  \E m \in 1..Len(s) : w[i] = s[m] /\ m # k /\ m = IF i < k THEN i ELSE i + 1
    <3>1. i \in 1..Len(s) /\ i + 1 \in 1..Len(s) /\ i \in 1..(Len(s) - 1)  BY <2>1
    <3>2. CASE i < k  BY <2>2, <3>1, <3>2
    <3>3. CASE ~(i < k)
      <4>1. i + 1 # k  BY <2>1, <2>2, <3>3
      <4> QED  BY <2>2, <3>1, <3>3, <4>1
    <3> QED  BY <3>2, <3>3
  <2>4. ASSUME NEW i \in 1..Len(w), NEW j \in 1..Len(w), w[i] = w[j]
        PROVE  i = j
    <3>1. PICK m \in 1..Len(s) : w[i] = s[m] /\ m = IF i < k THEN i ELSE i + 1
      BY <2>3
    <3>2. PICK n \in 1..Len(s) : w[j] = s[n] /\ n = IF j < k THEN j ELSE j + 1
      BY <2>3
    <3>3. m = n  BY <2>4, <3>1, <3>2
    <3> QED  BY <2>1, <3>1, <3>2, <3>3
  <2>5. ASSUME NEW i \in 1..Len(w) PROVE w[i] # a
    BY <2>2, <2>3
  <2> QED  BY <2>4, <2>5 DEF w
<1>2. CASE ~(\E i \in 1..Len(s) : s[i] = a)  BY <1>2 DEF Without
<1> QED  BY <1>1, <1>2

LEMMA AppendContains ==
    ASSUME NEW S, NEW s \in Seq(S), NEW a \in S, NEW b
    PROVE  Contains(Append(s, a), b) <=> Contains(s, b) \/ a = b
<1>1. /\ Len(s) \in Nat /\ Len(Append(s, a)) = Len(s) + 1
      /\ Append(s, a)[Len(s) + 1] = a
      /\ \A i \in 1..Len(s) : Append(s, a)[i] = s[i]
  BY AppendProperties
<1>2. \A i \in 1..(Len(s) + 1) : i \in 1..Len(s) \/ i = Len(s) + 1
  BY <1>1
<1>3. Len(s) + 1 \in 1..(Len(s) + 1) /\ 1..Len(s) \subseteq 1..(Len(s) + 1)
  BY <1>1
<1> QED  BY <1>1, <1>2, <1>3 DEF Contains

LEMMA AppendOnce ==
    ASSUME NEW S, NEW s \in Seq(S), NEW a \in S, ~Contains(s, a),
           \A i, j \in 1..Len(s) : s[i] = s[j] => i = j
    PROVE  LET w == Append(s, a)
           IN  \A i, j \in 1..Len(w) : w[i] = w[j] => i = j
<1> DEFINE w == Append(s, a)
<1>1. /\ Len(s) \in Nat /\ Len(w) = Len(s) + 1
      /\ w[Len(s) + 1] = a
      /\ \A i \in 1..Len(s) : w[i] = s[i]
  BY AppendProperties
<1> HIDE DEF w
<1>2. \A i \in 1..Len(w) : i \in 1..Len(s) \/ i = Len(s) + 1
  BY <1>1
<1>3. \A i \in 1..Len(s) : w[i] # a
  BY <1>1 DEF Contains
<1>4. \A i, j \in 1..Len(w) : w[i] = w[j] => i = j
  BY <1>1, <1>2, <1>3
<1> QED  BY <1>4 DEF w

-----------------------------------------------------------------------------
(* What Outbox can see of a step.  A completion that is used is held.      *)
Submits ==
    \E a \in Actions : /\ saved[a] = "new" /\ saved'[a] = "saved"
                       /\ queue' = [queue EXCEPT ![ThreadOf[a]] = Append(@, a)]
                       /\ UNCHANGED <<slot, paused, wire>>
Takes     == \E t \in Threads : HandNext(t)
Sends     == \E a \in Actions : Write(a)
Finishes  == \E a \in Actions : Holds(a) # {} /\ Finish(a) /\ UNCHANGED wire
Withdraws == \E a \in Actions : RemoveRow(a) /\ UNCHANGED <<slot, paused, wire>>
Pauses    == \E a \in Actions : /\ "handle" \in Holds(a)
                                /\ paused' = paused \cup {ThreadOf[a]}
                                /\ UNCHANGED <<queue, slot, wire>>
Waits     == UNCHANGED <<queue, slot, wire>> /\ paused' \subseteq paused

LEMMA StepShapes ==
    ASSUME Ownership, [Next]_vars
    PROVE  \/ Submits \/ Takes \/ Sends \/ Finishes \/ Withdraws \/ Pauses \/ Waits
           \/ Restart
<1> DEFINE Goal == \/ Submits \/ Takes \/ Sends \/ Finishes \/ Withdraws \/ Pauses
                   \/ Waits \/ Restart
<1> USE DEF dbVars, brokerVars, tableVars, envVars
<1>t. TypeOK  BY DEF Ownership
<1>h. ASSUME NEW a \in Actions, NEW o \in HolderOps, Call(o, a) \in calls
      PROVE  o \in Holds(a)
  BY <1>t, <1>h, HoldsMember
<1>w. ASSUME UNCHANGED <<queue, slot, paused, wire>> PROVE Goal
  BY <1>w DEF Waits
<1>f. ASSUME NEW a \in Actions, NEW o \in HolderOps, Call(o, a) \in calls,
             Finish(a) \/ UNCHANGED <<queue, slot, paused>>, UNCHANGED wire
      PROVE  Goal
  BY <1>f, <1>h, <1>w DEF Finishes
<1>o. {"handle", "resend", "didSend", "didFail", "omemo"} \subseteq HolderOps
  BY DEF HolderOps
<1>1. ASSUME NEW a \in Actions,
             \/ HandleOffline(a) \/ SendPlain(a) \/ SendGroup(a) \/ SendOMEMO(a)
             \/ SendEncoded(a) \/ RequestSession(a)
      PROVE  Goal
  BY <1>1, <1>w DEF HandleOffline, SendPlain, SendGroup, SendOMEMO, SendEncoded, RequestSession
<1>2. ASSUME NEW a \in Actions,
             \/ HandleMissing(a) \/ AddBuddyToRoster(a) \/ SendGroupNowhere(a)
             \/ HandleUnsupported(a) \/ SendOTRWithoutText(a)
             \/ OmemoWithoutText(a) \/ OmemoUnavailable(a)
      PROVE  Goal
  BY <1>2, <1>f, <1>o DEF HandleMissing, AddBuddyToRoster, SendGroupNowhere, HandleUnsupported,
     SendOTRWithoutText, OmemoWithoutText, OmemoUnavailable, OmemoGivesUp, Handling, Sendable
<1>3. ASSUME NEW a \in Actions, HandleManual(a) PROVE Goal
  BY <1>3, <1>h, <1>o DEF HandleManual, Handling, Pauses
<1>4. ASSUME NEW a \in Actions,
             \/ WaitForAccount(a) \/ Connect(a) \/ MarkPending(a)
             \/ InitiateEncryption(a) \/ WriteFails(a) \/ WriteForgotten(a)
             \/ Encoded(a) \/ OmemoEncrypted(a) \/ SendGroupUnsupported(a)
             \/ SaveOmemoError(a) \/ EncodedToNothing(a) \/ OmemoUnanswered(a) \/ Orphan(a)
      PROVE  Goal
  BY <1>4, <1>w DEF WaitForAccount, Connect, MarkPending, InitiateEncryption, WriteFails,
     WriteForgotten, Encoded, OmemoEncrypted, SendGroupUnsupported, SaveOmemoError,
     EncodedToNothing, OmemoUnanswered, Orphan
<1>5. ASSUME NEW a \in Actions, Resend(a) PROVE Goal
  BY <1>5, <1>f, <1>o DEF Resend
<1>6. ASSUME NEW a \in Actions, OtrTimeout(a) PROVE Goal
  <2>1. CASE outstandingBuddies[ThreadOf[a]] = None
    BY <1>6, <1>w, <2>1 DEF OtrTimeout
  <2>2. CASE outstandingBuddies[ThreadOf[a]] # None
    <3>1. ThreadOf[a] \in Threads  BY ConstantsAssumption
    <3>2. PICK b \in Actions : b = outstandingBuddies[ThreadOf[a]] /\ Finish(b)
      BY <1>6, <1>t, <2>2, <3>1 DEF OtrTimeout, TypeOK
    <3>3. outstandingBuddies[ThreadOf[b]] = b
      BY <2>2, <3>1, <3>2 DEF Ownership, FiledByOwner
    <3>4. "buddy" \in Holds(b)  BY <1>t, <3>3, HoldsMember
    <3> QED  BY <1>6, <3>2, <3>4 DEF OtrTimeout, Finishes
  <2> QED  BY <2>1, <2>2
<1>7. ASSUME NEW a \in Actions, Write(a) PROVE Goal
  BY <1>7 DEF Sends
<1>8. ASSUME NEW a \in Actions, DidSendMessage(a) PROVE Goal
  BY <1>8, <1>f, <1>o DEF DidSendMessage, PopMessage
<1>9. ASSUME NEW a \in Actions, DidFailToSendMessage(a) PROVE Goal
  BY <1>9, <1>f, <1>o DEF DidFailToSendMessage, PopMessage
<1>10. ASSUME NEW a \in Actions, OmemoFails(a) PROVE Goal
  BY <1>10, <1>f, <1>o DEF OmemoFails, PopMessage
<1>11. ASSUME NEW a \in Actions, EncodeFails(a) PROVE Goal
  BY <1>11, <1>w DEF EncodeFails, Withdraws
<1>12. ASSUME NEW a \in Actions, Enqueue(a) PROVE Goal
  <2>1. saved'[a] = "saved"  BY <1>12, <1>t DEF Enqueue, TypeOK
  <2> QED  BY <1>12, <2>1 DEF Enqueue, Submits
<1>13. ASSUME NEW a \in Actions, Delete(a) PROVE Goal
  BY <1>13 DEF Delete, Withdraws
<1>14. ASSUME NEW t \in Threads, HandNext(t) PROVE Goal
  BY <1>14 DEF Takes
<1>15. ASSUME NEW t \in Threads, RetryFires(t) PROVE Goal
  BY <1>15 DEF RetryFires, Waits
<1>16. ASSUME NEW t \in Threads,
              DeliverEncrypted(t) \/ JoinRoom(t) \/ GoneSecure(t) \/ SessionEnds(t)
       PROVE  Goal
  BY <1>16, <1>w DEF DeliverEncrypted, JoinRoom, GoneSecure, SessionEnds
<1>17. ASSUME NEW c \in Accounts,
              DeliverLogin(c) \/ Reconnect(c) \/ DidAuthenticate(c) \/ DidDisconnect(c) \/ StatusFalls(c)
       PROVE  Goal
  BY <1>17, <1>w DEF DeliverLogin, Reconnect, DidAuthenticate, DidDisconnect, StatusFalls
<1>18. CASE UNCHANGED vars  BY <1>18, <1>w DEF vars
<1> QED
  BY <1>1, <1>2, <1>3, <1>4, <1>5, <1>6, <1>7, <1>8, <1>9, <1>10, <1>11, <1>12, <1>13,
     <1>14, <1>15, <1>16, <1>17, <1>18
  DEF Next, Broker, Handle, Callback, Encryption, Notification, Environment

(* No step makes a message unsaved again.                                  *)
LEMMA StaysSaved ==
    ASSUME TypeOK, [Next]_vars, NEW a \in Actions, saved'[a] = "new"
    PROVE  saved[a] = "new"
<1> USE DEF dbVars, TypeOK
<1>1. ASSUME NEW b \in Actions, Enqueue(b) \/ Delete(b) \/ Encoded(b) PROVE saved[a] = "new"
  BY <1>1 DEF Enqueue, Delete, Encoded
<1>2. CASE UNCHANGED saved  BY <1>2
<1>3. (\E b \in Actions : Enqueue(b) \/ Delete(b) \/ Encoded(b)) \/ UNCHANGED saved
  BY ZenonT(60) DEF Next, Broker, Handle, Callback, Encryption, Notification, Environment, vars,
     HandNext, RetryFires, HandleMissing, HandleOffline, HandleManual, AddBuddyToRoster,
     SendPlain, SendGroupNowhere, SendGroup, SendOMEMO, SendEncoded, RequestSession,
     WaitForAccount, Connect, MarkPending, InitiateEncryption, Resend, OtrTimeout, Write,
     WriteFails, WriteForgotten, DidSendMessage, DidFailToSendMessage, EncodeFails,
     OmemoEncrypted, OmemoFails, HandleUnsupported, SendOTRWithoutText, SendGroupUnsupported,
     OmemoWithoutText, OmemoUnavailable, OmemoGivesUp, SaveOmemoError, EncodedToNothing,
     OmemoUnanswered, Orphan, DeliverLogin, DeliverEncrypted, Reconnect, DidAuthenticate, DidDisconnect, StatusFalls, JoinRoom, GoneSecure, SessionEnds,
     Restart
<1> QED  BY <1>1, <1>2, <1>3

(* What an action other than a gains in a step: nothing.                   *)
OthersGainNothing(a) ==
    \A d \in Actions \ {a} :
        /\ \A q \in HolderOps : Call(q, d) \in calls' => Call(q, d) \in calls
        /\ d \in outstandingAccounts'[AccountFor(d)] => d \in outstandingAccounts[AccountFor(d)]
        /\ outstandingBuddies'[ThreadOf[d]] = d => outstandingBuddies[ThreadOf[d]] = d

(* Who gets hold of a completion: an action that has its turn, one that is *)
(* tried again, or one that waited elsewhere than for the stream's answer. *)
LEMMA Gains ==
    ASSUME Ownership, TypeOK', [Next]_vars,
           NEW b \in Actions, NEW p \in Holds(b)', p \notin Holds(b)
    PROVE  \/ \E o \in Holds(b) : o # "didSend"
           \/ \E t \in Threads : HandNext(t) /\ b = Head(queue[t])
           \/ \E t \in Threads : RetryFires(t) /\ b = slot[t]
<1> DEFINE Goal == \/ \E o \in Holds(b) : o # "didSend"
                   \/ \E t \in Threads : HandNext(t) /\ b = Head(queue[t])
                   \/ \E t \in Threads : RetryFires(t) /\ b = slot[t]
<1> USE DEF dbVars, brokerVars, tableVars, envVars
<1>t. TypeOK  BY DEF Ownership
<1>n. ASSUME NEW a, OthersGainNothing(a) PROVE b = a
  BY <1>t, <1>n, HoldsMember, HoldsMemberNext DEF OthersGainNothing
<1>s. ASSUME UNCHANGED <<outstandingAccounts, outstandingBuddies>>,
             \A q \in HolderOps : Call(q, b) \in calls' => Call(q, b) \in calls
      PROVE  FALSE
  BY <1>t, <1>s, HoldsMember, HoldsMemberNext
<1>m. ASSUME NEW a \in Actions, NEW o \in HolderOps \ {"didSend"}, Call(o, a) \in calls,
             OthersGainNothing(a)
      PROVE  Goal
  <2>1. o \in Holds(a)  BY <1>t, <1>m, HoldsMember
  <2> QED  BY <1>m, <1>n, <2>1
<1>d. ASSUME NEW a \in Actions, NEW o, NEW q, Then(Call(o, a), Call(q, a)),
             UNCHANGED <<outstandingAccounts, outstandingBuddies>>
      PROVE  OthersGainNothing(a)
  BY <1>d, CallInjective DEF Then, OthersGainNothing
<1>o. {"handle", "register", "resend", "otrStart", "encode", "omemo", "stream"}
         \subseteq HolderOps \ {"didSend"}
  BY DEF HolderOps
<1>1. ASSUME NEW a \in Actions,
             \/ HandleOffline(a) \/ SendPlain(a) \/ SendOMEMO(a)
             \/ SendEncoded(a) \/ RequestSession(a)
      PROVE  Goal
  <2>1. /\ Call("handle", a) \in calls
        /\ \E q : Then(Call("handle", a), Call(q, a))
        /\ UNCHANGED <<outstandingAccounts, outstandingBuddies>>
    BY <1>1 DEF HandleOffline, SendPlain, SendOMEMO, SendEncoded, RequestSession, Handling,
       Sendable
  <2> QED  BY <2>1, <1>d, <1>m, <1>o
<1>2. ASSUME NEW a \in Actions, SendGroup(a) PROVE Goal
  <2> DEFINE q == IF KindOf[a] = "groupOmemo" THEN "omemo" ELSE "stream"
  <2>1. /\ Call("handle", a) \in calls
        /\ calls' = (calls \ {Call("handle", a)}) \cup {Call(q, a), Call("markPending", a)}
        /\ UNCHANGED <<outstandingAccounts, outstandingBuddies>>
    BY <1>2 DEF SendGroup, Handling, Sendable
  <2> HIDE DEF q
  <2>2. OthersGainNothing(a)  BY <2>1, CallInjective DEF OthersGainNothing
  <2> QED  BY <2>1, <2>2, <1>m, <1>o
<1>3. ASSUME NEW a \in Actions, WaitForAccount(a) PROVE Goal
  <2>1. \A d \in Actions : AccountFor(d) \in Accounts  BY ConstantsAssumption DEF AccountFor
  <2>2. \A d \in Actions \ {a} :
           d \in outstandingAccounts'[AccountFor(d)] => d \in outstandingAccounts[AccountFor(d)]
    BY <1>3, <1>t, <2>1 DEF WaitForAccount, TypeOK
  <2>3. OthersGainNothing(a)
    BY <1>3, <2>2, CallInjective DEF WaitForAccount, Then, OthersGainNothing
  <2> QED  BY <1>3, <2>3, <1>m, <1>o DEF WaitForAccount
<1>4. ASSUME NEW a \in Actions, InitiateEncryption(a) PROVE Goal
  <2>1. \A d \in Actions : ThreadOf[d] \in Threads  BY ConstantsAssumption
  <2>2. \A d \in Actions \ {a} :
           outstandingBuddies'[ThreadOf[d]] = d => outstandingBuddies[ThreadOf[d]] = d
    BY <1>4, <1>t, <2>1 DEF InitiateEncryption, TypeOK
  <2>3. OthersGainNothing(a)
    BY <1>4, <2>2 DEF InitiateEncryption, Done, OthersGainNothing
  <2> QED  BY <1>4, <2>3, <1>m, <1>o DEF InitiateEncryption
<1>5. ASSUME NEW a \in Actions, Encoded(a) PROVE Goal
  BY <1>5, <1>d, <1>m, <1>o DEF Encoded
<1>6. ASSUME NEW a \in Actions, OmemoEncrypted(a) PROVE Goal
  BY <1>6, <1>d, <1>m, <1>o DEF OmemoEncrypted
<1>7. ASSUME NEW a \in Actions, Write(a) \/ WriteFails(a) PROVE Goal
  <2>1. /\ Call("stream", a) \in calls
        /\ \E q : Then(Call("stream", a), Call(q, a))
        /\ UNCHANGED <<outstandingAccounts, outstandingBuddies>>
    BY <1>7 DEF Write, WriteFails, ToStream
  <2> QED  BY <2>1, <1>d, <1>m, <1>o
<1>8. ASSUME NEW a \in Actions, Resend(a) PROVE Goal
  <2>1. CASE HasRow(a)  BY <1>8, <2>1, <1>d, <1>m, <1>o DEF Resend
  <2>2. CASE ~HasRow(a)  BY <1>8, <2>2, <1>s DEF Resend, Done
  <2> QED  BY <2>1, <2>2
<1>9. ASSUME NEW a \in Actions,
             \/ HandleMissing(a) \/ HandleManual(a) \/ AddBuddyToRoster(a)
             \/ SendGroupNowhere(a) \/ Connect(a) \/ MarkPending(a)
             \/ WriteForgotten(a) \/ DidSendMessage(a) \/ DidFailToSendMessage(a)
             \/ EncodeFails(a) \/ OmemoFails(a) \/ Enqueue(a) \/ Delete(a)
             \/ HandleUnsupported(a) \/ SendOTRWithoutText(a) \/ SendGroupUnsupported(a)
             \/ SaveOmemoError(a) \/ EncodedToNothing(a) \/ OmemoUnanswered(a) \/ Orphan(a)
      PROVE  Goal
  <2>1. /\ UNCHANGED <<outstandingAccounts, outstandingBuddies>>
        /\ calls' \subseteq calls
    BY <1>9 DEF HandleMissing, HandleManual, AddBuddyToRoster, SendGroupNowhere, Connect,
       MarkPending, WriteForgotten, DidSendMessage, DidFailToSendMessage, EncodeFails,
       OmemoFails, Enqueue, Delete, HandleUnsupported, SendOTRWithoutText, SendGroupUnsupported,
       SaveOmemoError, EncodedToNothing, OmemoUnanswered, Orphan, Done
  <2> QED  BY <2>1, <1>s
<1>10. ASSUME NEW a \in Actions, OtrTimeout(a) PROVE Goal
  <2>1. ThreadOf[a] \in Threads /\ ThreadOf[b] \in Threads  BY ConstantsAssumption
  <2>2. outstandingBuddies'[ThreadOf[b]] = b => outstandingBuddies[ThreadOf[b]] = b
    BY <1>10, <1>t, <2>1, ConstantsAssumption DEF OtrTimeout, TypeOK
  <2> QED
    BY <1>10, <1>t, <2>2, HoldsMember, HoldsMemberNext DEF OtrTimeout
<1>11. ASSUME NEW t \in Threads, DeliverEncrypted(t) PROVE Goal
  <2>1. ThreadOf[b] \in Threads  BY ConstantsAssumption
  <2>2. outstandingBuddies'[ThreadOf[b]] = b => outstandingBuddies[ThreadOf[b]] = b
    BY <1>11, <1>t, <2>1, ConstantsAssumption DEF DeliverEncrypted, TypeOK
  <2>3. outstandingAccounts' = outstandingAccounts  BY <1>11 DEF DeliverEncrypted
  <2>4. p \in HolderOps /\ Call(p, b) \in calls' /\ Call(p, b) \notin calls
    BY <1>t, <2>2, <2>3, HoldsMember, HoldsMemberNext
  <2>5. outstandingBuddies[t] # None /\ Call(p, b) = Call("resend", outstandingBuddies[t])
    BY <1>11, <2>4 DEF DeliverEncrypted
  <2>6. b = outstandingBuddies[t]  BY <2>5, CallInjective
  <2>7. outstandingBuddies[ThreadOf[b]] = b  BY <2>5, <2>6 DEF Ownership, FiledByOwner
  <2>8. "buddy" \in Holds(b)  BY <1>t, <2>7, HoldsMember
  <2> QED  BY <2>8
<1>12. ASSUME NEW c \in Accounts, DeliverLogin(c) PROVE Goal
  <2>1. AccountFor(b) \in Accounts  BY ConstantsAssumption DEF AccountFor
  <2>2. b \in outstandingAccounts'[AccountFor(b)] => b \in outstandingAccounts[AccountFor(b)]
    BY <1>12, <1>t, <2>1 DEF DeliverLogin, TypeOK
  <2>3. outstandingBuddies' = outstandingBuddies  BY <1>12 DEF DeliverLogin
  <2>4. p \in HolderOps /\ Call(p, b) \in calls' /\ Call(p, b) \notin calls
    BY <1>t, <2>2, <2>3, HoldsMember, HoldsMemberNext
  <2>5. PICK a \in outstandingAccounts[c] : Call(p, b) = Call("handle", a)
    BY <1>12, <2>4 DEF DeliverLogin
  <2>6. b \in outstandingAccounts[c]  BY <2>5, CallInjective
  <2>7. b \in outstandingAccounts[AccountFor(b)]  BY <2>6 DEF Ownership, FiledByOwner
  <2>8. "account" \in Holds(b)  BY <1>t, <2>7, HoldsMember
  <2> QED  BY <2>8
<1>13. ASSUME NEW t \in Threads, HandNext(t) PROVE Goal
  <2>1. UNCHANGED <<outstandingAccounts, outstandingBuddies>>
    BY <1>13 DEF HandNext
  <2>2. p \in HolderOps /\ Call(p, b) \in calls' /\ Call(p, b) \notin calls
    BY <1>t, <2>1, HoldsMember, HoldsMemberNext
  <2>3. Call(p, b) = Call("handle", Head(queue[t]))  BY <1>13, <2>2 DEF HandNext
  <2> QED  BY <1>13, <2>3, CallInjective
<1>14. ASSUME NEW t \in Threads, RetryFires(t) PROVE Goal
  <2>1. UNCHANGED <<outstandingAccounts, outstandingBuddies>>
    BY <1>14 DEF RetryFires
  <2>2. p \in HolderOps /\ Call(p, b) \in calls' /\ Call(p, b) \notin calls
    BY <1>t, <2>1, HoldsMember, HoldsMemberNext
  <2>3. Call(p, b) = Call("handle", slot[t])  BY <1>14, <2>2 DEF RetryFires
  <2> QED  BY <1>14, <2>3, CallInjective
<1>15. ASSUME NEW t \in Threads, JoinRoom(t) \/ GoneSecure(t) \/ SessionEnds(t) PROVE Goal
  BY <1>15, <1>s DEF JoinRoom, GoneSecure, SessionEnds
<1>16. ASSUME NEW c \in Accounts, Reconnect(c) \/ DidAuthenticate(c) \/ DidDisconnect(c) \/ StatusFalls(c)
       PROVE  Goal
  BY <1>16, <1>s DEF Reconnect, DidAuthenticate, DidDisconnect, StatusFalls
<1>17. CASE Restart
  <2>1. ThreadOf[b] \in Threads /\ AccountFor(b) \in Accounts
    BY ConstantsAssumption DEF AccountFor
  <2> QED  BY <1>17, <2>1, HoldsMemberNext, ConstantsAssumption DEF Restart
<1>18. CASE UNCHANGED vars  BY <1>18, <1>s DEF vars
<1>19. ASSUME NEW a \in Actions, OmemoWithoutText(a) \/ OmemoUnavailable(a) PROVE Goal
  <2>1. /\ UNCHANGED <<outstandingAccounts, outstandingBuddies>>
        /\ \A c \in calls' : \/ c \in calls
                              \/ \E op \in {"saveError", "markPending"} : c = Call(op, a)
    BY <1>19 DEF OmemoWithoutText, OmemoUnavailable, OmemoGivesUp
  <2>2. "saveError" \notin HolderOps /\ "markPending" \notin HolderOps  BY DEF HolderOps
  <2>3. \A q \in HolderOps : Call(q, b) \in calls' => Call(q, b) \in calls
    BY <2>1, <2>2, CallInjective
  <2> QED  BY <2>1, <2>3, <1>s
<1> QED
  BY <1>19, <1>1, <1>2, <1>3, <1>4, <1>5, <1>6, <1>7, <1>8, <1>9, <1>10, <1>11, <1>12, <1>13,
     <1>14, <1>15, <1>16, <1>17, <1>18
  DEF Next, Broker, Handle, Callback, Encryption, Notification, Environment

-----------------------------------------------------------------------------
(* Nothing is written twice.                                               *)

(* A row leaves a queue that held it once.                                 *)
LEMMA RowLeaves ==
    ASSUME Ownership, RowsOnce, NEW a \in Actions, RemoveRow(a)
    PROVE  /\ RowsOnce'
           /\ \A b \in Actions : HasRow(b)' => HasRow(b) /\ b # a
<1>1. ThreadOf[a] \in Threads /\ queue \in [Threads -> Seq(Actions)]
  BY ConstantsAssumption DEF Ownership, TypeOK
<1>2. \A t \in Threads : queue'[t] = IF t = ThreadOf[a] THEN Without(queue[t], a) ELSE queue[t]
  BY <1>1 DEF RemoveRow
<1>3. /\ \A i, j \in 1..Len(Without(queue[ThreadOf[a]], a)) :
            Without(queue[ThreadOf[a]], a)[i] = Without(queue[ThreadOf[a]], a)[j] => i = j
      /\ \A i \in 1..Len(Without(queue[ThreadOf[a]], a)) :
            Without(queue[ThreadOf[a]], a)[i] # a
  BY <1>1, WithoutOnce DEF RowsOnce
<1>4. ASSUME NEW b \in Actions, HasRow(b)' PROVE HasRow(b) /\ b # a
  <2>1. ThreadOf[b] \in Threads  BY ConstantsAssumption
  <2>2. CASE ThreadOf[b] = ThreadOf[a]
    <3>1. queue'[ThreadOf[b]] = Without(queue[ThreadOf[a]], a)  BY <1>2, <2>1, <2>2
    <3>2. PICK i \in 1..Len(Without(queue[ThreadOf[a]], a)) :
             Without(queue[ThreadOf[a]], a)[i] = b
      BY <1>4, <3>1 DEF HasRow
    <3>3. \E j \in 1..Len(queue[ThreadOf[a]]) : queue[ThreadOf[a]][j] = b
      BY <1>1, <3>2, WithoutIsSeq
    <3> QED  BY <1>3, <2>2, <3>2, <3>3 DEF HasRow
  <2>3. CASE ThreadOf[b] # ThreadOf[a]  BY <1>2, <1>4, <2>1, <2>3 DEF HasRow
  <2> QED  BY <2>2, <2>3
<1> QED  BY <1>2, <1>3, <1>4, ZenonT(60) DEF RowsOnce

(* The order of the handlers shows in the rest of the proof only through   *)
(* the shapes.                                                             *)
LEMMA WireKept ==
    ASSUME Ownership, TypeOK', [Next]_vars, WireInv, UNCHANGED wire
    PROVE  WrittenOnce'
<1>1. ASSUME NEW b \in Actions, Written(b), NEW p \in Holds(b)' PROVE p = "didSend"
  <2>1. Holds(b) \subseteq {"didSend"}
    BY <1>1 DEF WireInv, WrittenOnce, Written
  <2>2. ASSUME NEW t \in Threads, HandNext(t), b = Head(queue[t]) PROVE FALSE
    <3>1. queue[t] \in Seq(Actions) /\ queue[t] # <<>> /\ slot[t] = None
      BY <2>2 DEF HandNext, Ownership, TypeOK
    <3>2. 1 \in 1..Len(queue[t]) /\ queue[t][1] = b
      BY <2>2, <3>1, EmptySeq
    <3>3. ThreadOf[b] = t  BY <3>2 DEF Ownership, FiledByOwner
    <3>4. HasRow(b) /\ slot[ThreadOf[b]] # b
      BY <3>1, <3>2, <3>3, ConstantsAssumption DEF HasRow
    <3> QED  BY <1>1, <3>4 DEF WireInv, DoneIsGone
  <2>3. ASSUME NEW t \in Threads, RetryFires(t), b = slot[t] PROVE FALSE
    BY <1>1, <2>3 DEF RetryFires, WireInv, RetryIsUnwritten
  <2> QED  BY <2>1, <2>2, <2>3, Gains
<1>2. \A b \in Actions : Contains(wire'[ThreadOf[b]], b) => Holds(b)' \subseteq {"didSend"}
  BY <1>1 DEF Written
<1> QED  BY <1>2 DEF WireInv, WrittenOnce

LEMMA WireStep == Ownership /\ WireInv /\ [Next]_vars => WireInv'
<1> SUFFICES ASSUME Ownership, WireInv, [Next]_vars PROVE WireInv'
  OBVIOUS
<1>t. /\ TypeOK /\ TypeOK' /\ Ownership'
      /\ RowsOnce /\ NewIsUnknown /\ DoneIsGone /\ RetryIsUnwritten /\ WrittenOnce
      /\ \A a \in Actions : ThreadOf[a] \in Threads
  BY OwnershipStep, ConstantsAssumption DEF Ownership, WireInv
<1>n. \A a \in Actions : saved'[a] = "new" => saved[a] = "new"
  BY <1>t, StaysSaved
<1>k. ASSUME UNCHANGED wire PROVE WrittenOnce' /\ \A b : Written(b)' <=> Written(b)
  BY <1>t, <1>k, WireKept DEF Written
<1>1. CASE Submits
  <2>1. PICK a \in Actions : /\ saved[a] = "new" /\ saved'[a] = "saved"
                             /\ queue' = [queue EXCEPT ![ThreadOf[a]] = Append(@, a)]
                             /\ UNCHANGED <<slot, paused, wire>>
    BY <1>1 DEF Submits
  <2>2. ~HasRow(a) /\ slot[ThreadOf[a]] # a /\ ~Written(a)
    BY <1>t, <2>1 DEF NewIsUnknown
  <2>3. \A t \in Threads :
           queue'[t] = IF t = ThreadOf[a] THEN Append(queue[t], a) ELSE queue[t]
    BY <1>t, <2>1 DEF TypeOK
  <2>4. queue[ThreadOf[a]] \in Seq(Actions)  BY <1>t DEF TypeOK
  <2>5. \A b \in Actions : HasRow(b)' => HasRow(b) \/ b = a
    <3> SUFFICES ASSUME NEW b \in Actions, HasRow(b)' PROVE HasRow(b) \/ b = a
      OBVIOUS
    <3>1. CASE ThreadOf[b] = ThreadOf[a]
      <4>1. Contains(Append(queue[ThreadOf[a]], a), b)
        BY <1>t, <2>3, <3>1 DEF HasRow, Contains
      <4> QED  BY <2>4, <3>1, <4>1, AppendContains DEF HasRow, Contains
    <3>2. CASE ThreadOf[b] # ThreadOf[a]  BY <1>t, <2>3, <3>2 DEF HasRow
    <3> QED  BY <3>1, <3>2
  <2>6. RowsOnce'
    <3>1. ~Contains(queue[ThreadOf[a]], a)  BY <2>2 DEF HasRow, Contains
    <3>2. \A i, j \in 1..Len(Append(queue[ThreadOf[a]], a)) :
             Append(queue[ThreadOf[a]], a)[i] = Append(queue[ThreadOf[a]], a)[j] => i = j
      BY <1>t, <2>4, <3>1, AppendOnce DEF RowsOnce
    <3> SUFFICES ASSUME NEW t \in Threads,
                        NEW i \in 1..Len(queue'[t]), NEW j \in 1..Len(queue'[t]),
                        queue'[t][i] = queue'[t][j]
                 PROVE  i = j
      BY DEF RowsOnce
    <3>3. CASE t = ThreadOf[a]
      <4>1. queue'[t] = Append(queue[ThreadOf[a]], a)  BY <2>3, <3>3
      <4> QED  BY <3>2, <4>1
    <3>4. CASE t # ThreadOf[a]
      <4>1. queue'[t] = queue[t]  BY <2>3, <3>4
      <4> QED  BY <1>t, <4>1 DEF RowsOnce
    <3> QED  BY <3>3, <3>4
  <2>7. NewIsUnknown'
    BY <1>t, <1>n, <1>k, <2>1, <2>5 DEF NewIsUnknown
  <2>8. DoneIsGone'
    BY <1>t, <1>k, <2>1, <2>2, <2>5 DEF DoneIsGone
  <2>9. RetryIsUnwritten'
    BY <1>t, <1>k, <2>1 DEF RetryIsUnwritten, Written
  <2> QED  BY <1>k, <2>1, <2>6, <2>7, <2>8, <2>9 DEF WireInv
<1>2. CASE Takes
  <2>1. PICK t \in Threads : HandNext(t)
    BY <1>2 DEF Takes
  <2>2. /\ queue[t] \in Seq(Actions) /\ queue[t] # <<>> /\ slot[t] = None
        /\ queue' = queue /\ wire' = wire /\ paused' = paused /\ saved' = saved
        /\ \A u \in Threads : slot'[u] = IF u = t THEN Head(queue[t]) ELSE slot[u]
    BY <1>t, <2>1 DEF HandNext, TypeOK, dbVars
  <2>3. 1 \in 1..Len(queue[t]) /\ Head(queue[t]) = queue[t][1] /\ queue[t][1] \in Actions
    BY <2>2, EmptySeq, ElementOfSeq
  <2>4. ThreadOf[Head(queue[t])] = t /\ HasRow(Head(queue[t]))
    BY <2>3 DEF Ownership, FiledByOwner, HasRow
  <2>5. \A b : HasRow(b)' <=> HasRow(b)  BY <2>2 DEF HasRow
  <2>6. NewIsUnknown'
    <3> SUFFICES ASSUME NEW a \in Actions, saved[a] = "new"
                 PROVE  ~HasRow(a)' /\ slot'[ThreadOf[a]] # a /\ ~Written(a)'
      BY <2>2 DEF NewIsUnknown
    <3>1. ~HasRow(a) /\ slot[ThreadOf[a]] # a /\ ~Written(a)  BY <1>t DEF NewIsUnknown
    <3> QED  BY <1>t, <1>k, <2>2, <2>4, <2>5, <3>1
  <2>7. DoneIsGone'
    <3> SUFFICES ASSUME NEW a \in Actions, Written(a), slot'[ThreadOf[a]] # a PROVE ~HasRow(a)
      BY <1>k, <2>2, <2>5 DEF DoneIsGone
    <3>1. slot[ThreadOf[a]] # a  BY <1>t, <2>2, ConstantsAssumption
    <3> QED  BY <1>t, <3>1 DEF DoneIsGone
  <2>8. RetryIsUnwritten'
    <3> SUFFICES ASSUME NEW u \in paused PROVE ~Written(slot'[u])
      BY <1>k, <2>2 DEF RetryIsUnwritten, Written
    <3>1. u \in Threads /\ u # t  BY <1>t, <2>2 DEF TypeOK, Ownership, FiledByOwner
    <3> QED  BY <1>t, <2>2, <3>1 DEF RetryIsUnwritten
  <2>9. RowsOnce'  BY <1>t, <2>2 DEF RowsOnce
  <2> QED  BY <1>k, <2>2, <2>6, <2>7, <2>8, <2>9 DEF WireInv
<1>3. CASE Sends
  <2>1. PICK a \in Actions : Write(a)
    BY <1>3 DEF Sends
  <2>2. /\ Call("stream", a) \in calls /\ Then(Call("stream", a), Call("didSend", a))
        /\ UNCHANGED <<saved, queue, slot, paused, outstandingAccounts, outstandingBuddies>>
        /\ \A t \in Threads :
              wire'[t] = IF t = ThreadOf[a] THEN Append(wire[t], a) ELSE wire[t]
    BY <1>t, <2>1 DEF Write, ToStream, TypeOK, dbVars, brokerVars, tableVars
  <2>3. "stream" \in Holds(a)  BY <1>t, <2>2, HoldsMember DEF HolderOps
  <2>4. slot[ThreadOf[a]] = a /\ ThreadOf[a] \notin paused /\ ~Written(a)
    BY <1>t, <2>3 DEF Ownership, CompletionOwned, WrittenOnce, Written
  <2>5. wire[ThreadOf[a]] \in Seq(Actions)  BY <1>t DEF TypeOK
  <2>6. \A b \in Actions : Written(b)' => Written(b) \/ b = a
    <3> SUFFICES ASSUME NEW b \in Actions, Written(b)' PROVE Written(b) \/ b = a
      OBVIOUS
    <3>1. CASE ThreadOf[b] = ThreadOf[a]
      <4>1. Contains(Append(wire[ThreadOf[a]], a), b)  BY <1>t, <2>2, <3>1 DEF Written
      <4> QED  BY <2>5, <3>1, <4>1, AppendContains DEF Written
    <3>2. CASE ThreadOf[b] # ThreadOf[a]  BY <1>t, <2>2, <3>2 DEF Written
    <3> QED  BY <3>1, <3>2
  <2>7. \A b : HasRow(b)' <=> HasRow(b)  BY <2>2 DEF HasRow
  <2>8. NewIsUnknown'
    BY <1>t, <2>2, <2>4, <2>6, <2>7 DEF NewIsUnknown
  <2>9. DoneIsGone'
    BY <1>t, <2>2, <2>4, <2>6, <2>7 DEF DoneIsGone
  <2>10. RetryIsUnwritten'
    <3> SUFFICES ASSUME NEW t \in paused PROVE ~Written(slot[t])'
      BY <2>2 DEF RetryIsUnwritten, Written
    <3>1. t \in Threads /\ slot[t] # None /\ slot[t] \in Actions /\ ThreadOf[slot[t]] = t
      BY <1>t DEF TypeOK, Ownership, FiledByOwner
    <3>2. slot[t] # a /\ ~Written(slot[t])  BY <1>t, <2>4, <3>1 DEF RetryIsUnwritten
    <3>3. wire'[t] = wire[t]  BY <2>2, <2>4, <3>1
    <3> QED  BY <2>2, <3>1, <3>2, <3>3 DEF Written
  <2>11. ASSUME NEW b \in Actions, Written(b)', NEW p \in Holds(b)' PROVE p = "didSend"
    <3>1. CASE b = a
      <4>1. "didSend" \in Holds(a)'
        BY <1>t, <2>2, HoldsMemberNext DEF Then, HolderOps
      <4> QED  BY <1>t, <2>11, <3>1, <4>1 DEF Ownership, SingleHolder
    <3>2. CASE b # a
      <4>1. Written(b)  BY <2>6, <2>11, <3>2
      <4>2. p \in Holds(b)
        BY <1>t, <2>2, <2>11, <3>2, HoldsMember, HoldsMemberNext, CallInjective DEF Then
      <4> QED  BY <1>t, <4>1, <4>2 DEF WrittenOnce, Written
    <3> QED  BY <3>1, <3>2
  <2>12. ASSUME NEW b \in Actions,
                NEW i \in 1..Len(wire'[ThreadOf[b]]), NEW j \in 1..Len(wire'[ThreadOf[b]]),
                wire'[ThreadOf[b]][i] = b, wire'[ThreadOf[b]][j] = b
         PROVE  i = j
    <3>1. CASE ThreadOf[b] = ThreadOf[a]
      <4>1. wire'[ThreadOf[b]] = Append(wire[ThreadOf[a]], a)  BY <1>t, <2>2, <3>1
      <4>2. /\ Len(wire[ThreadOf[a]]) \in Nat
            /\ Len(wire'[ThreadOf[b]]) = Len(wire[ThreadOf[a]]) + 1
            /\ wire'[ThreadOf[b]][Len(wire[ThreadOf[a]]) + 1] = a
            /\ \A k \in 1..Len(wire[ThreadOf[a]]) :
                  wire'[ThreadOf[b]][k] = wire[ThreadOf[a]][k]
        BY <2>5, <4>1, AppendProperties
      <4>3. \A k \in 1..Len(wire[ThreadOf[a]]) : wire[ThreadOf[a]][k] # a
        BY <2>4 DEF Written, Contains
      <4>4. \A k \in 1..Len(wire'[ThreadOf[b]]) :
               k \in 1..Len(wire[ThreadOf[a]]) \/ k = Len(wire[ThreadOf[a]]) + 1
        BY <4>2
      <4>5. CASE b = a
        <5>1. i \notin 1..Len(wire[ThreadOf[a]]) /\ j \notin 1..Len(wire[ThreadOf[a]])
          BY <2>12, <4>2, <4>3, <4>5
        <5> QED  BY <4>4, <5>1
      <4>6. CASE b # a
        <5>1. i \in 1..Len(wire[ThreadOf[a]]) /\ j \in 1..Len(wire[ThreadOf[a]])
          BY <2>12, <4>2, <4>4, <4>6
        <5>2. wire[ThreadOf[b]][i] = b /\ wire[ThreadOf[b]][j] = b
          BY <2>12, <3>1, <4>2, <5>1
        <5> QED  BY <1>t, <3>1, <5>1, <5>2 DEF WrittenOnce
      <4> QED  BY <4>5, <4>6
    <3>2. CASE ThreadOf[b] # ThreadOf[a]
      <4>1. wire'[ThreadOf[b]] = wire[ThreadOf[b]]  BY <1>t, <2>2, <3>2
      <4> QED  BY <1>t, <2>12, <4>1 DEF WrittenOnce
    <3> QED  BY <3>1, <3>2
  <2>13. WrittenOnce'  BY <2>11, <2>12 DEF WrittenOnce, Written
  <2>14. RowsOnce'  BY <1>t, <2>2 DEF RowsOnce
  <2> QED  BY <2>8, <2>9, <2>10, <2>13, <2>14 DEF WireInv
<1>4. CASE Finishes
  <2>1. PICK a \in Actions : Holds(a) # {} /\ Finish(a) /\ UNCHANGED wire
    BY <1>4 DEF Finishes
  <2>2. slot[ThreadOf[a]] = a /\ ThreadOf[a] \notin paused
    BY <2>1 DEF Ownership, CompletionOwned
  <2>3. /\ RemoveRow(a) /\ paused' = paused
        /\ \A t \in Threads : slot'[t] = IF t = ThreadOf[a] THEN None ELSE slot[t]
    BY <1>t, <2>1, <2>2 DEF Finish, TypeOK
  <2>4. RowsOnce' /\ \A b \in Actions : HasRow(b)' => HasRow(b) /\ b # a
    BY <1>t, <2>3, RowLeaves
  <2>5. NewIsUnknown'
    BY <1>t, <1>n, <1>k, <2>1, <2>3, <2>4, ConstantsAssumption DEF NewIsUnknown
  <2>6. DoneIsGone'
    <3> SUFFICES ASSUME NEW b \in Actions, Written(b), b # a, slot'[ThreadOf[b]] # b, HasRow(b)
                 PROVE  FALSE
      BY <1>k, <2>1, <2>4 DEF DoneIsGone
    <3>1. slot[ThreadOf[b]] # b  BY <1>t, <2>2, <2>3
    <3> QED  BY <1>t, <3>1 DEF DoneIsGone
  <2>7. RetryIsUnwritten'
    <3> SUFFICES ASSUME NEW t \in paused PROVE ~Written(slot'[t])
      BY <1>k, <2>1, <2>3 DEF RetryIsUnwritten, Written
    <3>1. t \in Threads /\ t # ThreadOf[a]  BY <1>t, <2>2 DEF TypeOK
    <3> QED  BY <1>t, <2>3, <3>1 DEF RetryIsUnwritten
  <2> QED  BY <1>k, <2>1, <2>4, <2>5, <2>6, <2>7 DEF WireInv
<1>5. CASE Withdraws
  <2>1. PICK a \in Actions : RemoveRow(a) /\ UNCHANGED <<slot, paused, wire>>
    BY <1>5 DEF Withdraws
  <2>2. RowsOnce' /\ \A b \in Actions : HasRow(b)' => HasRow(b)
    BY <1>t, <2>1, RowLeaves
  <2>3. NewIsUnknown' /\ DoneIsGone'
    BY <1>t, <1>n, <1>k, <2>1, <2>2 DEF NewIsUnknown, DoneIsGone
  <2>4. RetryIsUnwritten'
    BY <1>t, <2>1 DEF RetryIsUnwritten, Written
  <2> QED  BY <1>k, <2>1, <2>2, <2>3, <2>4 DEF WireInv
<1>6. CASE Pauses
  <2>1. PICK a \in Actions : /\ "handle" \in Holds(a)
                             /\ paused' = paused \cup {ThreadOf[a]}
                             /\ UNCHANGED <<queue, slot, wire>>
    BY <1>6 DEF Pauses
  <2>2. slot[ThreadOf[a]] = a /\ ~Written(a)
    BY <1>t, <2>1 DEF Ownership, CompletionOwned, WrittenOnce, Written
  <2>3. NewIsUnknown' /\ DoneIsGone' /\ RowsOnce'
    BY <1>t, <1>n, <2>1 DEF NewIsUnknown, DoneIsGone, RowsOnce, HasRow, Written
  <2>4. RetryIsUnwritten'
    BY <1>t, <2>1, <2>2 DEF RetryIsUnwritten, Written
  <2> QED  BY <1>k, <2>1, <2>3, <2>4 DEF WireInv
<1>7. CASE Waits
  <2>1. NewIsUnknown' /\ DoneIsGone' /\ RowsOnce' /\ RetryIsUnwritten'
    BY <1>t, <1>n, <1>7 DEF Waits, NewIsUnknown, DoneIsGone, RowsOnce, RetryIsUnwritten,
       HasRow, Written
  <2> QED  BY <1>k, <1>7, <2>1 DEF WireInv, Waits
<1>8. CASE Restart
  <2>1. /\ queue' = queue /\ paused' = {} /\ \A t \in Threads : slot'[t] = None
        /\ \A t \in Threads : wire'[t] = <<>>
    BY <1>8 DEF Restart, dbVars
  <2>2. \A b \in Actions : Len(wire'[ThreadOf[b]]) = 0 /\ ~Written(b)'
    BY <1>t, <2>1, EmptySeq DEF Written, Contains
  <2>3. \A b \in Actions : slot'[ThreadOf[b]] # b
    BY <1>t, <2>1, ConstantsAssumption
  <2>4. NewIsUnknown' /\ DoneIsGone' /\ RowsOnce'
    BY <1>t, <1>n, <2>1, <2>2, <2>3 DEF NewIsUnknown, DoneIsGone, RowsOnce, HasRow
  <2>5. RetryIsUnwritten' /\ WrittenOnce'
    BY <2>1, <2>2 DEF RetryIsUnwritten, WrittenOnce, Written
  <2> QED  BY <2>4, <2>5 DEF WireInv
<1> QED  BY <1>1, <1>2, <1>3, <1>4, <1>5, <1>6, <1>7, <1>8, StepShapes

LEMMA WireInit == Init => WireInv
<1> SUFFICES ASSUME Init PROVE WireInv
  OBVIOUS
<1>1. /\ \A a \in Actions : ThreadOf[a] \in Threads /\ a # None
      /\ \A t \in Threads : Len(queue[t]) = 0 /\ Len(wire[t]) = 0 /\ slot[t] = None
      /\ paused = {}
  BY ConstantsAssumption, EmptySeq DEF Init
<1>2. \A a \in Actions : ~HasRow(a) /\ ~Written(a) /\ slot[ThreadOf[a]] # a
  BY <1>1 DEF HasRow, Written, Contains
<1> QED
  BY <1>1, <1>2 DEF WireInv, RowsOnce, NewIsUnknown, DoneIsGone, RetryIsUnwritten,
     WrittenOnce, Written

LEMMA WireHolds == Spec => [](Ownership /\ WireInv)
<1>1. Init => Ownership /\ WireInv  BY OwnershipInit, WireInit
<1>2. (Ownership /\ WireInv) /\ [Next]_vars => (Ownership /\ WireInv)'
  BY OwnershipStep, WireStep
<1> QED  BY <1>1, <1>2, PTL DEF Spec

(* While the process runs a stanza is written once, whatever the order of  *)
(* timers, notifications, retries and deletions.                           *)
THEOREM WrittenOnceCorrect == Spec => []WrittenOnce
<1>1. Ownership /\ WireInv => WrittenOnce  BY DEF WireInv
<1> QED  BY <1>1, WireHolds, PTL

-----------------------------------------------------------------------------
(* Order.                                                                  *)

(* Nothing is queued before the action in process.                         *)
InTurn ==
    \A t \in Threads : slot[t] # None =>
        \A i \in 1..Len(queue[t]) : queue[t][i] = slot[t] => i = 1

(* Removing another row does not move the first one.                       *)
LEMMA FirstStays ==
    ASSUME NEW S, NEW s \in Seq(S), NEW a, NEW b, a # b,
           \A i \in 1..Len(s) : s[i] = b => i = 1
    PROVE  LET w == Without(s, a) IN \A i \in 1..Len(w) : w[i] = b => i = 1
<1> DEFINE w == Without(s, a)
<1>1. CASE \E i \in 1..Len(s) : s[i] = a
  <2>1. Len(s) \in Nat /\ Len(w) = Len(s) - 1
    BY <1>1, WithoutByIndex
  <2>2. PICK k \in 1..Len(s) :
           /\ s[k] = a
           /\ \A i \in 1..(Len(s) - 1) : w[i] = IF i < k THEN s[i] ELSE s[i + 1]
    BY <1>1, WithoutByIndex
  <2> HIDE DEF w
  <2>3. ASSUME NEW i \in 1..Len(w), w[i] = b PROVE i = 1
    <3>1. i \in 1..Len(s) /\ i + 1 \in 1..Len(s) /\ i \in 1..(Len(s) - 1)  BY <2>1
    <3>2. CASE i < k  BY <2>2, <2>3, <3>1, <3>2
    <3>3. CASE ~(i < k)
      <4>1. s[i + 1] = b  BY <2>2, <2>3, <3>1, <3>3
      <4>2. i + 1 = 1  BY <3>1, <4>1
      <4> QED  BY <3>1, <4>2
    <3> QED  BY <3>2, <3>3
  <2> QED  BY <2>3 DEF w
<1>2. CASE ~(\E i \in 1..Len(s) : s[i] = a)  BY <1>2 DEF Without
<1> QED  BY <1>1, <1>2

LEMMA TurnStep == Ownership /\ WireInv /\ InTurn /\ [Next]_vars => InTurn'
<1> SUFFICES ASSUME Ownership, WireInv, InTurn, [Next]_vars,
                    NEW t \in Threads, slot'[t] # None
             PROVE  \A i \in 1..Len(queue'[t]) : queue'[t][i] = slot'[t] => i = 1
  BY DEF InTurn
<1>t. /\ TypeOK /\ RowsOnce /\ NewIsUnknown /\ queue[t] \in Seq(Actions)
      /\ \A a \in Actions : ThreadOf[a] \in Threads /\ a # None
  BY ConstantsAssumption DEF Ownership, WireInv, TypeOK
<1>s. slot[t] # None => \A i \in 1..Len(queue[t]) : queue[t][i] = slot[t] => i = 1
  BY DEF InTurn
<1>1. CASE Submits
  <2>1. PICK a \in Actions : /\ saved[a] = "new"
                             /\ queue' = [queue EXCEPT ![ThreadOf[a]] = Append(@, a)]
                             /\ UNCHANGED slot
    BY <1>1 DEF Submits
  <2>2. CASE t = ThreadOf[a]
    <3>1. slot[t] # a /\ queue'[t] = Append(queue[t], a)
      BY <1>t, <2>1, <2>2 DEF NewIsUnknown, TypeOK
    <3>2. /\ Len(queue[t]) \in Nat /\ Len(queue'[t]) = Len(queue[t]) + 1
          /\ queue'[t][Len(queue[t]) + 1] = a
          /\ \A i \in 1..Len(queue[t]) : queue'[t][i] = queue[t][i]
      BY <1>t, <3>1, AppendProperties
    <3>3. \A i \in 1..Len(queue'[t]) : i \in 1..Len(queue[t]) \/ i = Len(queue[t]) + 1
      BY <3>2
    <3> QED  BY <1>s, <2>1, <3>1, <3>2, <3>3
  <2>3. CASE t # ThreadOf[a]
    BY <1>t, <1>s, <2>1, <2>3 DEF TypeOK
  <2> QED  BY <2>2, <2>3
<1>2. CASE Takes
  <2>1. PICK u \in Threads : HandNext(u)  BY <1>2 DEF Takes
  <2>2. queue' = queue  BY <2>1 DEF HandNext, dbVars
  <2>3. CASE u = t
    <3>1. slot'[t] = Head(queue[t]) /\ queue[t] # <<>>
      BY <1>t, <2>1, <2>3 DEF HandNext, TypeOK
    <3>2. Head(queue[t]) = queue[t][1] /\ 1 \in 1..Len(queue[t])
      BY <1>t, <3>1, EmptySeq
    <3> QED  BY <1>t, <2>2, <3>1, <3>2 DEF RowsOnce
  <2>4. CASE u # t
    BY <1>t, <1>s, <2>1, <2>2, <2>4 DEF HandNext, TypeOK
  <2> QED  BY <2>3, <2>4
<1>3. CASE Finishes
  <2>1. PICK a \in Actions : Holds(a) # {} /\ Finish(a)  BY <1>3 DEF Finishes
  <2>2. slot[ThreadOf[a]] = a  BY <2>1 DEF Ownership, CompletionOwned
  <2>3. t # ThreadOf[a]  BY <1>t, <2>1, <2>2 DEF Finish, TypeOK
  <2>4. queue'[t] = queue[t] /\ slot'[t] = slot[t]
    BY <1>t, <2>1, <2>3 DEF Finish, RemoveRow, TypeOK
  <2> QED  BY <1>s, <2>4
<1>4. CASE Withdraws
  <2>1. PICK a \in Actions : RemoveRow(a) /\ slot' = slot  BY <1>4 DEF Withdraws
  <2>2. CASE t = ThreadOf[a]
    <3>1. queue'[t] = Without(queue[t], a)
      BY <1>t, <2>1, <2>2 DEF RemoveRow, TypeOK
    <3>2. CASE slot[t] = a
      <4>1. \A i, j \in 1..Len(queue[t]) : queue[t][i] = queue[t][j] => i = j
        BY <1>t DEF RowsOnce
      <4>2. \A i \in 1..Len(queue'[t]) : queue'[t][i] # a
        BY <1>t, <3>1, <4>1, WithoutOnce
      <4> QED  BY <2>1, <3>2, <4>2
    <3>3. CASE slot[t] # a
      BY <1>t, <1>s, <2>1, <3>1, <3>3, FirstStays
    <3> QED  BY <3>2, <3>3
  <2>3. CASE t # ThreadOf[a]
    BY <1>t, <1>s, <2>1, <2>3 DEF RemoveRow, TypeOK
  <2> QED  BY <2>2, <2>3
<1>5. CASE Sends \/ Pauses \/ Waits
  BY <1>s, <1>5 DEF Sends, Write, Pauses, Waits, dbVars, brokerVars
<1>6. CASE Restart
  BY <1>t, <1>6 DEF Restart
<1> QED  BY <1>1, <1>2, <1>3, <1>4, <1>5, <1>6, StepShapes

LEMMA TurnHolds == Spec => [](Ownership /\ WireInv /\ InTurn)
<1>1. Init => InTurn  BY DEF Init, InTurn
<1>2. (Ownership /\ WireInv /\ InTurn) /\ [Next]_vars => (Ownership /\ WireInv /\ InTurn)'
  BY OwnershipStep, WireStep, TurnStep
<1> QED  BY <1>1, <1>2, OwnershipInit, WireInit, PTL DEF Spec

(* What is appended to a wire was in process in its thread.                *)
LEMMA WrittenInTurn ==
    ASSUME Ownership, WireInv, [Next]_vars, NEW a \in Actions,
           wire'[ThreadOf[a]] = Append(wire[ThreadOf[a]], a)
    PROVE  slot[ThreadOf[a]] = a
<1>t. /\ TypeOK /\ \A b \in Actions : ThreadOf[b] \in Threads
      /\ wire[ThreadOf[a]] \in Seq(Actions)
  BY ConstantsAssumption DEF Ownership, TypeOK
<1>1. /\ wire'[ThreadOf[a]] # wire[ThreadOf[a]] /\ wire'[ThreadOf[a]] # <<>>
      /\ Last(wire'[ThreadOf[a]]) = a
  <2>1. /\ Len(wire[ThreadOf[a]]) \in Nat
        /\ Len(Append(wire[ThreadOf[a]], a)) = Len(wire[ThreadOf[a]]) + 1
        /\ Append(wire[ThreadOf[a]], a)[Len(wire[ThreadOf[a]]) + 1] = a
    BY <1>t, AppendProperties
  <2> QED  BY <2>1, EmptySeq DEF Last
<1>2. CASE Sends
  <2>1. PICK b \in Actions : Write(b)  BY <1>2 DEF Sends
  <2>2. wire' = [wire EXCEPT ![ThreadOf[b]] = Append(@, b)] /\ "stream" \in Holds(b)
    BY <1>t, <2>1, HoldsMember DEF Write, ToStream, HolderOps
  <2>3. ThreadOf[a] = ThreadOf[b] /\ wire'[ThreadOf[a]] = Append(wire[ThreadOf[a]], b)
    BY <1>t, <1>1, <2>2 DEF TypeOK
  <2>4. Last(Append(wire[ThreadOf[a]], b)) = b
    <3>1. /\ Len(wire[ThreadOf[a]]) \in Nat
          /\ Len(Append(wire[ThreadOf[a]], b)) = Len(wire[ThreadOf[a]]) + 1
          /\ Append(wire[ThreadOf[a]], b)[Len(wire[ThreadOf[a]]) + 1] = b
      BY <1>t, AppendProperties
    <3> QED  BY <3>1 DEF Last
  <2>5. a = b  BY <1>1, <2>3, <2>4
  <2> QED  BY <2>2, <2>5 DEF Ownership, CompletionOwned
<1>3. CASE Submits \/ Takes \/ Finishes \/ Withdraws \/ Pauses \/ Waits
  BY <1>1, <1>3 DEF Submits, Takes, HandNext, Finishes, Withdraws, Pauses, Waits
<1>4. CASE Restart
  BY <1>t, <1>1, <1>4 DEF Restart
<1> QED  BY <1>2, <1>3, <1>4, StepShapes

(* No message overtakes one of its thread that was queued before it, for   *)
(* any number of messages, retries, deletions and restarts.                *)
THEOREM OrderKept == Spec => SentInOrder
<1>1. (Ownership /\ WireInv /\ InTurn) /\ [Next]_vars =>
         [\A a \in Actions : LET t == ThreadOf[a] IN
             wire'[t] = Append(wire[t], a) =>
                \A i \in 1..Len(queue[t]) : queue[t][i] = a => i = 1]_vars
  BY WrittenInTurn, ConstantsAssumption DEF InTurn
<1> QED  BY <1>1, TurnHolds, PTL DEF Spec, SentInOrder

-----------------------------------------------------------------------------
(* The refinement.                                                         *)

LEMMA SameWithout == ASSUME NEW s, NEW a PROVE Promise!Without(s, a) = Without(s, a)
BY DEF Promise!Without, Without, Promise!RemoveAt, RemoveAt

LEMMA RefinedStep ==
    ASSUME Ownership, WireInv, [Next]_vars
    PROVE  [Promise!Next]_<<queue, slot, wire>>
<1>t. /\ TypeOK /\ NewIsUnknown /\ \A a \in Actions : ThreadOf[a] \in Threads
  BY ConstantsAssumption DEF Ownership, WireInv
<1>1. CASE Submits
  <2>1. PICK a \in Actions : /\ saved[a] = "new"
                             /\ queue' = [queue EXCEPT ![ThreadOf[a]] = Append(@, a)]
                             /\ UNCHANGED <<slot, wire>>
    BY <1>1 DEF Submits
  <2>2. ~Contains(queue[ThreadOf[a]], a) /\ slot[ThreadOf[a]] # a
    BY <1>t, <2>1 DEF NewIsUnknown, HasRow, Contains
  <2>3. Promise!Submit(a)  BY <2>1, <2>2 DEF Promise!Submit, Promise!Contains, Contains
  <2> QED  BY <2>3 DEF Promise!Next
<1>2. CASE Takes
  <2>1. PICK t \in Threads : HandNext(t)
    BY <1>2 DEF Takes
  <2>2. Promise!Take(t)  BY <2>1 DEF HandNext, dbVars, Promise!Take
  <2> QED  BY <2>2 DEF Promise!Next
<1>3. CASE Sends
  <2>1. PICK a \in Actions : Write(a)
    BY <1>3 DEF Sends
  <2>2. "stream" \in Holds(a)  BY <1>t, <2>1, HoldsMember DEF Write, ToStream, HolderOps
  <2>3. slot[ThreadOf[a]] = a /\ a # None /\ ~Contains(wire[ThreadOf[a]], a)
    BY <2>2, ConstantsAssumption DEF Ownership, CompletionOwned, WireInv, WrittenOnce
  <2>4. Promise!Send(ThreadOf[a])
    BY <2>1, <2>3 DEF Write, dbVars, brokerVars, Promise!Send, Promise!Contains, Contains
  <2> QED  BY <1>t, <2>4 DEF Promise!Next
<1>4. CASE Finishes
  <2>1. PICK a \in Actions : Holds(a) # {} /\ Finish(a) /\ UNCHANGED wire
    BY <1>4 DEF Finishes
  <2>2. slot[ThreadOf[a]] = a /\ a # None
    BY <2>1, ConstantsAssumption DEF Ownership, CompletionOwned
  <2>3. /\ queue' = [queue EXCEPT ![ThreadOf[a]] = Without(@, a)]
        /\ slot' = [slot EXCEPT ![ThreadOf[a]] = None]
    BY <2>1, <2>2 DEF Finish, RemoveRow
  <2>4. Promise!Finish(ThreadOf[a])
    BY <2>1, <2>2, <2>3, SameWithout DEF Promise!Finish
  <2> QED  BY <1>t, <2>4 DEF Promise!Next
<1>5. CASE Withdraws
  <2>1. PICK a \in Actions : RemoveRow(a) /\ UNCHANGED <<slot, wire>>
    BY <1>5 DEF Withdraws
  <2>2. Promise!Withdraw(a)
    BY <2>1, SameWithout DEF RemoveRow, Promise!Withdraw
  <2> QED  BY <2>2 DEF Promise!Next
<1>6. CASE Pauses \/ Waits
  BY <1>6 DEF Pauses, Waits
<1>7. CASE Restart
  <2>1. Promise!Crash  BY <1>7 DEF Restart, dbVars, Promise!Crash
  <2> QED  BY <2>1 DEF Promise!Next
<1> QED  BY <1>1, <1>2, <1>3, <1>4, <1>5, <1>6, <1>7, StepShapes

(* The handler implements the outbox: per thread one action at a time from *)
(* the front, each stanza written at most once and only in its turn.       *)
THEOREM OutboxImplemented == Spec => ImplementsOutbox
<1>1. Init => Promise!Init
  BY DEF Init, Promise!Init
<1>2. (Ownership /\ WireInv) /\ [Next]_vars => [Promise!Next]_(Promise!vars)
  BY RefinedStep DEF Promise!vars
<1> QED  BY <1>1, <1>2, WireHolds, PTL DEF Spec, ImplementsOutbox, Promise!Spec

=============================================================================
