--------------------------- MODULE DeliveryProofs ---------------------------
(***************************************************************************)
(* What becomes of a message in the outgoing queue: a stored verdict is    *)
(* final, a wait for an OTR session is not overwritten, and what makes a   *)
(* message leave the queue without a verdict, or a queue lose the          *)
(* completion it waits for, is listed.  Where a property needs an          *)
(* assumption on the instance, the theorem names it.                       *)
(***************************************************************************)
EXTENDS OutboxProofs

(* The blocks from which the message goes to the stream, or back from it.  *)
Sending == {"omemo", "encode", "stream", "didSend", "didFail"}

(* A message on its way to the stream is in the table of the messages that *)
(* wait for the stream's answer.                                           *)
EntryKept ==
    \A a \in Actions, op \in Sending :
        Call(op, a) \in calls => Entry(a, CollectionOf(a)) \in outstandingMessages

(* Only group messages are marked as pending.                              *)
PendingIsGroup ==
    \A a \in Actions : Call("markPending", a) \in calls => IsGroup(a)

(* An action that is out of the handler's hands.                           *)
Over(a) ==
    /\ saved[a] # "new"
    /\ ~HasRow(a)
    /\ Holds(a) = {}
    /\ ThreadOf[a] \in paused => slot[ThreadOf[a]] # a

(* So is a message with a verdict, and one whose error is still to be      *)
(* stored.                                                                 *)
SettledIsOver ==
    \A a \in Actions : result[a] \in {"sent", "error"} => Over(a)
LateErrorIsOver ==
    \A a \in Actions : Call("saveError", a) \in calls => Over(a) /\ result[a] # "sent"

(* What is wrong with a message is the work of a fault.                    *)
UsesOmemo(a) == KindOf[a] \in {"omemo", "groupOmemo"}
CausesKnown ==
    \A a \in Actions :
        /\ flaw[a] \in {"nil", "empty"} => "blank" \in Faults
        /\ flaw[a] \in {"unsupported", "orphan"} => flaw[a] \in Faults
        /\ Call("saveError", a) \in calls => "unavailable" \in Faults
        /\ Call("omemo", a) \in calls => UsesOmemo(a)

DeliveryInv ==
    /\ Ownership
    /\ WireInv
    /\ EntryKept
    /\ PendingIsGroup
    /\ SettledIsOver
    /\ LateErrorIsOver
    /\ CausesKnown

-----------------------------------------------------------------------------
(* A wait for an OTR session.                                              *)

LEMMA WaitStep == Ownership /\ [Next]_vars =>
    \A t \in Threads : outstandingBuddies[t] # None /\ outstandingBuddies'[t] # None =>
        outstandingBuddies'[t] = outstandingBuddies[t]
<1> SUFFICES ASSUME Ownership, [Next]_vars, NEW t \in Threads,
                    outstandingBuddies[t] # None, outstandingBuddies'[t] # None,
                    outstandingBuddies'[t] # outstandingBuddies[t]
             PROVE  FALSE
  OBVIOUS
<1>t. TypeOK /\ t \in Threads /\ \A a \in Actions : ThreadOf[a] \in Threads
  BY ConstantsAssumption DEF Ownership
<1>1. ASSUME NEW a \in Actions, InitiateEncryption(a) PROVE FALSE
  <2>1. \A u \in Threads :
           outstandingBuddies'[u] = IF u = ThreadOf[a] THEN a ELSE outstandingBuddies[u]
    BY <1>1, <1>t DEF InitiateEncryption, TypeOK
  <2>2. t = ThreadOf[a] /\ outstandingBuddies[t] # a
    BY <1>t, <2>1
  <2>3. PICK b \in Actions : outstandingBuddies[t] = b
    BY <1>t DEF TypeOK
  <2>4. ThreadOf[b] = t
    BY <2>3 DEF Ownership, FiledByOwner
  <2>5. "buddy" \in Holds(b) /\ "otrStart" \in Holds(a)
    BY <1>1, <1>t, <2>3, <2>4, HoldsMember DEF InitiateEncryption, HolderOps
  <2>6. slot[t] = a /\ slot[t] = b
    BY <2>2, <2>4, <2>5 DEF Ownership, CompletionOwned
  <2> QED  BY <2>2, <2>3, <2>6
<1>2. ASSUME NEW a \in Actions, OtrTimeout(a) PROVE FALSE
  BY <1>2, <1>t DEF OtrTimeout, TypeOK
<1>3. ASSUME NEW u \in Threads, DeliverEncrypted(u) PROVE FALSE
  BY <1>3, <1>t DEF DeliverEncrypted, TypeOK
<1>4. CASE Restart
  BY <1>4, <1>t DEF Restart
<1>5. \/ UNCHANGED outstandingBuddies \/ Restart
      \/ \E a \in Actions : InitiateEncryption(a) \/ OtrTimeout(a)
      \/ \E u \in Threads : DeliverEncrypted(u)
  BY ZenonT(60) DEF Next, Broker, Handle, Callback, Encryption, Notification, Environment, vars,
     tableVars,
     HandNext, RetryFires, HandleMissing, HandleOffline, HandleManual, AddBuddyToRoster,
     SendPlain, SendGroupNowhere, SendGroup, SendOMEMO, SendEncoded, RequestSession,
     WaitForAccount, Connect, MarkPending, Resend, Write, WriteFails, WriteForgotten,
     DidSendMessage, DidFailToSendMessage, Encoded, EncodeFails, OmemoEncrypted,
     OmemoFails, DeliverLogin, Reconnect, DidAuthenticate, DidDisconnect, StatusFalls, JoinRoom,
     GoneSecure, SessionEnds, Enqueue, Delete, HandleUnsupported, SendOTRWithoutText,
     SendGroupUnsupported, OmemoWithoutText, OmemoUnavailable, OmemoGivesUp, SaveOmemoError,
     EncodedToNothing, OmemoUnanswered, Orphan
<1> QED  BY <1>1, <1>2, <1>3, <1>4, <1>5

(* Two messages of a buddy never wait for its OTR session at once, however *)
(* timers, sessions and retries follow each other.                         *)
THEOREM WaitNotOverwritten == Spec => NoOverwrittenWait
<1>1. Ownership /\ [Next]_vars =>
         [\A t \in Threads :
             outstandingBuddies[t] # None /\ outstandingBuddies'[t] # None =>
             outstandingBuddies'[t] = outstandingBuddies[t]]_vars
  BY WaitStep
<1> QED  BY <1>1, OwnershipHolds, PTL DEF Spec, NoOverwrittenWait

LEMMA TimerStep == Ownership /\ WaitHasTimer /\ [Next]_vars => WaitHasTimer'
<1> SUFFICES ASSUME Ownership, WaitHasTimer, [Next]_vars PROVE WaitHasTimer'
  OBVIOUS
<1> USE DEF tableVars
<1>t. TypeOK /\ \A a \in Actions : a # None /\ ThreadOf[a] \in Threads
  BY ConstantsAssumption DEF Ownership
<1>1. ASSUME NEW a \in Actions, InitiateEncryption(a) PROVE WaitHasTimer'
  <2>1. \A u \in Threads :
           outstandingBuddies'[u] = IF u = ThreadOf[a] THEN a ELSE outstandingBuddies[u]
    BY <1>1, <1>t DEF InitiateEncryption, TypeOK
  <2>2. \A b \in Actions : timers[b] \in Nat /\ timers'[b] = timers[b] + (IF b = a THEN 1 ELSE 0)
    BY <1>1, <1>t DEF InitiateEncryption, TypeOK
  <2>3. ASSUME NEW u \in Threads, outstandingBuddies'[u] # None
        PROVE  timers'[outstandingBuddies'[u]] > 0
    <3>1. CASE u = ThreadOf[a]  BY <2>1, <2>2, <3>1
    <3>2. CASE u # ThreadOf[a]
      <4>1. /\ outstandingBuddies'[u] = outstandingBuddies[u]
            /\ outstandingBuddies[u] \in Actions /\ timers[outstandingBuddies[u]] > 0
        BY <1>t, <2>1, <2>3, <3>2 DEF WaitHasTimer, TypeOK
      <4> QED  BY <2>2, <4>1
    <3> QED  BY <3>1, <3>2
  <2> QED  BY <2>3 DEF WaitHasTimer
<1>2. ASSUME NEW a \in Actions, OtrTimeout(a) PROVE WaitHasTimer'
  <2>1. \A u \in Threads :
           outstandingBuddies'[u] = IF u = ThreadOf[a] THEN None ELSE outstandingBuddies[u]
    BY <1>2, <1>t DEF OtrTimeout, TypeOK
  <2>2. \A b \in Actions : b # a => timers'[b] = timers[b]
    BY <1>2, <1>t DEF OtrTimeout, TypeOK
  <2>3. ASSUME NEW u \in Threads, outstandingBuddies'[u] # None
        PROVE  timers'[outstandingBuddies'[u]] > 0
    <3>1. /\ u # ThreadOf[a] /\ outstandingBuddies'[u] = outstandingBuddies[u]
          /\ outstandingBuddies[u] \in Actions /\ timers[outstandingBuddies[u]] > 0
      BY <1>t, <2>1, <2>3 DEF WaitHasTimer, TypeOK
    <3>2. ThreadOf[outstandingBuddies[u]] = u
      BY <2>3, <3>1 DEF Ownership, FiledByOwner
    <3> QED  BY <2>2, <3>1, <3>2
  <2> QED  BY <2>3 DEF WaitHasTimer
<1>3. ASSUME NEW u \in Threads, DeliverEncrypted(u) PROVE WaitHasTimer'
  BY <1>3, <1>t DEF DeliverEncrypted, TypeOK, WaitHasTimer
<1>4. CASE Restart
  BY <1>4 DEF Restart, WaitHasTimer
<1>5. ASSUME NEW a \in Actions, Handle(a) \/ Callback(a) \/ Encryption(a)
      PROVE  UNCHANGED <<outstandingBuddies, timers>> \/ InitiateEncryption(a) \/ OtrTimeout(a)
  <2>1. CASE Handle(a)
    BY <2>1 DEF Handle, HandleMissing, HandleOffline, HandleManual, AddBuddyToRoster,
       SendPlain, SendGroupNowhere, SendGroup, SendOMEMO, SendEncoded, RequestSession,
       HandleUnsupported, SendOTRWithoutText, SendGroupUnsupported, OmemoWithoutText,
       OmemoUnavailable, OmemoGivesUp
  <2>2. CASE Callback(a)
    BY <2>2 DEF Callback, WaitForAccount, Connect, MarkPending, Resend, Write, WriteFails,
       WriteForgotten, DidSendMessage, DidFailToSendMessage, SaveOmemoError
  <2>3. CASE Encryption(a)
    BY <2>3 DEF Encryption, Encoded, EncodeFails, OmemoEncrypted, OmemoFails, EncodedToNothing,
       OmemoUnanswered
  <2> QED  BY <1>5, <2>1, <2>2, <2>3
<1>6. ASSUME Broker \/ Notification \/ Environment \/ UNCHANGED vars
      PROVE  \/ UNCHANGED <<outstandingBuddies, timers>> \/ Restart
             \/ \E u \in Threads : DeliverEncrypted(u)
  BY <1>6 DEF Broker, Notification, Environment, vars, HandNext, RetryFires, DeliverLogin,
     Reconnect, DidAuthenticate, DidDisconnect, StatusFalls, JoinRoom, GoneSecure, SessionEnds,
     Enqueue, Delete, Orphan
<1>7. CASE UNCHANGED <<outstandingBuddies, timers>>
  BY <1>7 DEF WaitHasTimer
<1> QED  BY <1>1, <1>2, <1>3, <1>4, <1>5, <1>6, <1>7 DEF Next

(* Every wait for an OTR session has its own timer running, whatever other *)
(* timers, sessions and restarts come between: with the timer's fairness   *)
(* this is why such a wait ends.                                           *)
THEOREM WaitIsTimed == Spec => []WaitHasTimer
<1>1. Init => WaitHasTimer
  BY DEF Init, WaitHasTimer
<1> QED  BY <1>1, TimerStep, OwnershipHolds, PTL DEF Spec

-----------------------------------------------------------------------------
(* The table of messages that wait for the stream.                         *)

LEMMA EntryInjective ==
    ASSUME NEW a, NEW b, NEW c, NEW d, Entry(a, c) = Entry(b, d)
    PROVE  a = b
BY DEF Entry

LEMMA EntryStep ==
    ASSUME Ownership, EntryKept, PendingIsGroup, [Next]_vars
    PROVE  EntryKept' /\ PendingIsGroup'
<1> DEFINE Goal == EntryKept' /\ PendingIsGroup'
<1> USE DEF dbVars, brokerVars, tableVars, envVars
<1>t. TypeOK  BY DEF Ownership
<1>o. Sending \subseteq HolderOps /\ "markPending" \notin Sending
  BY DEF Sending, HolderOps
<1>k. ASSUME outstandingMessages \subseteq outstandingMessages',
             \A op \in Sending \cup {"markPending"}, b \in Actions :
                Call(op, b) \in calls' =>
                   \/ Call(op, b) \in calls
                   \/ op \in Sending /\ Entry(b, CollectionOf(b)) \in outstandingMessages'
                   \/ op = "markPending" /\ IsGroup(b)
      PROVE  Goal
  BY <1>k, <1>o DEF EntryKept, PendingIsGroup, CollectionOf, IsGroup
<1>s. ASSUME outstandingMessages \subseteq outstandingMessages',
             \A op \in Sending \cup {"markPending"}, b \in Actions :
                Call(op, b) \in calls' => Call(op, b) \in calls
      PROVE  Goal
  BY <1>s, <1>k
<1>p. ASSUME NEW a \in Actions, NEW o \in Sending, Call(o, a) \in calls,
             calls' = calls \ {Call(o, a)},
             outstandingMessages \ {Entry(a, CollectionOf(a))} \subseteq outstandingMessages'
      PROVE  Goal
  <2>1. o \in Holds(a)  BY <1>p, <1>t, <1>o, HoldsMember
  <2>2. ASSUME NEW op \in Sending, NEW b \in Actions, Call(op, b) \in calls'
        PROVE  Entry(b, CollectionOf(b)) \in outstandingMessages'
    <3>1. Call(op, b) \in calls /\ Entry(b, CollectionOf(b)) \in outstandingMessages
      BY <1>p, <2>2 DEF EntryKept
    <3>2. op \in Holds(b)  BY <1>t, <1>o, <3>1, HoldsMember
    <3>3. b # a
      BY <1>p, <2>1, <2>2, <3>2 DEF Ownership, SingleHolder
    <3>4. Entry(b, CollectionOf(b)) # Entry(a, CollectionOf(a))  BY <3>3, EntryInjective
    <3> QED  BY <1>p, <3>1, <3>4
  <2> QED  BY <1>p, <2>2 DEF EntryKept, PendingIsGroup, CollectionOf, IsGroup
<1>1. ASSUME NEW a \in Actions, NEW o, NEW q \in Ops \ (Sending \cup {"markPending"}),
             Then(Call(o, a), Call(q, a)), UNCHANGED outstandingMessages
      PROVE  Goal
  BY <1>1, <1>s, CallInjective DEF Then
<1>2. ASSUME NEW a \in Actions, NEW o \in Sending, NEW q \in Sending,
             Call(o, a) \in calls, Then(Call(o, a), Call(q, a)), UNCHANGED outstandingMessages
      PROVE  Goal
  <2>1. Entry(a, CollectionOf(a)) \in outstandingMessages  BY <1>2 DEF EntryKept
  <2> QED  BY <1>2, <1>k, <1>o, <2>1, CallInjective DEF Then
<1>3. ASSUME NEW a \in Actions, NEW o, NEW q \in Sending, Then(Call(o, a), Call(q, a)),
             WaitForMessage({Entry(a, CollectionOf(a))})
      PROVE  Goal
  BY <1>3, <1>k, <1>o, CallInjective DEF Then, WaitForMessage
<1>4. ASSUME NEW a \in Actions,
             HandleOffline(a) \/ RequestSession(a) \/ WaitForAccount(a)
      PROVE  Goal
  <2>1. {"register", "otrStart", "connect"} \subseteq Ops \ (Sending \cup {"markPending"})
    BY DEF Ops, HolderOps, Sending
  <2> QED  BY <1>4, <1>1, <2>1 DEF HandleOffline, RequestSession, WaitForAccount
<1>5. ASSUME NEW a \in Actions, SendPlain(a) \/ SendOMEMO(a) \/ SendEncoded(a)
      PROVE  Goal
  <2>1. {"stream", "omemo", "encode"} \subseteq Sending  BY DEF Sending
  <2>2. CollectionOf(a) = "OTRMessage" \/ SendPlain(a)
    BY <1>5 DEF SendOMEMO, SendEncoded, CollectionOf, IsGroup
  <2> QED  BY <1>5, <1>3, <2>1, <2>2 DEF SendPlain, SendOMEMO, SendEncoded
<1>6. ASSUME NEW a \in Actions, SendGroup(a) PROVE Goal
  <2> DEFINE q == IF KindOf[a] = "groupOmemo" THEN "omemo" ELSE "stream"
  <2>1. /\ IsGroup(a)
        /\ calls' = (calls \ {Call("handle", a)}) \cup {Call(q, a), Call("markPending", a)}
        /\ Entry(a, CollectionOf(a)) \in outstandingMessages'
        /\ outstandingMessages \subseteq outstandingMessages'
    BY <1>6 DEF SendGroup, WaitForMessage
  <2>2. q \in Sending  BY DEF Sending
  <2> HIDE DEF q
  <2> QED  BY <1>k, <1>o, <2>1, <2>2, CallInjective
<1>7. ASSUME NEW a \in Actions, \/ Encoded(a) \/ OmemoEncrypted(a) \/ Write(a) \/ WriteFails(a)
      PROVE  Goal
  <2>1. \E o \in Sending, q \in Sending :
           /\ Call(o, a) \in calls /\ Then(Call(o, a), Call(q, a))
           /\ UNCHANGED outstandingMessages
    <3>1. {"encode", "omemo", "stream", "didSend", "didFail"} \subseteq Sending
      BY DEF Sending
    <3> QED  BY <1>7, <3>1 DEF Encoded, OmemoEncrypted, Write, WriteFails, ToStream
  <2> QED  BY <2>1, <1>2
<1>8. ASSUME NEW a \in Actions, DidSendMessage(a) \/ DidFailToSendMessage(a) \/ OmemoFails(a)
      PROVE  Goal
  <2>1. \E o \in Sending :
           /\ Call(o, a) \in calls /\ calls' = calls \ {Call(o, a)}
           /\ outstandingMessages \ {Entry(a, CollectionOf(a))} \subseteq outstandingMessages'
    <3>1. {"omemo", "didSend", "didFail"} \subseteq Sending  BY DEF Sending
    <3> QED
      BY <1>8, <3>1 DEF DidSendMessage, DidFailToSendMessage, OmemoFails, PopMessage, Done
  <2> QED  BY <2>1, <1>p
<1>9. ASSUME NEW a \in Actions, Resend(a) PROVE Goal
  <2>1. "handle" \in Ops \ (Sending \cup {"markPending"})
    BY DEF Ops, HolderOps, Sending
  <2>2. CASE HasRow(a)  BY <1>9, <1>1, <2>1, <2>2 DEF Resend
  <2>3. CASE ~HasRow(a)  BY <1>9, <1>s, <2>3 DEF Resend, Done
  <2> QED  BY <2>2, <2>3
<1>10. ASSUME NEW a \in Actions,
             \/ HandleMissing(a) \/ HandleManual(a) \/ AddBuddyToRoster(a)
             \/ SendGroupNowhere(a) \/ Connect(a) \/ MarkPending(a)
             \/ WriteForgotten(a) \/ InitiateEncryption(a) \/ OtrTimeout(a)
             \/ EncodeFails(a) \/ Enqueue(a) \/ Delete(a) \/ HandleUnsupported(a)
             \/ SendOTRWithoutText(a) \/ SendGroupUnsupported(a) \/ SaveOmemoError(a)
             \/ EncodedToNothing(a) \/ OmemoUnanswered(a) \/ Orphan(a)
      PROVE  Goal
  <2>1. /\ outstandingMessages \subseteq outstandingMessages'
        /\ calls' \subseteq calls
    BY <1>10 DEF HandleMissing, HandleManual, AddBuddyToRoster, SendGroupNowhere, Connect,
       MarkPending, WriteForgotten, InitiateEncryption, OtrTimeout, EncodeFails,
       Enqueue, Delete, HandleUnsupported, SendOTRWithoutText, SendGroupUnsupported,
       SaveOmemoError, EncodedToNothing, OmemoUnanswered, Orphan, WaitForMessage, Done
  <2> QED  BY <2>1, <1>s
<1>11. ASSUME NEW a, NEW op \in {"handle", "resend"},
              calls' \subseteq calls \cup {Call(op, a)}, UNCHANGED outstandingMessages
       PROVE  Goal
  <2>1. op \notin Sending \cup {"markPending"}  BY DEF Sending
  <2> QED  BY <1>11, <1>s, <2>1, CallInjective
<1>12. ASSUME NEW t \in Threads, HandNext(t) \/ RetryFires(t) \/ DeliverEncrypted(t) PROVE Goal
  <2>1. CASE HandNext(t)
    <3>1. calls' \subseteq calls \cup {Call("handle", Head(queue[t]))}
      BY <2>1 DEF HandNext
    <3> QED  BY <2>1, <1>11, <3>1 DEF HandNext
  <2>2. CASE RetryFires(t)
    <3>1. calls' \subseteq calls \cup {Call("handle", slot[t])}
      BY <2>2 DEF RetryFires
    <3> QED  BY <2>2, <1>11, <3>1 DEF RetryFires
  <2>3. CASE DeliverEncrypted(t)
    <3>1. calls' \subseteq calls \cup {Call("resend", outstandingBuddies[t])}
      BY <2>3 DEF DeliverEncrypted
    <3> QED  BY <2>3, <1>11, <3>1 DEF DeliverEncrypted
  <2> QED  BY <1>12, <2>1, <2>2, <2>3
<1>13. ASSUME NEW c \in Accounts, DeliverLogin(c) PROVE Goal
  <2>1. \E a : calls' \subseteq calls \cup {Call("handle", a)}
    BY <1>13 DEF DeliverLogin
  <2> QED  BY <1>13, <1>11, <2>1 DEF DeliverLogin
<1>14. ASSUME NEW t \in Threads, JoinRoom(t) \/ GoneSecure(t) \/ SessionEnds(t) PROVE Goal
  BY <1>14, <1>s DEF JoinRoom, GoneSecure, SessionEnds
<1>15. ASSUME NEW c \in Accounts, Reconnect(c) \/ DidAuthenticate(c) \/ DidDisconnect(c) \/ StatusFalls(c)
       PROVE  Goal
  BY <1>15, <1>s DEF Reconnect, DidAuthenticate, DidDisconnect, StatusFalls
<1>16. CASE Restart
  BY <1>16 DEF Restart, EntryKept, PendingIsGroup
<1>17. CASE UNCHANGED vars
  BY <1>17, <1>s DEF vars
<1>18. ASSUME NEW a \in Actions, OmemoWithoutText(a) \/ OmemoUnavailable(a) PROVE Goal
  <2>1. /\ outstandingMessages \subseteq outstandingMessages'
        /\ \A c \in calls' : \/ c \in calls \/ c = Call("saveError", a)
                             \/ c = Call("markPending", a) /\ IsGroup(a)
    <3>1. PICK later \in SUBSET {"saveError"} : OmemoGivesUp(a, later)
      BY <1>18 DEF OmemoWithoutText, OmemoUnavailable
    <3>2. CASE IsGroup(a)
      BY <3>1, <3>2 DEF OmemoGivesUp, WaitForMessage
    <3>3. CASE ~IsGroup(a)
      <4>1. calls' = (calls \ {Call("handle", a)}) \cup {Call(op, a) : op \in later}
        BY <3>1, <3>3 DEF OmemoGivesUp
      <4>2. outstandingMessages \subseteq outstandingMessages'
        BY <3>1, <3>3 DEF OmemoGivesUp, WaitForMessage
      <4> QED  BY <4>1, <4>2
    <3> QED  BY <3>2, <3>3
  <2>2. "saveError" \notin Sending /\ "saveError" # "markPending"  BY DEF Sending
  <2> QED  BY <1>k, <1>o, <2>1, <2>2, CallInjective
<1> QED
  BY <1>18, <1>4, <1>5, <1>6, <1>7, <1>8, <1>9, <1>10, <1>12, <1>13, <1>14, <1>15, <1>16, <1>17
  DEF Next, Broker, Handle, Callback, Encryption, Notification, Environment

-----------------------------------------------------------------------------
(* Where flaws, OMEMO and late errors come from.                           *)

(* A message is saved with its flaw; what becomes of it later is only that *)
(* its owner goes.                                                         *)
LEMMA FlawChanges ==
    ASSUME TypeOK, [Next]_vars, NEW a \in Actions, flaw'[a] # flaw[a]
    PROVE  \/ /\ saved[a] = "new"
              /\ \/ flaw'[a] \in {"nil", "empty"} /\ "blank" \in Faults
                 \/ flaw'[a] = "unsupported" /\ "unsupported" \in Faults
           \/ flaw[a] = "none" /\ flaw'[a] = "orphan" /\ "orphan" \in Faults
<1> USE DEF dbVars
<1>1. ASSUME NEW b \in Actions, Enqueue(b)
      PROVE  /\ a = b /\ saved[b] = "new"
             /\ \/ flaw'[b] \in {"nil", "empty"} /\ "blank" \in Faults
                \/ flaw'[b] = "unsupported" /\ "unsupported" \in Faults
  <2>1. ASSUME NEW f, flaw' = [flaw EXCEPT ![b] = f] PROVE a = b /\ flaw'[b] = f
    BY <2>1 DEF TypeOK
  <2>2. \/ UNCHANGED flaw
        \/ "blank" \in Faults /\ (\E f \in {"nil", "empty"} : flaw' = [flaw EXCEPT ![b] = f])
        \/ "unsupported" \in Faults /\ flaw' = [flaw EXCEPT ![b] = "unsupported"]
    <3>1. \/ UNCHANGED <<flaw, faults>>
          \/ Fault("blank") /\ (\E f \in {"nil", "empty"} : flaw' = [flaw EXCEPT ![b] = f])
          \/ Fault("unsupported") /\ flaw' = [flaw EXCEPT ![b] = "unsupported"]
      BY <1>1, Zenon DEF Enqueue
    <3> QED  BY <3>1 DEF Fault
  <2>3. saved[b] = "new"  BY <1>1, Zenon DEF Enqueue
  <2>4. CASE \E f \in {"nil", "empty"} : flaw' = [flaw EXCEPT ![b] = f]
    BY <2>1, <2>2, <2>3, <2>4 DEF TypeOK
  <2>5. CASE flaw' = [flaw EXCEPT ![b] = "unsupported"]
    BY <2>1, <2>2, <2>3, <2>5 DEF TypeOK
  <2> QED  BY <2>2, <2>4, <2>5
<1>2. ASSUME NEW b \in Actions, Orphan(b)
      PROVE  a = b /\ flaw[b] = "none" /\ flaw'[b] = "orphan" /\ "orphan" \in Faults
  BY <1>2 DEF Orphan, Fault, TypeOK
<1>3. (\E b \in Actions : Enqueue(b) \/ Orphan(b)) \/ UNCHANGED flaw
  BY ZenonT(60) DEF Next, Broker, Handle, Callback, Encryption, Notification, Environment, vars,
     HandNext, RetryFires, HandleMissing, HandleOffline, HandleManual, AddBuddyToRoster,
     SendPlain, SendGroupNowhere, SendGroup, SendOMEMO, SendEncoded, RequestSession,
     WaitForAccount, Connect, MarkPending, InitiateEncryption, Resend, OtrTimeout, Write,
     WriteFails, WriteForgotten, DidSendMessage, DidFailToSendMessage, Encoded, EncodeFails,
     OmemoEncrypted, OmemoFails, HandleUnsupported, SendOTRWithoutText, SendGroupUnsupported,
     OmemoWithoutText, OmemoUnavailable, OmemoGivesUp, SaveOmemoError, EncodedToNothing,
     OmemoUnanswered, Delete, DeliverLogin, DeliverEncrypted, Reconnect, DidAuthenticate,
     DidDisconnect, StatusFalls, JoinRoom, GoneSecure, SessionEnds, Restart
<1>4. CASE \E b \in Actions : Enqueue(b)
  <2> PICK b \in Actions : Enqueue(b)  BY <1>4
  <2> QED  BY <1>1
<1>5. CASE \E b \in Actions : Orphan(b)
  <2> PICK b \in Actions : Orphan(b)  BY <1>5
  <2> QED  BY <1>2
<1> QED  BY <1>3, <1>4, <1>5

(* Who dispatches a late error, and who hands a message to OMEMO.          *)
LEMMA CallComes ==
    ASSUME [Next]_vars, NEW op \in {"saveError", "omemo"}, NEW a \in Actions,
           Call(op, a) \in calls', Call(op, a) \notin calls
    PROVE  \/ op = "saveError" /\ OmemoUnavailable(a)
           \/ op = "omemo" /\ UsesOmemo(a)
<1> DEFINE Goal == \/ op = "saveError" /\ OmemoUnavailable(a)
                   \/ op = "omemo" /\ UsesOmemo(a)
<1>s. ASSUME NEW b, NEW q, calls' \subseteq calls \cup {Call(q, b)} PROVE q = op /\ b = a
  BY <1>s, CallInjective
<1>1. ASSUME NEW b \in Actions,
             \/ HandleOffline(b) \/ SendPlain(b) \/ SendEncoded(b) \/ RequestSession(b)
             \/ WaitForAccount(b) \/ Encoded(b) \/ OmemoEncrypted(b) \/ Write(b)
             \/ WriteFails(b)
      PROVE  FALSE
  <2>1. \E q \in Ops \ {"saveError", "omemo"} : calls' \subseteq calls \cup {Call(q, b)}
    <3>1. {"register", "stream", "encode", "otrStart", "connect", "didSend", "didFail"}
             \subseteq Ops \ {"saveError", "omemo"}
      BY DEF Ops, HolderOps
    <3> QED
      BY <1>1, <3>1 DEF HandleOffline, SendPlain, SendEncoded, RequestSession, WaitForAccount,
         Encoded, OmemoEncrypted, Write, WriteFails, Then
  <2> QED  BY <2>1, <1>s
<1>2. ASSUME NEW b \in Actions, SendOMEMO(b) PROVE Goal
  <2>1. calls' \subseteq calls \cup {Call("omemo", b)}  BY <1>2 DEF SendOMEMO, Then
  <2> QED  BY <1>2, <1>s, <2>1 DEF SendOMEMO, UsesOmemo
<1>3. ASSUME NEW b \in Actions, SendGroup(b) PROVE Goal
  <2>1. \A c \in calls' : \/ c \in calls \/ c = Call("stream", b) \/ c = Call("markPending", b)
                          \/ c = Call("omemo", b) /\ KindOf[b] = "groupOmemo"
    BY <1>3 DEF SendGroup
  <2> QED  BY <2>1, CallInjective DEF UsesOmemo
<1>4. ASSUME NEW b \in Actions, OmemoWithoutText(b) PROVE FALSE
  <2>1. calls' \subseteq calls \cup {Call("markPending", b)}
    BY <1>4 DEF OmemoWithoutText, OmemoGivesUp
  <2> QED  BY <2>1, <1>s
<1>5. ASSUME NEW b \in Actions, OmemoUnavailable(b) PROVE Goal
  <2>1. \A c \in calls' : \/ c \in calls \/ c = Call("saveError", b) \/ c = Call("markPending", b)
    BY <1>5 DEF OmemoUnavailable, OmemoGivesUp
  <2> QED  BY <1>5, <2>1, CallInjective
<1>6. ASSUME NEW b \in Actions, Resend(b) PROVE FALSE
  <2>1. calls' \subseteq calls \cup {Call("handle", b)}  BY <1>6 DEF Resend, Then, Done
  <2> QED  BY <2>1, <1>s
<1>7. ASSUME NEW t \in Threads, HandNext(t) \/ RetryFires(t) \/ DeliverEncrypted(t) PROVE FALSE
  <2>1. \E q \in {"handle", "resend"} : \E b : calls' \subseteq calls \cup {Call(q, b)}
    BY <1>7 DEF HandNext, RetryFires, DeliverEncrypted
  <2> QED  BY <2>1, <1>s
<1>8. ASSUME NEW c \in Accounts, DeliverLogin(c) PROVE FALSE
  <2>1. \E b : calls' \subseteq calls \cup {Call("handle", b)}  BY <1>8 DEF DeliverLogin
  <2> QED  BY <2>1, <1>s
<1>9. ASSUME calls' \subseteq calls PROVE FALSE
  BY <1>9
<1>10. ASSUME NEW b \in Actions, Handle(b)
       PROVE  \/ HandleOffline(b) \/ SendPlain(b) \/ SendEncoded(b) \/ RequestSession(b)
              \/ SendOMEMO(b) \/ SendGroup(b) \/ OmemoWithoutText(b) \/ OmemoUnavailable(b)
              \/ calls' \subseteq calls
  BY <1>10 DEF Handle, HandleMissing, HandleManual, AddBuddyToRoster, HandleUnsupported,
     SendGroupNowhere, SendGroupUnsupported, SendOTRWithoutText, Done
<1>11. ASSUME NEW b \in Actions, Callback(b) \/ Encryption(b)
       PROVE  \/ WaitForAccount(b) \/ Encoded(b) \/ OmemoEncrypted(b) \/ Write(b)
              \/ WriteFails(b) \/ Resend(b) \/ calls' \subseteq calls
  BY <1>11 DEF Callback, Encryption, Connect, MarkPending, SaveOmemoError, InitiateEncryption,
     OtrTimeout, WriteForgotten, DidSendMessage, DidFailToSendMessage, EncodeFails,
     EncodedToNothing, OmemoFails, OmemoUnanswered, Done
<1>12. ASSUME Environment \/ UNCHANGED vars PROVE calls' \subseteq calls
  BY <1>12 DEF Environment, vars, Reconnect, DidAuthenticate, DidDisconnect, StatusFalls,
     JoinRoom, GoneSecure, SessionEnds, Enqueue, Delete, Orphan, Restart
<1> QED
  BY <1>1, <1>2, <1>3, <1>4, <1>5, <1>6, <1>7, <1>8, <1>9, <1>10, <1>11, <1>12
  DEF Next, Broker, Notification

LEMMA CausesStep == TypeOK /\ CausesKnown /\ [Next]_vars => CausesKnown'
<1> SUFFICES ASSUME TypeOK, CausesKnown, [Next]_vars, NEW a \in Actions
             PROVE  /\ flaw'[a] \in {"nil", "empty"} => "blank" \in Faults
                    /\ flaw'[a] \in {"unsupported", "orphan"} => flaw'[a] \in Faults
                    /\ Call("saveError", a) \in calls' => "unavailable" \in Faults
                    /\ Call("omemo", a) \in calls' => UsesOmemo(a)
  BY DEF CausesKnown, UsesOmemo
<1>1. \/ flaw'[a] = flaw[a]
      \/ flaw'[a] \in {"nil", "empty"} /\ "blank" \in Faults
      \/ flaw'[a] \in {"unsupported", "orphan"} /\ flaw'[a] \in Faults
  <2>1. CASE flaw'[a] # flaw[a]
    <3> DEFINE blank == flaw'[a] \in {"nil", "empty"} /\ "blank" \in Faults
               other == flaw'[a] = "unsupported" /\ "unsupported" \in Faults
               orphan == flaw'[a] = "orphan" /\ "orphan" \in Faults
    <3>1. blank \/ other \/ orphan  BY <2>1, FlawChanges
    <3> QED  BY <3>1
  <2> QED  BY <2>1
<1>2. Call("saveError", a) \in calls' =>
         Call("saveError", a) \in calls \/ OmemoUnavailable(a)
  BY CallComes
<1>3. Call("omemo", a) \in calls' => Call("omemo", a) \in calls \/ UsesOmemo(a)
  BY CallComes
<1> QED  BY <1>1, <1>2, <1>3 DEF CausesKnown, OmemoUnavailable, Fault

-----------------------------------------------------------------------------
(* Verdicts.                                                               *)

(* The handler's own late write of "pending" to a room message.            *)
TakesBack(a) == IsGroup(a) /\ Call("markPending", a) \in calls /\ result'[a] = "pending"

(* Whoever else changes what the row says of a message, the late error of  *)
(* OMEMO apart, uses its completion.                                       *)
LEMMA VerdictChanges ==
    ASSUME Ownership, RowsOnce, EntryKept, PendingIsGroup, TypeOK', [Next]_vars,
           NEW a \in Actions, result'[a] # result[a], ~TakesBack(a), ~SaveOmemoError(a)
    PROVE  /\ result'[a] \in {"sent", "error"} /\ InDatabase(a)
           /\ Holds(a) # {} /\ Holds(a)' = {}
           /\ ~HasRow(a)' /\ paused' = paused
<1> DEFINE Goal == /\ result'[a] \in {"sent", "error"} /\ InDatabase(a)
                   /\ Holds(a) # {} /\ Holds(a)' = {}
                   /\ ~HasRow(a)' /\ paused' = paused
<1> USE DEF dbVars, brokerVars, tableVars, envVars
<1>t. TypeOK /\ ThreadOf[a] \in Threads
  BY ConstantsAssumption DEF Ownership
<1>d. ASSUME NEW o \in HolderOps, Call(o, a) \in calls, Done(Call(o, a)),
             UNCHANGED <<outstandingAccounts, outstandingBuddies>>
      PROVE  Holds(a) # {} /\ Holds(a)' = {}
  <2>1. o \in Holds(a)  BY <1>d, <1>t, HoldsMember
  <2>2. \A p \in Holds(a)' : p \in Holds(a) /\ p # o
    BY <1>d, <1>t, HoldsMember, HoldsMemberNext DEF Done, HolderOps
  <2> QED  BY <2>1, <2>2 DEF Ownership, SingleHolder
<1>e. ASSUME NEW b \in Actions, SaveError(b)
      PROVE  a = b /\ InDatabase(a) /\ result'[a] = "error"
  BY <1>e, <1>t DEF SaveError, TypeOK
<1>f. ASSUME Finish(a) PROVE ~HasRow(a)' /\ paused' = paused
  BY <1>f, <1>t, RowLeaves DEF Finish
<1>g. ASSUME NEW o \in Sending, Call(o, a) \in calls, PopMessage(a)
      PROVE  Finish(a)
  BY <1>g DEF EntryKept, PopMessage
<1>o. {"omemo", "didSend", "didFail"} \subseteq HolderOps \cap Sending /\ "encode" \in HolderOps
  BY DEF Sending, HolderOps
<1>1. ASSUME NEW b \in Actions, MarkPending(b) PROVE FALSE
  <2>1. a = b /\ result'[a] = "pending"  BY <1>1, <1>t DEF MarkPending, TypeOK
  <2> QED  BY <1>1, <2>1 DEF MarkPending, PendingIsGroup, TakesBack
<1>2. ASSUME NEW b \in Actions, OtrTimeout(b) PROVE Goal
  <2>1. outstandingBuddies[ThreadOf[b]] # None  BY <1>2 DEF OtrTimeout
  <2>2. PICK w \in Actions : w = outstandingBuddies[ThreadOf[b]] /\ SaveError(w) /\ Finish(w)
    BY <1>2, <1>t, <2>1, ConstantsAssumption DEF OtrTimeout, TypeOK
  <2>3. a = w /\ InDatabase(a) /\ result'[a] = "error"  BY <1>e, <2>2
  <2>4. ThreadOf[b] = ThreadOf[a]
    BY <2>1, <2>2, <2>3, ConstantsAssumption DEF Ownership, FiledByOwner
  <2>5. "buddy" \in Holds(a)  BY <1>t, <2>2, <2>3, <2>4, HoldsMember
  <2>6. outstandingBuddies'[ThreadOf[a]] # a
    BY <1>2, <1>t, <2>4, ConstantsAssumption DEF OtrTimeout, TypeOK
  <2>7. \A p \in Holds(a)' : p \in Holds(a) /\ p # "buddy"
    BY <1>2, <1>t, <2>6, HoldsMember, HoldsMemberNext DEF OtrTimeout, HolderOps
  <2>8. Holds(a)' = {}  BY <2>5, <2>7 DEF Ownership, SingleHolder
  <2> QED  BY <1>f, <2>2, <2>3, <2>5, <2>8
<1>3. ASSUME NEW b \in Actions, EncodeFails(b) PROVE Goal
  <2>1. SaveError(b) /\ RemoveRow(b)  BY <1>3 DEF EncodeFails
  <2>2. a = b /\ InDatabase(a) /\ result'[a] = "error"  BY <1>e, <2>1
  <2>3. ~HasRow(a)'  BY <1>t, <2>1, <2>2, RowLeaves
  <2> QED  BY <1>3, <1>d, <1>o, <2>2, <2>3 DEF EncodeFails
<1>4. ASSUME NEW b \in Actions, OmemoFails(b) PROVE Goal
  <2>1. a = b /\ InDatabase(a) /\ result'[a] = "error"
    BY <1>4, <1>e DEF OmemoFails
  <2>2. Finish(a)  BY <1>4, <1>g, <1>o, <2>1 DEF OmemoFails
  <2> QED  BY <1>4, <1>d, <1>f, <1>o, <2>1, <2>2 DEF OmemoFails
<1>5. ASSUME NEW b \in Actions, DidSendMessage(b) PROVE Goal
  <2>1. InDatabase(b) /\ PopMessage(b) /\ result' = [result EXCEPT ![b] = "sent"]
    BY <1>5 DEF DidSendMessage
  <2>2. a = b /\ result'[a] = "sent"  BY <1>t, <2>1 DEF TypeOK
  <2>3. Finish(a)  BY <1>5, <1>g, <1>o, <2>1, <2>2 DEF DidSendMessage
  <2> QED  BY <1>5, <1>d, <1>f, <1>o, <2>1, <2>2, <2>3 DEF DidSendMessage
<1>6. ASSUME NEW b \in Actions, DidFailToSendMessage(b) PROVE Goal
  <2>1. SaveError(b)  BY <1>6 DEF DidFailToSendMessage
  <2>2. a = b /\ InDatabase(a) /\ result'[a] = "error"  BY <1>e, <2>1
  <2>3. Finish(a)  BY <1>6, <1>g, <1>o, <2>2 DEF DidFailToSendMessage
  <2> QED  BY <1>6, <1>d, <1>f, <1>o, <2>2, <2>3 DEF DidFailToSendMessage
<1>8. ASSUME NEW b \in Actions, SaveOmemoError(b) PROVE FALSE
  <2>1. a = b  BY <1>8, <1>e DEF SaveOmemoError
  <2> QED  BY <1>8, <2>1
<1>7. \/ UNCHANGED result
      \/ \E b \in Actions : \/ MarkPending(b) \/ OtrTimeout(b) \/ EncodeFails(b)
                            \/ OmemoFails(b) \/ DidSendMessage(b) \/ DidFailToSendMessage(b)
                            \/ SaveOmemoError(b)
  <2>1. CASE Broker \/ Notification \/ UNCHANGED vars
    BY <2>1 DEF Broker, Notification, HandNext, RetryFires, DeliverLogin, DeliverEncrypted, vars
  <2>2. ASSUME NEW b \in Actions, Handle(b) PROVE UNCHANGED result
    BY <2>2 DEF Handle, HandleMissing, HandleOffline, HandleManual, AddBuddyToRoster,
       SendPlain, SendGroupNowhere, SendGroup, SendOMEMO, SendEncoded, RequestSession,
       HandleUnsupported, SendOTRWithoutText, SendGroupUnsupported, OmemoWithoutText,
       OmemoUnavailable, OmemoGivesUp
  <2>3. ASSUME NEW b \in Actions, Callback(b)
        PROVE  \/ UNCHANGED result \/ MarkPending(b) \/ OtrTimeout(b)
               \/ DidSendMessage(b) \/ DidFailToSendMessage(b) \/ SaveOmemoError(b)
    BY <2>3 DEF Callback, WaitForAccount, Connect, InitiateEncryption, Resend, Write,
       WriteFails, WriteForgotten
  <2>4. ASSUME NEW b \in Actions, Encryption(b)
        PROVE  UNCHANGED result \/ EncodeFails(b) \/ OmemoFails(b)
    BY <2>4 DEF Encryption, Encoded, OmemoEncrypted, EncodedToNothing, OmemoUnanswered
  <2>5. CASE Environment
    BY <2>5 DEF Environment, Reconnect, DidAuthenticate, DidDisconnect, StatusFalls,
       JoinRoom, GoneSecure, SessionEnds, Enqueue, Delete, Orphan, Restart
  <2> QED  BY <2>1, <2>2, <2>3, <2>4, <2>5 DEF Next
<1> QED  BY <1>1, <1>2, <1>3, <1>4, <1>5, <1>6, <1>7, <1>8

(* Only saving a message gives it a row.                                   *)
LEMMA RowsCome ==
    ASSUME Ownership, RowsOnce, [Next]_vars, NEW a \in Actions, HasRow(a)'
    PROVE  HasRow(a) \/ saved[a] = "new"
<1>t. TypeOK /\ \A b \in Actions : ThreadOf[b] \in Threads
  BY ConstantsAssumption DEF Ownership
<1>1. CASE Submits
  <2>1. PICK b \in Actions : /\ saved[b] = "new"
                             /\ queue' = [queue EXCEPT ![ThreadOf[b]] = Append(@, b)]
    BY <1>1 DEF Submits
  <2>2. CASE ThreadOf[a] = ThreadOf[b]
    <3>1. queue[ThreadOf[a]] \in Seq(Actions) /\ Contains(Append(queue[ThreadOf[a]], b), a)
      BY <1>t, <2>1, <2>2 DEF TypeOK, HasRow, Contains
    <3> QED  BY <2>1, <3>1, AppendContains DEF HasRow, Contains
  <2>3. CASE ThreadOf[a] # ThreadOf[b]
    BY <1>t, <2>1, <2>3 DEF TypeOK, HasRow
  <2> QED  BY <2>2, <2>3
<1>2. CASE Finishes \/ Withdraws
  <2>1. PICK b \in Actions : RemoveRow(b)
    BY <1>2 DEF Finishes, Finish, Withdraws
  <2> QED  BY <2>1, RowLeaves
<1>3. CASE Takes \/ Sends \/ Pauses \/ Waits \/ Restart
  BY <1>3 DEF Takes, HandNext, Sends, Write, Pauses, Waits, Restart, HasRow, dbVars
<1> QED  BY <1>1, <1>2, <1>3, StepShapes

(* An action without a row and without a holder of its completion does not *)
(* get a turn again.                                                       *)
LEMMA StaysOver ==
    ASSUME Ownership, TypeOK', [Next]_vars, NEW a \in Actions,
           ~HasRow(a), Holds(a) = {}, ThreadOf[a] \in paused => slot[ThreadOf[a]] # a
    PROVE  /\ Holds(a)' = {}
           /\ ThreadOf[a] \in paused' => slot'[ThreadOf[a]] # a
<1>t. TypeOK /\ a # None /\ \A b \in Actions : ThreadOf[b] \in Threads
  BY ConstantsAssumption DEF Ownership
<1>h. ASSUME NEW t \in Threads, HandNext(t) PROVE Head(queue[t]) # a
  <2>1. queue[t] \in Seq(Actions) /\ queue[t] # <<>>  BY <1>h, <1>t DEF HandNext, TypeOK
  <2>2. 1 \in 1..Len(queue[t]) /\ Head(queue[t]) = queue[t][1]  BY <2>1, EmptySeq
  <2>3. ASSUME queue[t][1] = a PROVE FALSE
    <3>1. ThreadOf[a] = t  BY <2>2, <2>3 DEF Ownership, FiledByOwner
    <3> QED  BY <2>2, <2>3, <3>1 DEF HasRow
  <2> QED  BY <2>2, <2>3
<1>1. Holds(a)' = {}
  <2> SUFFICES ASSUME NEW p \in Holds(a)' PROVE FALSE
    OBVIOUS
  <2>1. ASSUME NEW t \in Threads, RetryFires(t), a = slot[t] PROVE FALSE
    BY <2>1, <1>t, ConstantsAssumption DEF RetryFires, Ownership, FiledByOwner
  <2> QED  BY <2>1, <1>h, Gains
<1>2. ASSUME ThreadOf[a] \in paused', slot'[ThreadOf[a]] = a PROVE FALSE
  <2>1. CASE Submits \/ Withdraws \/ Waits
    BY <1>2, <2>1 DEF Submits, Withdraws, Waits
  <2>2. CASE Takes
    <3>1. PICK t \in Threads : HandNext(t)  BY <2>2 DEF Takes
    <3>2. slot'[ThreadOf[a]] = slot[ThreadOf[a]] /\ paused' = paused
      BY <1>2, <1>t, <1>h, <3>1 DEF HandNext, TypeOK
    <3> QED  BY <1>2, <3>2
  <2>3. CASE Sends
    BY <1>2, <2>3 DEF Sends, Write, brokerVars
  <2>4. CASE Finishes
    <3>1. PICK b \in Actions : Finish(b)  BY <2>4 DEF Finishes
    <3>2. paused' = paused /\ slot'[ThreadOf[a]] \in {None, slot[ThreadOf[a]]}
      BY <1>t, <3>1 DEF Finish, TypeOK
    <3> QED  BY <1>2, <1>t, <3>2
  <2>5. CASE Pauses
    <3>1. PICK b \in Actions : /\ "handle" \in Holds(b) /\ slot' = slot
                               /\ paused' = paused \cup {ThreadOf[b]}
      BY <2>5 DEF Pauses
    <3>2. slot[ThreadOf[b]] = b /\ b # a  BY <3>1 DEF Ownership, CompletionOwned
    <3> QED  BY <1>2, <3>1, <3>2
  <2>6. CASE Restart  BY <1>2, <2>6 DEF Restart
  <2> QED  BY <2>1, <2>2, <2>3, <2>4, <2>5, <2>6, StepShapes
<1> QED  BY <1>1, <1>2

(* Over is for good, and is what giving a message up leaves.               *)
LEMMA OverStays ==
    ASSUME Ownership, RowsOnce, TypeOK', [Next]_vars, NEW a \in Actions, Over(a)
    PROVE  Over(a)'
<1>1. saved'[a] # "new"  BY StaysSaved DEF Ownership, Over
<1>2. ~HasRow(a)'  BY RowsCome DEF Over
<1>3. Holds(a)' = {} /\ (ThreadOf[a] \in paused' => slot'[ThreadOf[a]] # a)
  BY StaysOver DEF Over
<1> QED  BY <1>1, <1>2, <1>3 DEF Over

LEMMA GivenUpIsOver ==
    ASSUME Ownership, RowsOnce, TypeOK', NEW a \in Actions, OmemoUnavailable(a)
    PROVE  Holds(a) # {} /\ Over(a)' /\ result' = result
<1>1. /\ Call("handle", a) \in calls /\ InDatabase(a) /\ Finish(a)
      /\ UNCHANGED <<saved, result, outstandingAccounts, outstandingBuddies>>
      /\ \A c \in calls' : \/ c \in calls /\ c # Call("handle", a)
                           \/ \E op \in {"saveError", "markPending"} : c = Call(op, a)
  BY DEF OmemoUnavailable, OmemoGivesUp, Sendable, Handling
<1>2. "handle" \in HolderOps /\ "saveError" \notin HolderOps /\ "markPending" \notin HolderOps
  BY DEF HolderOps
<1>3. TypeOK /\ "handle" \in Holds(a)  BY <1>1, <1>2, HoldsMember DEF Ownership
<1>4. \A p \in Holds(a)' : p \in Holds(a) /\ p # "handle"
  BY <1>1, <1>2, <1>3, HoldsMember, HoldsMemberNext, CallInjective DEF HolderOps
<1>5. Holds(a)' = {}  BY <1>3, <1>4 DEF Ownership, SingleHolder
<1>6. ~HasRow(a)'  BY <1>1, RowLeaves DEF Finish
<1>7. ThreadOf[a] \notin paused'
  BY <1>1, <1>3 DEF Ownership, CompletionOwned, Finish
<1> QED  BY <1>1, <1>3, <1>5, <1>6, <1>7 DEF Over, InDatabase

LEMMA DeliveryStep == DeliveryInv /\ [Next]_vars => DeliveryInv'
<1> SUFFICES ASSUME DeliveryInv, [Next]_vars PROVE DeliveryInv'
  OBVIOUS
<1>1. /\ Ownership /\ WireInv /\ RowsOnce /\ EntryKept /\ PendingIsGroup /\ SettledIsOver
      /\ LateErrorIsOver /\ CausesKnown
  BY DEF DeliveryInv, WireInv
<1>2. Ownership' /\ TypeOK' /\ WireInv' /\ EntryKept' /\ PendingIsGroup' /\ CausesKnown'
  BY <1>1, OwnershipStep, WireStep, EntryStep, CausesStep DEF Ownership
<1>3. ASSUME NEW a \in Actions, result'[a] \in {"sent", "error"}
      PROVE  Over(a)'
  <2>1. CASE result'[a] = result[a]
    BY <1>1, <1>2, <1>3, <2>1, OverStays DEF SettledIsOver
  <2>2. CASE result'[a] # result[a] /\ ~SaveOmemoError(a)
    <3>1. /\ InDatabase(a) /\ Holds(a) # {} /\ Holds(a)' = {}
          /\ ~HasRow(a)' /\ paused' = paused
      BY <1>1, <1>2, <1>3, <2>2, VerdictChanges DEF TakesBack
    <3>2. saved'[a] # "new"  BY <1>1, <3>1, StaysSaved DEF Ownership, InDatabase
    <3>3. ThreadOf[a] \notin paused  BY <1>1, <3>1 DEF Ownership, CompletionOwned
    <3> QED  BY <3>1, <3>2, <3>3 DEF Over
  <2>3. CASE SaveOmemoError(a)
    <3>1. Over(a)  BY <1>1, <2>3 DEF SaveOmemoError, LateErrorIsOver
    <3> QED  BY <1>1, <1>2, <3>1, OverStays
  <2> QED  BY <2>1, <2>2, <2>3
<1>4. SettledIsOver'  BY <1>3 DEF SettledIsOver
<1>5. ASSUME NEW a \in Actions, Call("saveError", a) \in calls'
      PROVE  Over(a)' /\ result'[a] # "sent"
  <2>1. CASE Call("saveError", a) \in calls
    <3>1. Over(a) /\ result[a] # "sent"  BY <1>1, <2>1 DEF LateErrorIsOver
    <3>2. Over(a)'  BY <1>1, <1>2, <3>1, OverStays
    <3>3. ASSUME SaveOmemoError(a) PROVE FALSE
      BY <1>5, <3>3 DEF SaveOmemoError, Done
    <3>4. result'[a] = result[a] \/ TakesBack(a)
      BY <1>1, <1>2, <3>1, <3>3, VerdictChanges DEF Over
    <3> QED  BY <3>1, <3>2, <3>4 DEF TakesBack
  <2>2. CASE Call("saveError", a) \notin calls
    <3>1. OmemoUnavailable(a)  BY <1>5, <2>2, CallComes
    <3>2. Holds(a) # {} /\ Over(a)' /\ result' = result
      BY <1>1, <1>2, <3>1, GivenUpIsOver
    <3> QED  BY <1>1, <3>2 DEF SettledIsOver, Over
  <2> QED  BY <2>1, <2>2
<1>6. LateErrorIsOver'  BY <1>5 DEF LateErrorIsOver
<1> QED  BY <1>2, <1>4, <1>6 DEF DeliveryInv

LEMMA DeliveryInit == Init => DeliveryInv
<1> SUFFICES ASSUME Init PROVE DeliveryInv
  OBVIOUS
<1>1. EntryKept /\ PendingIsGroup /\ SettledIsOver /\ LateErrorIsOver /\ CausesKnown
  BY DEF Init, EntryKept, PendingIsGroup, SettledIsOver, LateErrorIsOver, CausesKnown
<1> QED  BY <1>1, OwnershipInit, WireInit DEF DeliveryInv

LEMMA DeliveryHolds == Spec => []DeliveryInv
<1> QED  BY DeliveryInit, DeliveryStep, PTL DEF Spec

LEMMA VerdictStep == DeliveryInv /\ [Next]_vars =>
    \A a \in Actions : result[a] \in {"sent", "error"} /\ result'[a] # result[a] => TakesBack(a)
<1> SUFFICES ASSUME DeliveryInv, [Next]_vars, NEW a \in Actions,
                    result[a] \in {"sent", "error"}, result'[a] # result[a], ~TakesBack(a)
             PROVE  FALSE
  OBVIOUS
<1>1. TypeOK' /\ TypeOK /\ Ownership /\ RowsOnce /\ EntryKept /\ PendingIsGroup
  BY OwnershipStep DEF DeliveryInv, Ownership, WireInv
<1>2. CASE SaveOmemoError(a)
  <2>1. result[a] # "sent"  BY <1>2 DEF SaveOmemoError, DeliveryInv, LateErrorIsOver
  <2>2. result'[a] \in {"error", result[a]}
    BY <1>1, <1>2 DEF SaveOmemoError, SaveError, TypeOK
  <2> QED  BY <2>1, <2>2
<1>3. CASE ~SaveOmemoError(a)
  <2>1. Holds(a) # {}  BY <1>1, <1>3, VerdictChanges
  <2> QED  BY <2>1 DEF DeliveryInv, SettledIsOver, Over
<1> QED  BY <1>2, <1>3

(* The stored verdict of a message never falls back, whatever late timers, *)
(* failures, deletions and restarts follow; that of a room message does in *)
(* one way only, the handler's own write of "pending" that comes after the *)
(* stream's answer.                                                        *)
THEOREM VerdictStands == Spec => VerdictIsFinal
<1>1. DeliveryInv /\ [Next]_vars =>
         [\A a \in Actions :
             result[a] \in {"sent", "error"} /\ result'[a] # result[a] =>
                IsGroup(a) /\ Call("markPending", a) \in calls /\ result'[a] = "pending"]_vars
  BY VerdictStep DEF TakesBack
<1> QED  BY <1>1, DeliveryHolds, PTL DEF Spec, VerdictIsFinal

-----------------------------------------------------------------------------
(* Leaving the queue.                                                      *)

LEMMA OthersStay ==
    ASSUME TypeOK, NEW a \in Actions, NEW b \in Actions, a # b, RemoveRow(b), HasRow(a)
    PROVE  HasRow(a)'
<1>1. ThreadOf[a] \in Threads /\ ThreadOf[b] \in Threads /\ queue \in [Threads -> Seq(Actions)]
  BY ConstantsAssumption DEF TypeOK
<1>2. queue'[ThreadOf[a]] = IF ThreadOf[a] = ThreadOf[b] THEN Without(queue[ThreadOf[a]], b)
                                                       ELSE queue[ThreadOf[a]]
  BY <1>1 DEF RemoveRow
<1>3. PICK j \in 1..Len(queue[ThreadOf[a]]) : queue[ThreadOf[a]][j] = a
  BY DEF HasRow
<1>4. CASE ThreadOf[a] = ThreadOf[b] /\ \E i \in 1..Len(queue[ThreadOf[a]]) : queue[ThreadOf[a]][i] = b
  <2> DEFINE s == queue[ThreadOf[a]]
             w == Without(s, b)
  <2>0. /\ s \in Seq(Actions) /\ \E i \in 1..Len(s) : s[i] = b
        /\ queue'[ThreadOf[a]] = w /\ s[j] = a /\ j \in 1..Len(s)
    BY <1>1, <1>2, <1>3, <1>4
  <2> HIDE DEF s
  <2>1. Len(s) \in Nat /\ Len(w) = Len(s) - 1
    BY <2>0, WithoutByIndex
  <2>2. PICK k \in 1..Len(s) :
           s[k] = b /\ \A i \in 1..(Len(s) - 1) : w[i] = IF i < k THEN s[i] ELSE s[i + 1]
    BY <2>0, WithoutByIndex
  <2>3. w = queue'[ThreadOf[a]] /\ s[j] = a /\ j \in 1..Len(s)  BY <2>0
  <2> HIDE DEF w
  <2>4. j # k  BY <2>2, <2>3
  <2>5. CASE j < k
    <3>1. j \in 1..(Len(s) - 1)  BY <2>1, <2>2, <2>3, <2>5
    <3>2. w[j] = a  BY <2>2, <2>3, <2>5, <3>1
    <3> QED  BY <2>1, <2>3, <3>1, <3>2 DEF HasRow
  <2>6. CASE ~(j < k)
    <3>1. j - 1 \in 1..(Len(s) - 1) /\ ~(j - 1 < k) /\ (j - 1) + 1 = j
      BY <2>1, <2>2, <2>3, <2>4, <2>6
    <3>2. w[j - 1] = a  BY <2>2, <2>3, <3>1
    <3> QED  BY <2>1, <2>3, <3>1, <3>2 DEF HasRow
  <2> QED  BY <2>5, <2>6
<1>5. CASE ~(ThreadOf[a] = ThreadOf[b] /\ \E i \in 1..Len(queue[ThreadOf[a]]) : queue[ThreadOf[a]][i] = b)
  BY <1>2, <1>3, <1>5 DEF HasRow, Without
<1> QED  BY <1>4, <1>5

(* The steps that take a row of a message that stays saved.                *)
LeavesWithCause(a) ==
    \/ result'[a] \in {"sent", "error"}
    \/ IsGroup(a) /\ (ThreadOf[a] \notin rooms \/ Call("didFail", a) \in calls)
    \/ flaw[a] # "none"
    \/ Call("saveError", a) \in calls'

LEMMA RowGoes ==
    ASSUME Ownership, RowsOnce, [Next]_vars, NEW a \in Actions, KindOf[a] # "roster",
           saved[a] = "saved", saved'[a] = "saved", HasRow(a), ~HasRow(a)'
    PROVE  LeavesWithCause(a)
<1> DEFINE Goal == LeavesWithCause(a)
<1> USE DEF dbVars
<1>t. TypeOK /\ InDatabase(a) /\ \A b \in Actions : ThreadOf[b] \in Threads
  BY ConstantsAssumption DEF Ownership, InDatabase
<1>r. ASSUME NEW b \in Actions, RemoveRow(b) PROVE a = b
  BY <1>r, <1>t, OthersStay
<1>e. ASSUME SaveError(a) PROVE Goal
  BY <1>e, <1>t DEF SaveError, TypeOK, LeavesWithCause
<1>q. ASSUME UNCHANGED queue PROVE FALSE
  BY <1>q DEF HasRow
<1>1. ASSUME NEW b \in Actions, HandleMissing(b) PROVE Goal
  BY <1>1, <1>t, <1>r DEF HandleMissing, Finish, LeavesWithCause
<1>2. ASSUME NEW b \in Actions, AddBuddyToRoster(b) \/ SendGroupNowhere(b) PROVE Goal
  BY <1>2, <1>r DEF AddBuddyToRoster, SendGroupNowhere, Finish, LeavesWithCause
<1>12. ASSUME NEW b \in Actions, HandleUnsupported(b) \/ SendOTRWithoutText(b) PROVE Goal
  BY <1>12, <1>r DEF HandleUnsupported, SendOTRWithoutText, Finish, LeavesWithCause
<1>13. ASSUME NEW b \in Actions, OmemoWithoutText(b) PROVE Goal
  BY <1>13, <1>r DEF OmemoWithoutText, OmemoGivesUp, HasText, Finish, LeavesWithCause
<1>14. ASSUME NEW b \in Actions, OmemoUnavailable(b) PROVE Goal
  BY <1>14, <1>r DEF OmemoUnavailable, OmemoGivesUp, Finish, LeavesWithCause
<1>3. ASSUME NEW b \in Actions, Resend(b) PROVE Goal
  BY <1>3, <1>q, <1>r DEF Resend, Finish
<1>4. ASSUME NEW b \in Actions, OtrTimeout(b) PROVE Goal
  <2>1. outstandingBuddies[ThreadOf[b]] # None  BY <1>4, <1>q DEF OtrTimeout
  <2>2. PICK w \in Actions : SaveError(w) /\ Finish(w)
    BY <1>4, <1>t, <2>1 DEF OtrTimeout, TypeOK
  <2> QED  BY <1>e, <1>r, <2>2 DEF Finish
<1>5. ASSUME NEW b \in Actions, OmemoFails(b) PROVE Goal
  <2>1. SaveError(b) /\ (RemoveRow(b) \/ UNCHANGED queue)
    BY <1>5 DEF OmemoFails, PopMessage, Finish
  <2> QED  BY <1>e, <1>q, <1>r, <2>1
<1>6. ASSUME NEW b \in Actions, DidSendMessage(b) PROVE Goal
  <2>1. \/ UNCHANGED queue
        \/ RemoveRow(b) /\ result' = [result EXCEPT ![b] = "sent"]
    BY <1>6 DEF DidSendMessage, PopMessage, Finish
  <2> QED  BY <1>q, <1>r, <1>t, <2>1 DEF TypeOK, LeavesWithCause
<1>7. ASSUME NEW b \in Actions, DidFailToSendMessage(b) PROVE Goal
  <2>1. \/ UNCHANGED queue
        \/ RemoveRow(b) /\ (IsGroup(b) \/ SaveError(b))
    BY <1>7 DEF DidFailToSendMessage, PopMessage, Finish
  <2>2. Call("didFail", b) \in calls  BY <1>7 DEF DidFailToSendMessage
  <2> QED  BY <1>e, <1>q, <1>r, <2>1, <2>2 DEF LeavesWithCause
<1>8. ASSUME NEW b \in Actions, EncodeFails(b) PROVE Goal
  <2>1. UNCHANGED queue \/ (RemoveRow(b) /\ SaveError(b))
    BY <1>8 DEF EncodeFails
  <2> QED  BY <1>e, <1>q, <1>r, <2>1
<1>9. ASSUME NEW b \in Actions, Delete(b) PROVE Goal
  <2>1. RemoveRow(b) /\ saved' = [saved EXCEPT ![b] = "deleted"]  BY <1>9 DEF Delete
  <2> QED  BY <1>r, <1>t, <2>1 DEF TypeOK
<1>10. ASSUME NEW b \in Actions, Enqueue(b) PROVE Goal
  <2>1. queue' = [queue EXCEPT ![ThreadOf[b]] = Append(@, b)]  BY <1>10 DEF Enqueue
  <2>2. queue[ThreadOf[b]] \in Seq(Actions)  BY <1>t DEF TypeOK
  <2>3. CASE ThreadOf[a] = ThreadOf[b]
    BY <1>t, <2>1, <2>2, <2>3, AppendContains DEF TypeOK, HasRow, Contains
  <2>4. CASE ThreadOf[a] # ThreadOf[b]
    BY <1>t, <2>1, <2>4 DEF TypeOK, HasRow
  <2> QED  BY <2>3, <2>4
<1>11. \/ UNCHANGED queue
       \/ \E b \in Actions : \/ HandleMissing(b) \/ AddBuddyToRoster(b) \/ SendGroupNowhere(b)
                             \/ Resend(b) \/ OtrTimeout(b) \/ OmemoFails(b)
                             \/ DidSendMessage(b) \/ DidFailToSendMessage(b)
                             \/ EncodeFails(b) \/ Delete(b) \/ Enqueue(b)
                             \/ HandleUnsupported(b) \/ SendOTRWithoutText(b)
                             \/ OmemoWithoutText(b) \/ OmemoUnavailable(b)
  BY ZenonT(60) DEF Next, Broker, Handle, Callback, Encryption, Notification, Environment, vars,
     HandNext, RetryFires, HandleOffline, HandleManual, SendPlain, SendGroup, SendOMEMO,
     SendEncoded, RequestSession, WaitForAccount, Connect, MarkPending,
     InitiateEncryption, Write, WriteFails, WriteForgotten, Encoded, OmemoEncrypted,
     DeliverLogin, DeliverEncrypted, Reconnect, DidAuthenticate, DidDisconnect, StatusFalls, JoinRoom,
     GoneSecure, SessionEnds, SendGroupUnsupported, SaveOmemoError, EncodedToNothing,
     OmemoUnanswered, Orphan, Restart
<1> QED
  BY <1>q, <1>1, <1>2, <1>3, <1>4, <1>5, <1>6, <1>7, <1>8, <1>9, <1>10, <1>11, <1>12, <1>13,
     <1>14

(* A message becomes saved only together with its row.                     *)
LEMMA SavedWithRow ==
    ASSUME TypeOK, [Next]_vars, NEW a \in Actions, saved[a] # "saved", saved'[a] = "saved"
    PROVE  HasRow(a)'
<1> USE DEF dbVars
<1>1. ASSUME NEW b \in Actions, Enqueue(b) PROVE HasRow(a)'
  <2>1. /\ queue' = [queue EXCEPT ![ThreadOf[b]] = Append(@, b)]
        /\ saved' = [saved EXCEPT ![b] = "saved"]
    BY <1>1 DEF Enqueue
  <2>2. a = b  BY <2>1 DEF TypeOK
  <2>3. ThreadOf[a] \in Threads /\ queue[ThreadOf[a]] \in Seq(Actions)
    BY ConstantsAssumption DEF TypeOK
  <2>4. Contains(Append(queue[ThreadOf[a]], a), a)  BY <2>3, AppendContains
  <2> QED  BY <2>1, <2>2, <2>3, <2>4 DEF TypeOK, HasRow, Contains
<1>2. ASSUME NEW b \in Actions, Delete(b) \/ Encoded(b) PROVE FALSE
  BY <1>2 DEF Delete, Encoded, TypeOK
<1>3. (\E b \in Actions : Enqueue(b) \/ Delete(b) \/ Encoded(b)) \/ UNCHANGED saved
  BY ZenonT(60) DEF Next, Broker, Handle, Callback, Encryption, Notification, Environment, vars,
     HandNext, RetryFires, HandleMissing, HandleOffline, HandleManual, AddBuddyToRoster,
     SendPlain, SendGroupNowhere, SendGroup, SendOMEMO, SendEncoded, RequestSession,
     WaitForAccount, Connect, MarkPending, InitiateEncryption, Resend, OtrTimeout, Write,
     WriteFails, WriteForgotten, DidSendMessage, DidFailToSendMessage, EncodeFails,
     OmemoEncrypted, OmemoFails, HandleUnsupported, SendOTRWithoutText, SendGroupUnsupported,
     OmemoWithoutText, OmemoUnavailable, OmemoGivesUp, SaveOmemoError, EncodedToNothing,
     OmemoUnanswered, Orphan, DeliverLogin, DeliverEncrypted, Reconnect, DidAuthenticate,
     DidDisconnect, StatusFalls, JoinRoom, GoneSecure, SessionEnds, Restart
<1> QED  BY <1>1, <1>2, <1>3

LEMMA RemovalStep == DeliveryInv /\ [Next]_vars =>
    \A a \in Actions :
        saved'[a] = "saved" /\ KindOf[a] # "roster" /\ HasRow(a) /\ ~HasRow(a)' =>
           LeavesWithCause(a)
<1> SUFFICES ASSUME DeliveryInv, [Next]_vars, NEW a \in Actions, saved'[a] = "saved",
                    KindOf[a] # "roster", HasRow(a), ~HasRow(a)'
             PROVE  LeavesWithCause(a)
  OBVIOUS
<1>1. Ownership /\ TypeOK /\ RowsOnce  BY DEF DeliveryInv, Ownership, WireInv
<1>2. saved[a] = "saved"  BY <1>1, SavedWithRow
<1> QED  BY <1>1, <1>2, RowGoes

(* For every instance, rooms and faults of all kinds included: the causes  *)
(* for which a message that stays in the database leaves the queue without *)
(* a verdict are those of the handler's early returns, a room that is not  *)
(* joined and the stream's rejection of a room message.                    *)
THEOREM RemovalsExplained == Spec => RemovalHasCause
<1>1. DeliveryInv /\ [Next]_vars =>
         [\A a \in Actions :
             saved'[a] = "saved" /\ KindOf[a] # "roster" /\ HasRow(a) /\ ~HasRow(a)' =>
                \/ result'[a] \in {"sent", "error"}
                \/ IsGroup(a) /\ (ThreadOf[a] \notin rooms \/ Call("didFail", a) \in calls)
                \/ flaw[a] # "none"
                \/ Call("saveError", a) \in calls']_vars
  BY RemovalStep DEF LeavesWithCause
<1> QED  BY <1>1, DeliveryHolds, PTL DEF Spec, RemovalHasCause

(* What the handler's early returns ask of the instance: no message        *)
(* without text, of an unsupported type or without its owner, no account   *)
(* without OMEMO, no rooms.                                                *)
Ordinary ==
    /\ \A a \in Actions : ~IsGroup(a)
    /\ Faults \cap {"blank", "unsupported", "orphan", "unavailable"} = {}

LEMMA SettledStep ==
    ASSUME Ordinary, DeliveryInv, RemovedIsSettled, [Next]_vars
    PROVE  RemovedIsSettled'
<1> SUFFICES ASSUME NEW a \in Actions, KindOf[a] # "roster", saved'[a] = "saved", ~HasRow(a)'
             PROVE  result'[a] \in {"sent", "error"}
  BY DEF RemovedIsSettled
<1>1. Ownership /\ TypeOK /\ TypeOK' /\ RowsOnce /\ CausesKnown /\ CausesKnown'
  BY DeliveryStep, OwnershipStep DEF DeliveryInv, Ownership, WireInv
<1>2. saved[a] = "saved"  BY <1>1, SavedWithRow
<1>3. ~IsGroup(a) /\ flaw[a] = "none" /\ Call("saveError", a) \notin calls'
  BY <1>1, ZenonT(60) DEF Ordinary, CausesKnown, TypeOK, Flaws
<1>4. CASE HasRow(a)
  BY <1>1, <1>2, <1>3, <1>4, RowGoes DEF LeavesWithCause
<1>5. CASE ~HasRow(a)
  <2>1. result[a] \in {"sent", "error"}  BY <1>2, <1>5 DEF RemovedIsSettled
  <2> QED  BY <1>3, <2>1, VerdictStep DEF TakesBack
<1> QED  BY <1>4, <1>5

(* A message with text to a buddy whose account has what it needs leaves   *)
(* the queue only once it was sent, carries an error, or was deleted,      *)
(* whatever drops, timers, encoding errors, unanswered encryptions and     *)
(* restarts come between.                                                  *)
THEOREM RemovedCorrect ==
    ASSUME Ordinary
    PROVE  Spec => []RemovedIsSettled
<1>1. Init => RemovedIsSettled
  BY DEF Init, RemovedIsSettled
<1>2. DeliveryInv /\ RemovedIsSettled /\ [Next]_vars => RemovedIsSettled'
  BY SettledStep
<1> QED  BY <1>1, <1>2, DeliveryHolds, PTL DEF Spec

-----------------------------------------------------------------------------
(* Dropped completions.                                                    *)

(* The completion of a may go without a call.                              *)
Losable(a) ==
    \/ flaw[a] = "orphan"
    \/ Call("encode", a) \in calls /\ "encode" \in Faults
    \/ Call("omemo", a) \in calls /\ "silent" \in Faults
    \/ IsGroup(a) /\ flaw[a] = "unsupported"
    \/ KindOf[a] = "plain" /\ ~HasText(a)

(* How the last holder of a completion goes: the queue moves on, unless it *)
(* was lost.                                                               *)
LEMMA LastHolderGoes ==
    ASSUME Ownership, EntryKept, TypeOK', [Next]_vars, NEW a \in Actions,
           Holds(a) # {}, Holds(a)' = {}, saved[a] = "saved", ~PassedOver(a), ~Losable(a)
    PROVE  slot'[ThreadOf[a]] # a \/ ThreadOf[a] \in paused'
<1> DEFINE Goal == slot'[ThreadOf[a]] # a \/ ThreadOf[a] \in paused'
<1> USE DEF dbVars, brokerVars, tableVars, envVars
<1>t. /\ TypeOK /\ a # None /\ ThreadOf[a] \in Threads /\ AccountFor(a) \in Accounts
      /\ slot[ThreadOf[a]] = a /\ InDatabase(a)
  BY ConstantsAssumption DEF Ownership, CompletionOwned, AccountFor, InDatabase
<1>k. ASSUME \A p \in HolderOps : Call(p, a) \in calls => Call(p, a) \in calls',
             a \in outstandingAccounts[AccountFor(a)] => a \in outstandingAccounts'[AccountFor(a)],
             outstandingBuddies[ThreadOf[a]] = a => outstandingBuddies'[ThreadOf[a]] = a
      PROVE  FALSE
  BY <1>k, <1>t, HoldsMember, HoldsMemberNext
<1>c. ASSUME NEW q \in HolderOps, Call(q, a) \in calls' PROVE FALSE
  BY <1>c, HoldsMemberNext
<1>d. ASSUME NEW b \in Actions, NEW o, calls \ {Call(o, b)} \subseteq calls',
             UNCHANGED <<outstandingAccounts, outstandingBuddies>>,
             o \in HolderOps => b # a
      PROVE  FALSE
  BY <1>d, <1>k, CallInjective
<1>m. ASSUME NEW b \in Actions, NEW o, NEW q \in HolderOps,
             calls \ {Call(o, b)} \subseteq calls', Call(q, b) \in calls',
             UNCHANGED <<outstandingAccounts, outstandingBuddies>>
      PROVE  FALSE
  BY <1>m, <1>c, <1>d
<1>f. ASSUME Finish(a) PROVE Goal
  BY <1>f, <1>t DEF Finish, TypeOK
<1>e. ASSUME NEW b \in Actions, NEW o \in HolderOps, Done(Call(o, b)),
             UNCHANGED <<outstandingAccounts, outstandingBuddies>>, b = a => Goal
      PROVE  Goal
  BY <1>e, <1>d DEF Done
<1>o. HolderOps = {"handle", "register", "resend", "otrStart", "encode",
                   "omemo", "stream", "didSend", "didFail"}
  BY DEF HolderOps
<1>1. ASSUME NEW b \in Actions,
             \/ HandleOffline(b) \/ SendPlain(b) \/ SendOMEMO(b) \/ SendEncoded(b)
             \/ RequestSession(b)
      PROVE  FALSE
  <2>1. \E q \in HolderOps : Then(Call("handle", b), Call(q, b))
    BY <1>1, <1>o DEF HandleOffline, SendPlain, SendOMEMO, SendEncoded, RequestSession
  <2>2. UNCHANGED <<outstandingAccounts, outstandingBuddies>>
    BY <1>1 DEF HandleOffline, SendPlain, SendOMEMO, SendEncoded, RequestSession
  <2> QED  BY <1>m, <2>1, <2>2 DEF Then
<1>2. ASSUME NEW b \in Actions, SendGroup(b) PROVE FALSE
  <2> DEFINE q == IF KindOf[b] = "groupOmemo" THEN "omemo" ELSE "stream"
  <2>1. /\ calls' = (calls \ {Call("handle", b)}) \cup {Call(q, b), Call("markPending", b)}
        /\ UNCHANGED <<outstandingAccounts, outstandingBuddies>>
    BY <1>2 DEF SendGroup
  <2>2. q \in HolderOps  BY <1>o
  <2> HIDE DEF q
  <2> QED  BY <1>m, <2>1, <2>2
<1>3. ASSUME NEW b \in Actions, \/ Encoded(b) \/ OmemoEncrypted(b) \/ Write(b) \/ WriteFails(b)
      PROVE  FALSE
  <2>1. \E o, q \in HolderOps : Then(Call(o, b), Call(q, b))
    BY <1>3, <1>o DEF Encoded, OmemoEncrypted, Write, WriteFails, ToStream
  <2>2. UNCHANGED <<outstandingAccounts, outstandingBuddies>>
    BY <1>3 DEF Encoded, OmemoEncrypted, Write, WriteFails
  <2> QED  BY <1>m, <2>1, <2>2 DEF Then
<1>4. ASSUME NEW b \in Actions, WaitForAccount(b) PROVE FALSE
  <2>1. AccountFor(b) \in Accounts  BY ConstantsAssumption DEF AccountFor
  <2>2. CASE b = a
    <3>1. a \in outstandingAccounts'[AccountFor(a)]
      BY <1>4, <1>t, <2>2 DEF WaitForAccount, TypeOK
    <3> QED  BY <3>1, HoldsMemberNext
  <2>3. CASE b # a
    <3>1. a \in outstandingAccounts[AccountFor(a)] => a \in outstandingAccounts'[AccountFor(a)]
      BY <1>4, <1>t, <2>1 DEF WaitForAccount, TypeOK
    <3>2. \A p : Call(p, a) \in calls => Call(p, a) \in calls'
      BY <1>4, <2>3, CallInjective DEF WaitForAccount, Then
    <3> QED  BY <1>4, <1>k, <3>1, <3>2 DEF WaitForAccount
  <2> QED  BY <2>2, <2>3
<1>5. ASSUME NEW b \in Actions, InitiateEncryption(b) PROVE FALSE
  <2>1. \A u \in Threads :
           outstandingBuddies'[u] = IF u = ThreadOf[b] THEN b ELSE outstandingBuddies[u]
    BY <1>5, <1>t DEF InitiateEncryption, TypeOK
  <2>2. CASE b = a
    <3>1. outstandingBuddies'[ThreadOf[a]] = a  BY <1>t, <2>1, <2>2
    <3> QED  BY <3>1, HoldsMemberNext
  <2>3. CASE b # a
    <3>1. "otrStart" \in Holds(b)  BY <1>5, <1>t, <1>o, HoldsMember DEF InitiateEncryption
    <3>2. ThreadOf[b] # ThreadOf[a]
      BY <1>t, <2>3, <3>1 DEF Ownership, CompletionOwned
    <3>3. \A p : Call(p, a) \in calls => Call(p, a) \in calls'
      BY <1>5, <2>3, CallInjective DEF InitiateEncryption, Done
    <3> QED  BY <1>5, <1>k, <1>t, <2>1, <3>2, <3>3 DEF InitiateEncryption
  <2> QED  BY <2>2, <2>3
<1>6. ASSUME NEW b \in Actions, OtrTimeout(b) PROVE Goal
  <2>1. \A u \in Threads :
           outstandingBuddies'[u] = IF u = ThreadOf[b] THEN None ELSE outstandingBuddies[u]
    BY <1>6, <1>t DEF OtrTimeout, TypeOK
  <2>2. CASE outstandingBuddies[ThreadOf[a]] = a /\ ThreadOf[b] = ThreadOf[a]
    <3>1. Finish(a)  BY <1>6, <1>t, <2>2 DEF OtrTimeout
    <3> QED  BY <1>f, <3>1
  <2>3. CASE ~(outstandingBuddies[ThreadOf[a]] = a /\ ThreadOf[b] = ThreadOf[a])
    BY <1>6, <1>k, <1>t, <2>1, <2>3 DEF OtrTimeout
  <2> QED  BY <2>2, <2>3
<1>7. ASSUME NEW b \in Actions,
             \/ HandleMissing(b) \/ AddBuddyToRoster(b) \/ SendGroupNowhere(b)
             \/ HandleUnsupported(b) \/ SendOTRWithoutText(b)
      PROVE  Goal
  <2>1. /\ Done(Call("handle", b)) /\ Finish(b)
        /\ UNCHANGED <<outstandingAccounts, outstandingBuddies>>
    BY <1>7 DEF HandleMissing, AddBuddyToRoster, SendGroupNowhere, HandleUnsupported,
       SendOTRWithoutText
  <2> QED  BY <1>e, <1>f, <1>o, <2>1
<1>8. ASSUME NEW b \in Actions, HandleManual(b) PROVE Goal
  <2>1. b = a => Goal  BY <1>8 DEF HandleManual
  <2> QED  BY <1>8, <1>e, <1>o, <2>1 DEF HandleManual
<1>9. ASSUME NEW b \in Actions, Connect(b) \/ MarkPending(b) \/ SaveOmemoError(b) PROVE FALSE
  <2>1. \E o \in {"connect", "markPending", "saveError"} :
           /\ calls \ {Call(o, b)} \subseteq calls'
           /\ UNCHANGED <<outstandingAccounts, outstandingBuddies>>
    BY <1>9 DEF Connect, MarkPending, SaveOmemoError, Done
  <2>2. {"connect", "markPending", "saveError"} \cap HolderOps = {}  BY <1>o
  <2> QED  BY <1>d, <2>1, <2>2
<1>10. ASSUME NEW b \in Actions, Resend(b) PROVE Goal
  <2>1. CASE HasRow(b)  BY <1>10, <1>m, <1>o, <2>1 DEF Resend, Then
  <2>2. CASE ~HasRow(b)  BY <1>10, <1>e, <1>f, <1>o, <2>2 DEF Resend
  <2> QED  BY <2>1, <2>2
<1>11. ASSUME NEW b \in Actions, WriteForgotten(b) PROVE Goal
  <2>1. b # a  BY <1>11 DEF WriteForgotten, Losable
  <2> QED  BY <1>11, <1>e, <1>o, <2>1 DEF WriteForgotten
<1>12. ASSUME NEW b \in Actions, EncodeFails(b) PROVE FALSE
  <2>1. b # a  BY <1>12 DEF EncodeFails, Fault, Losable
  <2> QED  BY <1>12, <1>d, <2>1 DEF EncodeFails, Done
<1>13. ASSUME NEW b \in Actions, DidSendMessage(b) PROVE Goal
  <2>1. ASSUME b = a PROVE Finish(a)
    BY <1>13, <1>t, <2>1 DEF DidSendMessage, PopMessage, EntryKept, Sending
  <2> QED  BY <1>13, <1>e, <1>f, <1>o, <2>1 DEF DidSendMessage
<1>14. ASSUME NEW b \in Actions, DidFailToSendMessage(b) PROVE Goal
  <2>1. ASSUME b = a PROVE Finish(a)
    BY <1>14, <1>t, <2>1 DEF DidFailToSendMessage, PopMessage, EntryKept, Sending
  <2> QED  BY <1>14, <1>e, <1>f, <1>o, <2>1 DEF DidFailToSendMessage
<1>15. ASSUME NEW b \in Actions, OmemoFails(b) PROVE Goal
  <2>1. ASSUME b = a PROVE Finish(a)
    BY <1>15, <1>t, <2>1 DEF OmemoFails, PopMessage, EntryKept, Sending
  <2> QED  BY <1>15, <1>e, <1>f, <1>o, <2>1 DEF OmemoFails
<1>16. ASSUME NEW t \in Threads, HandNext(t) \/ RetryFires(t) PROVE FALSE
  BY <1>16, <1>k DEF HandNext, RetryFires
<1>17. ASSUME NEW t \in Threads, DeliverEncrypted(t) PROVE FALSE
  <2>1. \A u \in Threads :
           outstandingBuddies'[u] = IF u = t THEN None ELSE outstandingBuddies[u]
    BY <1>17, <1>t DEF DeliverEncrypted, TypeOK
  <2>2. CASE outstandingBuddies[ThreadOf[a]] = a /\ t = ThreadOf[a]
    <3>1. Call("resend", a) \in calls'  BY <1>17, <1>t, <2>2 DEF DeliverEncrypted
    <3> QED  BY <1>c, <1>o, <3>1
  <2>3. CASE ~(outstandingBuddies[ThreadOf[a]] = a /\ t = ThreadOf[a])
    BY <1>17, <1>k, <1>t, <2>1, <2>3 DEF DeliverEncrypted
  <2> QED  BY <2>2, <2>3
<1>18. ASSUME NEW c \in Accounts, DeliverLogin(c) PROVE FALSE
  <2>1. \A u \in Accounts :
           outstandingAccounts'[u] = IF u = c THEN {} ELSE outstandingAccounts[u]
    BY <1>18, <1>t DEF DeliverLogin, TypeOK
  <2>2. CASE a \in outstandingAccounts[c]
    <3>1. c = AccountFor(a)  BY <2>2 DEF Ownership, FiledByOwner
    <3>2. PICK b \in outstandingAccounts[c] : Call("handle", b) \in calls'
      BY <1>18, <2>2 DEF DeliverLogin
    <3>3. b = a  BY <2>2, <3>1, <3>2 DEF PassedOver
    <3> QED  BY <1>c, <1>o, <3>2, <3>3
  <2>3. CASE a \notin outstandingAccounts[c]
    <3>1. \A p : Call(p, a) \in calls => Call(p, a) \in calls'
      BY <1>18 DEF DeliverLogin
    <3>2. a \in outstandingAccounts[AccountFor(a)] => a \in outstandingAccounts'[AccountFor(a)]
      BY <1>t, <2>1, <2>3
    <3> QED  BY <1>18, <1>k, <3>1, <3>2 DEF DeliverLogin
  <2> QED  BY <2>2, <2>3
<1>19. ASSUME NEW b \in Actions, Enqueue(b) \/ Delete(b) \/ Orphan(b) PROVE FALSE
  BY <1>19, <1>k DEF Enqueue, Delete, Orphan
<1>20. ASSUME NEW t \in Threads, JoinRoom(t) \/ GoneSecure(t) \/ SessionEnds(t) PROVE FALSE
  BY <1>20, <1>k DEF JoinRoom, GoneSecure, SessionEnds
<1>21. ASSUME NEW c \in Accounts, Reconnect(c) \/ DidAuthenticate(c) \/ DidDisconnect(c) \/ StatusFalls(c)
       PROVE  FALSE
  BY <1>21, <1>k DEF Reconnect, DidAuthenticate, DidDisconnect, StatusFalls
<1>22. CASE Restart  BY <1>22, <1>t DEF Restart
<1>23. CASE UNCHANGED vars  BY <1>23, <1>k DEF vars
<1>24. ASSUME NEW b \in Actions, OmemoWithoutText(b) \/ OmemoUnavailable(b) PROVE Goal
  <2>1. /\ calls \ {Call("handle", b)} \subseteq calls' /\ Finish(b)
        /\ UNCHANGED <<outstandingAccounts, outstandingBuddies>>
    BY <1>24 DEF OmemoWithoutText, OmemoUnavailable, OmemoGivesUp
  <2>2. CASE b = a  BY <1>f, <2>1, <2>2
  <2>3. CASE b # a  BY <1>d, <2>1, <2>3
  <2> QED  BY <2>2, <2>3
<1>25. ASSUME NEW b \in Actions, SendGroupUnsupported(b) PROVE FALSE
  <2>1. b # a  BY <1>25 DEF SendGroupUnsupported, Losable
  <2> QED  BY <1>25, <1>d, <2>1 DEF SendGroupUnsupported, Done
<1>26. ASSUME NEW b \in Actions, EncodedToNothing(b) PROVE FALSE
  <2>1. b # a  BY <1>26 DEF EncodedToNothing, Fault, Losable
  <2> QED  BY <1>26, <1>d, <2>1 DEF EncodedToNothing, Done
<1>27. ASSUME NEW b \in Actions, OmemoUnanswered(b) PROVE FALSE
  <2>1. b # a  BY <1>27 DEF OmemoUnanswered, Fault, Losable
  <2> QED  BY <1>27, <1>d, <2>1 DEF OmemoUnanswered, Done
<1> QED
  BY <1>24, <1>25, <1>26, <1>27, <1>1, <1>2, <1>3, <1>4, <1>5, <1>6, <1>7, <1>8, <1>9, <1>10, <1>11, <1>12, <1>13,
     <1>14, <1>15, <1>16, <1>17, <1>18, <1>19, <1>20, <1>21, <1>22, <1>23
  DEF Next, Broker, Handle, Callback, Encryption, Notification, Environment

(* A queue gets an action only from HandNext, and leaves the retry timer   *)
(* only when it fires; either way the action is handled again.             *)
LEMMA TurnBegins ==
    ASSUME Ownership, TypeOK', [Next]_vars, NEW t \in Threads, NEW a \in Actions,
           slot'[t] = a, slot[t] # a \/ (t \in paused /\ t \notin paused')
    PROVE  Holds(a)' # {}
<1> DEFINE Goal == Holds(a)' # {}
<1> USE DEF dbVars, brokerVars, tableVars, envVars
<1>t. TypeOK /\ a # None /\ \A b \in Actions : ThreadOf[b] \in Threads
  BY ConstantsAssumption DEF Ownership
<1>h. ASSUME Call("handle", a) \in calls' PROVE Goal
  <2>1. "handle" \in HolderOps  BY DEF HolderOps
  <2> QED  BY <1>h, <2>1, HoldsMemberNext
<1>s. ASSUME UNCHANGED slot \/ (\E b \in Actions : Finish(b)), paused \subseteq paused'
      PROVE  FALSE
  <2>1. CASE UNCHANGED slot  BY <1>s, <2>1
  <2>2. ASSUME NEW b \in Actions, Finish(b) PROVE FALSE
    BY <1>s, <1>t, <2>2 DEF Finish, TypeOK
  <2> QED  BY <1>s, <2>1, <2>2
<1>1. ASSUME NEW u \in Threads, HandNext(u) PROVE Goal
  <2>1. t = u /\ a = Head(queue[u])  BY <1>1, <1>t DEF HandNext, TypeOK
  <2> QED  BY <1>1, <1>h, <2>1 DEF HandNext
<1>2. ASSUME NEW u \in Threads, RetryFires(u) PROVE Goal
  <2>1. t = u /\ a = slot[u]  BY <1>2 DEF RetryFires
  <2> QED  BY <1>2, <1>h, <2>1 DEF RetryFires
<1>3. CASE Restart  BY <1>3, <1>t DEF Restart
<1>4. ASSUME NEW b \in Actions, OtrTimeout(b) PROVE FALSE
  <2>1. CASE outstandingBuddies[ThreadOf[b]] = None
    BY <1>4, <1>s, <2>1 DEF OtrTimeout
  <2>2. CASE outstandingBuddies[ThreadOf[b]] # None
    <3>1. outstandingBuddies[ThreadOf[b]] \in Actions  BY <1>t, <2>2 DEF TypeOK
    <3> QED  BY <1>4, <1>s, <2>2, <3>1 DEF OtrTimeout, Finish
  <2> QED  BY <2>1, <2>2
<1>5. ASSUME NEW b \in Actions,
             \/ HandleMissing(b) \/ HandleManual(b) \/ AddBuddyToRoster(b)
             \/ SendGroupNowhere(b) \/ Resend(b) \/ DidSendMessage(b)
             \/ DidFailToSendMessage(b) \/ OmemoFails(b) \/ EncodeFails(b)
             \/ HandleUnsupported(b) \/ SendOTRWithoutText(b)
             \/ OmemoWithoutText(b) \/ OmemoUnavailable(b)
      PROVE  FALSE
  <2>1. UNCHANGED slot \/ Finish(b)
    BY <1>5 DEF HandleMissing, HandleManual, AddBuddyToRoster, SendGroupNowhere, Resend,
       DidSendMessage, DidFailToSendMessage, OmemoFails, EncodeFails, PopMessage,
       HandleUnsupported, SendOTRWithoutText, OmemoWithoutText, OmemoUnavailable, OmemoGivesUp
  <2>2. paused \subseteq paused'
    BY <1>5 DEF HandleMissing, HandleManual, AddBuddyToRoster, SendGroupNowhere, Resend,
       DidSendMessage, DidFailToSendMessage, OmemoFails, EncodeFails, PopMessage, Finish,
       HandleUnsupported, SendOTRWithoutText, OmemoWithoutText, OmemoUnavailable, OmemoGivesUp
  <2> QED  BY <1>s, <2>1, <2>2
<1>6. ASSUME NEW b \in Actions, Handle(b) \/ Callback(b) \/ Encryption(b) PROVE FALSE
  <2>1. \/ UNCHANGED <<slot, paused>> \/ OtrTimeout(b)
        \/ HandleMissing(b) \/ HandleManual(b) \/ AddBuddyToRoster(b)
        \/ SendGroupNowhere(b) \/ Resend(b) \/ DidSendMessage(b)
        \/ DidFailToSendMessage(b) \/ OmemoFails(b) \/ EncodeFails(b)
        \/ HandleUnsupported(b) \/ SendOTRWithoutText(b)
        \/ OmemoWithoutText(b) \/ OmemoUnavailable(b)
    BY <1>6 DEF Handle, Callback, Encryption,
       HandleOffline, SendPlain, SendGroup, SendOMEMO, SendEncoded, RequestSession,
       WaitForAccount, Connect, MarkPending, InitiateEncryption, Write, WriteFails,
       WriteForgotten, Encoded, OmemoEncrypted, SendGroupUnsupported, SaveOmemoError,
       EncodedToNothing, OmemoUnanswered
  <2> QED  BY <1>s, <1>4, <1>5, <2>1
<1>7. ASSUME Environment \/ Notification \/ UNCHANGED vars
      PROVE  UNCHANGED <<slot, paused>> \/ Restart
  BY <1>7 DEF Notification, Environment, vars, DeliverLogin, DeliverEncrypted, Reconnect,
     DidAuthenticate, DidDisconnect, StatusFalls, JoinRoom, GoneSecure, SessionEnds, Enqueue, Delete,
     Orphan
<1> QED  BY <1>s, <1>1, <1>2, <1>3, <1>6, <1>7 DEF Next, Broker

(* A queue that loses the completion it waits for keeps its turn, and had  *)
(* a holder before.                                                        *)
LostWithCause(a) ==
    \/ saved[a] \in {"deleted", "revived"} \/ flaw[a] = "orphan"
    \/ PassedOver(a)
    \/ Call("encode", a) \in calls
    \/ Call("omemo", a) \in calls
    \/ IsGroup(a) /\ flaw[a] = "unsupported"
    \/ KindOf[a] = "plain" /\ ~HasText(a)

LEMMA DropStep == DeliveryInv /\ [Next]_vars =>
    \A t \in Threads : Abandoned(t)' /\ ~Abandoned(t) => LostWithCause(slot[t])
<1> SUFFICES ASSUME DeliveryInv, [Next]_vars, NEW t \in Threads, Abandoned(t)', ~Abandoned(t)
             PROVE  LostWithCause(slot[t])
  OBVIOUS
<1>1. /\ Ownership /\ TypeOK /\ TypeOK' /\ EntryKept /\ NewIsUnknown
  BY OwnershipStep DEF DeliveryInv, WireInv, Ownership
<1>2. PICK a \in Actions : slot'[t] = a
  BY <1>1 DEF Abandoned, TypeOK
<1>3. t \notin paused' /\ Holds(a)' = {}
  <2>1. Holds(slot[t])' = {} /\ t \notin paused'  BY DEF Abandoned
  <2> QED  BY <1>2, <2>1 DEF Holds
<1>4. slot[t] = a /\ t \notin paused
  BY <1>1, <1>2, <1>3, TurnBegins
<1>5. Holds(a) # {}
  BY <1>4, ConstantsAssumption DEF Abandoned
<1>6. ThreadOf[a] = t
  BY <1>1, <1>4, ConstantsAssumption DEF Ownership, FiledByOwner
<1>7. saved[a] # "new"
  BY <1>1, <1>4, <1>6 DEF NewIsUnknown
<1>8. ASSUME saved[a] = "saved" PROVE PassedOver(a) \/ Losable(a)
  BY <1>1, <1>2, <1>3, <1>5, <1>6, <1>8, LastHolderGoes
<1>9. saved[a] \in RowStates  BY <1>1 DEF TypeOK
<1> QED  BY <1>4, <1>7, <1>8, <1>9 DEF RowStates, Losable, LostWithCause

(* For every instance and every kind of fault: a queue that nobody will    *)
(* ever free lost its completion when its message or its owner went, when  *)
(* a login woke another of the actions that waited for it, inside OTRKit   *)
(* or the OMEMO coordinator, or to one of two early returns; never to a    *)
(* wait, a timer, a retry or an answer of the stream.                      *)
THEOREM DropsExplained == Spec => DropHasCause
<1>1. DeliveryInv /\ [Next]_vars =>
         [\A t \in Threads : Abandoned(t)' /\ ~Abandoned(t) =>
             LET a == slot[t]
             IN  \/ saved[a] \in {"deleted", "revived"} \/ flaw[a] = "orphan"
                 \/ PassedOver(a)
                 \/ Call("encode", a) \in calls
                 \/ Call("omemo", a) \in calls
                 \/ IsGroup(a) /\ flaw[a] = "unsupported"
                 \/ KindOf[a] = "plain" /\ ~HasText(a)]_vars
  BY DropStep DEF LostWithCause
<1> QED  BY <1>1, DeliveryHolds, PTL DEF Spec, DropHasCause

LEMMA AbandonedStep == Ownership /\ [Next]_vars =>
    \A t \in Threads : Abandoned(t) =>
        Restart \/ (Abandoned(t)' /\ slot'[t] = slot[t])
<1> SUFFICES ASSUME Ownership, [Next]_vars, NEW t \in Threads, Abandoned(t), ~Restart
             PROVE  Abandoned(t)' /\ slot'[t] = slot[t]
  OBVIOUS
<1>1. TypeOK /\ TypeOK'  BY OwnershipStep DEF Ownership
<1>2. PICK a \in Actions : slot[t] = a
  BY <1>1 DEF Abandoned, TypeOK
<1>3. /\ Holds(a) = {} /\ t \notin paused /\ ThreadOf[a] = t /\ a # None
      /\ \A b \in Actions : Holds(b) # {} => slot[ThreadOf[b]] = b
  BY <1>1, <1>2, ConstantsAssumption
  DEF Abandoned, Ownership, FiledByOwner, CompletionOwned
<1>4. Holds(a)' = {}
  <2> SUFFICES ASSUME NEW p \in Holds(a)' PROVE FALSE
    OBVIOUS
  <2>1. ASSUME NEW u \in Threads, HandNext(u), a = Head(queue[u]) PROVE FALSE
    <3>1. queue[u] \in Seq(Actions) /\ queue[u] # <<>> /\ slot[u] = None
      BY <1>1, <2>1 DEF HandNext, TypeOK
    <3>2. 1 \in 1..Len(queue[u]) /\ Head(queue[u]) = queue[u][1]  BY <3>1, EmptySeq
    <3>3. ThreadOf[a] = u  BY <2>1, <3>2 DEF Ownership, FiledByOwner
    <3> QED  BY <1>2, <1>3, <3>1, <3>3
  <2>2. ASSUME NEW u \in Threads, RetryFires(u), a = slot[u] PROVE FALSE
    BY <1>3, <2>2, ConstantsAssumption DEF RetryFires, Ownership, FiledByOwner
  <2> QED  BY <1>1, <1>3, <2>1, <2>2, Gains
<1>5. slot'[t] = a /\ t \notin paused'
  <2>1. CASE Submits \/ Withdraws \/ Waits
    BY <1>2, <1>3, <2>1 DEF Submits, Withdraws, Waits
  <2>2. CASE Takes \/ Sends
    BY <1>1, <1>2, <1>3, <2>2 DEF Takes, HandNext, Sends, Write, brokerVars, TypeOK
  <2>3. CASE Finishes
    <3>1. PICK b \in Actions : Holds(b) # {} /\ Finish(b)  BY <2>3 DEF Finishes
    <3>2. b # a  BY <1>3, <3>1
    <3> QED  BY <1>1, <1>2, <1>3, <3>1, <3>2 DEF Finish, TypeOK
  <2>4. CASE Pauses
    <3>1. PICK b \in Actions : "handle" \in Holds(b) /\ slot' = slot
                               /\ paused' = paused \cup {ThreadOf[b]}
      BY <2>4 DEF Pauses
    <3>2. ThreadOf[b] # t  BY <1>2, <1>3, <3>1
    <3> QED  BY <1>2, <1>3, <3>1, <3>2
  <2> QED  BY <2>1, <2>2, <2>3, <2>4, StepShapes
<1> QED  BY <1>2, <1>3, <1>4, <1>5 DEF Abandoned, Holds

(* Once its completion is lost a queue stays stuck until the process       *)
(* restarts, whatever other messages, timers and logins do.                *)
THEOREM DropsLast == Spec => DropIsForever
<1>1. Ownership /\ [Next]_vars =>
         [\A t \in Threads : Abandoned(t) =>
             Restart \/ (Abandoned(t)' /\ slot'[t] = slot[t])]_vars
  BY AbandonedStep
<1> QED  BY <1>1, OwnershipHolds, PTL DEF Spec, DropIsForever

NotDeleted == \A a \in Actions : saved[a] \in {"new", "saved"}

LEMMA NotDeletedStep ==
    ASSUME "delete" \notin Faults, TypeOK, NotDeleted, [Next]_vars
    PROVE  NotDeleted'
<1> USE DEF dbVars
<1>1. ASSUME NEW b \in Actions, Enqueue(b) PROVE NotDeleted'
  BY <1>1 DEF Enqueue, NotDeleted, TypeOK
<1>2. ASSUME NEW b \in Actions, Delete(b) PROVE FALSE
  BY <1>2 DEF Delete, Fault
<1>3. ASSUME NEW b \in Actions, Encoded(b) PROVE NotDeleted'
  BY <1>3 DEF Encoded, NotDeleted, TypeOK
<1>4. (\E b \in Actions : Enqueue(b) \/ Delete(b) \/ Encoded(b)) \/ UNCHANGED saved
  BY ZenonT(60) DEF Next, Broker, Handle, Callback, Encryption, Notification, Environment, vars,
     HandNext, RetryFires, HandleMissing, HandleOffline, HandleManual, AddBuddyToRoster,
     SendPlain, SendGroupNowhere, SendGroup, SendOMEMO, SendEncoded, RequestSession,
     WaitForAccount, Connect, MarkPending, InitiateEncryption, Resend, OtrTimeout, Write,
     WriteFails, WriteForgotten, DidSendMessage, DidFailToSendMessage, EncodeFails,
     OmemoEncrypted, OmemoFails, HandleUnsupported, SendOTRWithoutText, SendGroupUnsupported,
     OmemoWithoutText, OmemoUnavailable, OmemoGivesUp, SaveOmemoError, EncodedToNothing,
     OmemoUnanswered, Orphan, DeliverLogin, DeliverEncrypted, Reconnect, DidAuthenticate,
     DidDisconnect, StatusFalls, JoinRoom, GoneSecure, SessionEnds, Restart
<1> QED  BY <1>1, <1>2, <1>3, <1>4 DEF NotDeleted

(* With one thread per account nobody shares a login wait.                 *)
LEMMA WaitsAlone ==
    ASSUME \A t, u \in Threads : AccountOf[t] = AccountOf[u] => t = u,
           Ownership, NEW a \in Actions
    PROVE  ~PassedOver(a)
<1> SUFFICES ASSUME a \in outstandingAccounts[AccountFor(a)],
                    NEW b \in outstandingAccounts[AccountFor(a)], b # a
             PROVE  FALSE
  BY DEF PassedOver
<1>1. /\ TypeOK /\ b \in Actions /\ ThreadOf[a] \in Threads /\ ThreadOf[b] \in Threads
      /\ AccountFor(a) \in Accounts
  BY ConstantsAssumption DEF Ownership, TypeOK, AccountFor
<1>2. AccountFor(b) = AccountFor(a)  BY <1>1 DEF Ownership, FiledByOwner
<1>3. ThreadOf[a] = ThreadOf[b]  BY <1>1, <1>2 DEF AccountFor
<1>4. "account" \in Holds(a) /\ "account" \in Holds(b)  BY <1>1, <1>2, HoldsMember
<1> QED  BY <1>1, <1>3, <1>4 DEF Ownership, CompletionOwned

(* What keeps completions: nobody deletes a message or its owner, OTRKit   *)
(* encodes what it is given, rooms get supported messages, no two threads  *)
(* share an account, and every OMEMO encryption is answered where there    *)
(* are OMEMO messages at all.                                              *)
Kept ==
    /\ Faults \cap {"delete", "orphan", "encode"} = {}
    /\ \A a \in Actions : IsGroup(a) => "unsupported" \notin Faults
    /\ \A a \in Actions : UsesOmemo(a) => "silent" \notin Faults
    /\ \A t, u \in Threads : AccountOf[t] = AccountOf[u] => t = u

(* No completion of a message with text is dropped: a queue in process     *)
(* always has somebody who will free it.  Of the ways of dropping one that *)
(* DropHasCause lists, Kept leaves out all but the text.                   *)
THEOREM NothingIsDropped ==
    ASSUME Kept
    PROVE  Spec => []NothingDropped
<1> DEFINE Inv == DeliveryInv /\ NotDeleted /\ NothingDropped
<1>1. Init => Inv
  BY DeliveryInit DEF Init, NotDeleted, NothingDropped
<1>2. ASSUME Inv, [Next]_vars PROVE NothingDropped'
  <2>1. /\ Ownership /\ TypeOK /\ TypeOK' /\ Ownership' /\ EntryKept /\ NewIsUnknown
        /\ CausesKnown
    BY <1>2, OwnershipStep DEF DeliveryInv, WireInv, Ownership
  <2>2. ASSUME NEW t \in Threads, NEW a \in Actions, slot'[t] = a, t \notin paused',
               flaw'[a] \notin {"nil", "empty"}
        PROVE  Holds(a)' # {}
    <3>1. CASE slot[t] # a \/ t \in paused
      BY <1>2, <2>1, <2>2, <3>1, TurnBegins
    <3>2. CASE slot[t] = a /\ t \notin paused
      <4>1. ThreadOf[a] = t
        BY <2>1, <3>2, ConstantsAssumption DEF Ownership, FiledByOwner
      <4>2. saved[a] = "saved"
        BY <1>2, <2>1, <3>2, <4>1 DEF NotDeleted, NewIsUnknown
      <4>3. HasText(a)
        BY <1>2, <2>1, <2>2, <4>2, FlawChanges DEF HasText
      <4>4. Holds(a) # {}
        BY <1>2, <3>2, <4>3, ConstantsAssumption DEF NothingDropped
      <4>5. ~PassedOver(a)  BY <2>1, WaitsAlone DEF Kept
      <4>6. ~Losable(a)
        BY <2>1, <4>3 DEF Kept, CausesKnown, Losable
      <4>7. slot'[ThreadOf[a]] = a /\ ThreadOf[a] \notin paused'  BY <2>2, <4>1
      <4> QED  BY <1>2, <2>1, <4>2, <4>4, <4>5, <4>6, <4>7, LastHolderGoes
    <3> QED  BY <3>1, <3>2
  <2>3. \A t \in Threads : slot'[t] \in Actions \cup {None}
    BY <2>1 DEF TypeOK
  <2>4. \A t \in Threads :
           slot'[t] # None /\ t \notin paused' /\ flaw'[slot'[t]] \notin {"nil", "empty"} =>
              \E a \in Actions : slot'[t] = a /\ Holds(a)' # {}
    BY <2>2, <2>3
  <2> QED  BY <2>4 DEF NothingDropped, HasText, Holds
<1>3. Inv /\ [Next]_vars => Inv'
  BY <1>2, DeliveryStep, NotDeletedStep DEF DeliveryInv, Ownership, Kept
<1>4. Spec => []Inv  BY <1>1, <1>3, PTL DEF Spec
<1> QED  BY <1>4, PTL
=============================================================================
