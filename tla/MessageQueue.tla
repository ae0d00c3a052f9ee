---------------------------- MODULE MessageQueue ----------------------------
(***************************************************************************)
(* The outgoing message queue: MessageQueueHandler.swift together with the *)
(* stream callbacks (OTRXMPPMessageStatusModule.swift) and notifications   *)
(* that drive it.  One persistent FIFO queue per thread (a buddy or a      *)
(* room) feeds the handler; the handler keeps the completion block of an   *)
(* action it cannot finish at once in one of three tables, and every       *)
(* asynchronous block it leaves behind is a record in "calls".             *)
(*                                                                         *)
(* The broker (YapTaskQueue) is a dependency outside the repository.  It   *)
(* is modelled from its use: it hands the first action of an idle queue to *)
(* handleNextItem, keeps the queue busy until the completion is called,    *)
(* removes the action on success and tries it again later otherwise.       *)
(***************************************************************************)
EXTENDS Naturals, Sequences, SequencesExt

CONSTANTS
    Actions,     \* the send and roster actions of this instance
    Threads,     \* buddies and rooms; an action's queue is its thread's
    Accounts,
    None,
    ThreadOf, AccountOf, KindOf,
    AutoLogin,   \* the accounts with OTRAccount.autologin set
    Faults,      \* the kinds of fault the environment has
    MaxFaults    \* how many faults a behaviour has at most

Kinds == {"plain", "otr", "otrOptional", "omemo",
          "groupPlain", "groupOmemo", "roster"}
FaultKinds == {"drop", "statusFalls", "restart", "delete", "otrEnd", "encode",
               "orphan", "blank", "unsupported", "unavailable", "silent"}
Collections == {"OTRMessage", "OTRXMPPRoomMessage"}

ASSUME ConstantsAssumption ==
    /\ None \notin Actions
    /\ ThreadOf \in [Actions -> Threads]
    /\ AccountOf \in [Threads -> Accounts]
    /\ KindOf \in [Actions -> Kinds]
    /\ AutoLogin \subseteq Accounts
    /\ Faults \subseteq FaultKinds
    /\ MaxFaults \in Nat

VARIABLES
    saved,       \* the action's message row: see RowStates
    flaw,        \* what is wrong with the stored message: see Flaws
    result,      \* what the row says of the message: see Results
    queue,       \* per thread, the action rows in date order (persistent)
    slot,        \* per thread, the action the broker has in process
    paused,      \* threads whose action in process awaits its retry timer
    calls,       \* blocks dispatched and not yet run
    outstandingAccounts,
    outstandingBuddies,
    outstandingMessages,
    timers,      \* per action, the OTR timers scheduled for it and pending
    login,       \* per account, OTRXMPPManager.loginStatus
    loginNotes,  \* accounts with an undelivered kOTRProtocolLoginSuccess
    otr,         \* per thread, OTRKit's message state
    otrNotes,    \* threads with an undelivered "went encrypted" notification
    rooms,       \* threads whose XMPPRoom object exists
    wire,        \* per thread, the stanzas written since the app started
    faults       \* faults so far

dbVars     == <<saved, flaw, result, queue>>
brokerVars == <<slot, paused>>
tableVars  == <<outstandingAccounts, outstandingBuddies, outstandingMessages, timers>>
envVars    == <<login, loginNotes, otr, otrNotes, rooms, faults>>
vars == <<dbVars, brokerVars, calls, tableVars, envVars, wire>>

RowStates == {"new", "saved", "deleted", "revived"}

(* A message without text, nil or empty; one that the handler does not     *)
(* support (a room message whose security is neither plaintext nor OMEMO,  *)
(* or a message of neither type); one whose thread, account or protocol is *)
(* no longer found.                                                        *)
Flaws == {"none", "nil", "empty", "unsupported", "orphan"}
Results == {"none", "pending", "sent", "error"}
LoginStates == {"disconnected", "connecting", "authenticated"}

(* Blocks that carry the completion of the action, and three that do not.  *)
HolderOps == {"handle", "register", "resend", "otrStart", "encode",
              "omemo", "stream", "didSend", "didFail"}
Ops == HolderOps \cup {"connect", "markPending", "saveError"}
Call(op, a) == [op |-> op, act |-> a]
Calls == [op : Ops, act : Actions]

IsGroup(a)  == KindOf[a] \in {"groupPlain", "groupOmemo"}
IsDirect(a) == KindOf[a] \in {"plain", "otr", "otrOptional", "omemo"}
AccountFor(a) == AccountOf[ThreadOf[a]]
Online(a) == login[AccountFor(a)] = "authenticated"
InDatabase(a) == saved[a] \in {"saved", "revived"}
CollectionOf(a) == IF IsGroup(a) THEN "OTRXMPPRoomMessage" ELSE "OTRMessage"
Group(t) == \E a \in Actions : ThreadOf[a] = t /\ IsGroup(a)

(* The keys of outstandingMessages: message key and collection.            *)
Entry(a, c) == <<a, c>>

Init ==
    /\ saved = [a \in Actions |-> "new"]
    /\ flaw = [a \in Actions |-> "none"]
    /\ result = [a \in Actions |-> "none"]
    /\ queue = [t \in Threads |-> <<>>]
    /\ slot = [t \in Threads |-> None]
    /\ paused = {}
    /\ calls = {}
    /\ outstandingAccounts = [c \in Accounts |-> {}]
    /\ outstandingBuddies = [t \in Threads |-> None]
    /\ outstandingMessages = {}
    /\ timers = [a \in Actions |-> 0]
    /\ login = [c \in Accounts |-> "disconnected"]
    /\ loginNotes = {}
    /\ otr = [t \in Threads |-> "plaintext"]
    /\ otrNotes = {}
    /\ rooms = {}
    /\ wire = [t \in Threads |-> <<>>]
    /\ faults = 0

Fault(kind) ==
    /\ kind \in Faults
    /\ faults < MaxFaults
    /\ faults' = faults + 1

-----------------------------------------------------------------------------
(* The broker.                                                             *)

(* An action occurs once in its queue.                                     *)
Without(s, a) ==
    IF \E i \in 1..Len(s) : s[i] = a
    THEN RemoveAt(s, CHOOSE i \in 1..Len(s) : s[i] = a)
    ELSE s
RemoveRow(a) == queue' = [queue EXCEPT ![ThreadOf[a]] = Without(@, a)]

(* completion(true, 0.0): the row goes and the queue is free.              *)
Finish(a) ==
    /\ RemoveRow(a)
    /\ slot' = [slot EXCEPT ![ThreadOf[a]] = IF @ = a THEN None ELSE @]
    /\ UNCHANGED paused

(* The block c has run; the next one, if any, is d.                        *)
Done(c) == calls' = calls \ {c}
Then(c, d) == calls' = (calls \ {c}) \cup {d}

(* Save the message row and its action in one transaction.  Nothing here   *)
(* looks at the text or the security of the message.                       *)
Enqueue(a) ==
    /\ saved[a] = "new"
    /\ saved' = [saved EXCEPT ![a] = "saved"]
    /\ queue' = [queue EXCEPT ![ThreadOf[a]] = Append(@, a)]
    /\ \/ UNCHANGED <<flaw, faults>>
       \/ /\ KindOf[a] # "roster"
          /\ \/ Fault("blank") /\ \E f \in {"nil", "empty"} : flaw' = [flaw EXCEPT ![a] = f]
             \/ Fault("unsupported") /\ flaw' = [flaw EXCEPT ![a] = "unsupported"]
    /\ UNCHANGED <<result, brokerVars, calls, tableVars, login, loginNotes, otr,
                   otrNotes, rooms, wire>>

(* Mutant: the dates are compared the wrong way round.                     *)
HandNewest(t) ==
    /\ slot[t] = None
    /\ queue[t] # <<>>
    /\ slot' = [slot EXCEPT ![t] = Last(queue[t])]
    /\ calls' = calls \cup {Call("handle", Last(queue[t]))}
    /\ UNCHANGED <<dbVars, paused, tableVars, envVars, wire>>

HandNext(t) ==
    /\ slot[t] = None
    /\ queue[t] # <<>>
    /\ slot' = [slot EXCEPT ![t] = Head(queue[t])]
    /\ calls' = calls \cup {Call("handle", Head(queue[t]))}
    /\ UNCHANGED <<dbVars, paused, tableVars, envVars, wire>>

RetryFires(t) ==
    /\ t \in paused
    /\ paused' = paused \ {t}
    /\ calls' = calls \cup {Call("handle", slot[t])}
    /\ UNCHANGED <<dbVars, slot, tableVars, envVars, wire>>

-----------------------------------------------------------------------------
(* handleNextItem: each branch of the handler is an action.  The database  *)
(* reads and the loginStatus check come first; what is left to do is the   *)
(* next block.                                                             *)

Handling(a) ==
    /\ Call("handle", a) \in calls
    /\ InDatabase(a)
    /\ flaw[a] # "orphan"
Sendable(a) == Handling(a) /\ Online(a) /\ flaw[a] # "unsupported"

HasText(a) == flaw[a] \notin {"nil", "empty"}

(* The message, its thread, its account or the account's protocol is not   *)
(* found: completed as a success, although the message may be stored.      *)
HandleMissing(a) ==
    /\ Call("handle", a) \in calls
    /\ ~InDatabase(a) \/ flaw[a] = "orphan"
    /\ Done(Call("handle", a))
    /\ Finish(a)
    /\ UNCHANGED <<saved, flaw, result, tableVars, envVars, wire>>

(* Not authenticated, autologin: the check is made here, the entry in      *)
(* outstandingAccounts and the connect call follow in steps of their own.  *)
HandleOffline(a) ==
    /\ Handling(a)
    /\ ~Online(a)
    /\ AccountFor(a) \in AutoLogin
    /\ Then(Call("handle", a), Call("register", a))
    /\ UNCHANGED <<dbVars, brokerVars, tableVars, envVars, wire>>

(* Mutant: the early return without the completion call.                   *)
HandleManualSilently(a) ==
    /\ Handling(a)
    /\ ~Online(a)
    /\ AccountFor(a) \notin AutoLogin
    /\ Done(Call("handle", a))
    /\ UNCHANGED <<dbVars, brokerVars, tableVars, envVars, wire>>

HandleManual(a) ==
    /\ Handling(a)
    /\ ~Online(a)
    /\ AccountFor(a) \notin AutoLogin
    /\ Done(Call("handle", a))
    /\ paused' = paused \cup {ThreadOf[a]}
    /\ UNCHANGED <<dbVars, slot, tableVars, envVars, wire>>

WaitForAccount(a) ==
    /\ Call("register", a) \in calls
    /\ outstandingAccounts' = [outstandingAccounts EXCEPT ![AccountFor(a)] = @ \cup {a}]
    /\ Then(Call("register", a), Call("connect", a))
    /\ UNCHANGED <<dbVars, brokerVars, outstandingBuddies, outstandingMessages,
                   timers, envVars, wire>>

(* connectUserInitiated(false): an authenticated stream only goes online   *)
(* again, which posts no login notification.                               *)
Connect(a) ==
    /\ Call("connect", a) \in calls
    /\ Done(Call("connect", a))
    /\ login' = [login EXCEPT ![AccountFor(a)] =
                    IF @ = "disconnected" THEN "connecting" ELSE @]
    /\ UNCHANGED <<dbVars, brokerVars, tableVars, loginNotes, otr, otrNotes,
                   rooms, faults, wire>>

AddBuddyToRoster(a) ==
    /\ Handling(a)
    /\ Online(a)
    /\ KindOf[a] = "roster"
    /\ Done(Call("handle", a))
    /\ Finish(a)
    /\ UNCHANGED <<saved, flaw, result, tableVars, envVars, wire>>

(* Neither a room message nor a direct message to a buddy.                 *)
HandleUnsupported(a) ==
    /\ Handling(a)
    /\ Online(a)
    /\ IsDirect(a)
    /\ flaw[a] = "unsupported"
    /\ Done(Call("handle", a))
    /\ Finish(a)
    /\ UNCHANGED <<saved, flaw, result, tableVars, envVars, wire>>

WaitForMessage(keys) == outstandingMessages' = outstandingMessages \cup keys

(* Mutant: the message is handed to the stream without an entry.           *)
SendPlainUnregistered(a) ==
    /\ Sendable(a)
    /\ KindOf[a] = "plain"
    /\ Then(Call("handle", a), Call("stream", a))
    /\ UNCHANGED <<dbVars, brokerVars, tableVars, envVars, wire>>

SendPlain(a) ==
    /\ Sendable(a)
    /\ KindOf[a] = "plain"
    /\ WaitForMessage({Entry(a, CollectionOf(a))})
    /\ Then(Call("handle", a), Call("stream", a))
    /\ UNCHANGED <<dbVars, brokerVars, outstandingAccounts, outstandingBuddies,
                   timers, envVars, wire>>

(* Mutant: the early return after completion(true) is missing.             *)
SendGroupNoReturn(a) ==
    /\ Handling(a)
    /\ Online(a)
    /\ IsGroup(a)
    /\ ThreadOf[a] \notin rooms
    /\ Then(Call("handle", a), Call("stream", a))
    /\ Finish(a)
    /\ UNCHANGED <<saved, flaw, result, tableVars, envVars, wire>>

(* No XMPPRoom object for the room: "Can't send a message to nowhere".     *)
SendGroupNowhere(a) ==
    /\ Handling(a)
    /\ Online(a)
    /\ IsGroup(a)
    /\ ThreadOf[a] \notin rooms
    /\ Done(Call("handle", a))
    /\ Finish(a)
    /\ UNCHANGED <<saved, flaw, result, tableVars, envVars, wire>>

(* Mutant: an OMEMO group message waits only under the key that            *)
(* sendOMEMOMessage uses.                                                  *)
SendGroupOneKey(a) ==
    /\ Sendable(a)
    /\ IsGroup(a)
    /\ ThreadOf[a] \in rooms
    /\ KindOf[a] = "groupOmemo" => HasText(a)
    /\ LET omemo == KindOf[a] = "groupOmemo"
       IN  /\ WaitForMessage({Entry(a, IF omemo THEN "OTRMessage" ELSE CollectionOf(a))})
           /\ calls' = (calls \ {Call("handle", a)}) \cup
                       {Call(IF omemo THEN "omemo" ELSE "stream", a),
                        Call("markPending", a)}
    /\ UNCHANGED <<dbVars, brokerVars, outstandingAccounts, outstandingBuddies,
                   timers, envVars, wire>>

(* An OMEMO group message waits under two keys: its own collection, and    *)
(* the collection of direct messages that sendOMEMOMessage uses.           *)
SendGroup(a) ==
    /\ Sendable(a)
    /\ IsGroup(a)
    /\ ThreadOf[a] \in rooms
    /\ KindOf[a] = "groupOmemo" => HasText(a)
    /\ LET omemo == KindOf[a] = "groupOmemo"
       IN  /\ WaitForMessage({Entry(a, CollectionOf(a))} \cup
                             IF omemo THEN {Entry(a, "OTRMessage")} ELSE {})
           /\ calls' = (calls \ {Call("handle", a)}) \cup
                       {Call(IF omemo THEN "omemo" ELSE "stream", a),
                        Call("markPending", a)}
    /\ UNCHANGED <<dbVars, brokerVars, outstandingAccounts, outstandingBuddies,
                   timers, envVars, wire>>

(* A room message of a security that rooms do not have is filed and then   *)
(* given up: the early return sends nothing and calls no completion.       *)
SendGroupUnsupported(a) ==
    /\ Handling(a)
    /\ Online(a)
    /\ IsGroup(a)
    /\ ThreadOf[a] \in rooms
    /\ flaw[a] = "unsupported"
    /\ WaitForMessage({Entry(a, CollectionOf(a))})
    /\ Done(Call("handle", a))
    /\ UNCHANGED <<dbVars, brokerVars, outstandingAccounts, outstandingBuddies,
                   timers, envVars, wire>>

(* The write at the end of sendGroupMessage, after the stanza was handed   *)
(* to the stream's own queue.                                              *)
MarkPending(a) ==
    /\ Call("markPending", a) \in calls
    /\ Done(Call("markPending", a))
    /\ result' = [result EXCEPT ![a] = IF InDatabase(a) THEN "pending" ELSE @]
    /\ UNCHANGED <<saved, flaw, queue, brokerVars, tableVars, envVars, wire>>

SendOMEMO(a) ==
    /\ Sendable(a)
    /\ KindOf[a] = "omemo"
    /\ HasText(a)
    /\ WaitForMessage({Entry(a, "OTRMessage")})
    /\ Then(Call("handle", a), Call("omemo", a))
    /\ UNCHANGED <<dbVars, brokerVars, outstandingAccounts, outstandingBuddies,
                   timers, envVars, wire>>

(* sendOMEMOMessage gives up: the completion is called with success.  A    *)
(* room message has its entry by then, and is still marked as pending.     *)
OmemoGivesUp(a, later) ==
    /\ Sendable(a)
    /\ KindOf[a] \in {"omemo", "groupOmemo"}
    /\ IsGroup(a) => ThreadOf[a] \in rooms
    /\ WaitForMessage(IF IsGroup(a) THEN {Entry(a, CollectionOf(a))} ELSE {})
    /\ calls' = (calls \ {Call("handle", a)}) \cup
                {Call(op, a) : op \in later \cup (IF IsGroup(a) THEN {"markPending"} ELSE {})}
    /\ Finish(a)
    /\ UNCHANGED <<saved, flaw, result, outstandingAccounts, outstandingBuddies,
                   timers, login, loginNotes, otr, otrNotes, rooms, wire>>

OmemoWithoutText(a) == ~HasText(a) /\ OmemoGivesUp(a, {}) /\ UNCHANGED faults

(* The account has no OMEMO coordinator: the error is stored by a write    *)
(* that is only dispatched.                                                *)
OmemoUnavailable(a) ==
    HasText(a) /\ OmemoGivesUp(a, {"saveError"}) /\ Fault("unavailable")

NeedsSession(a) == KindOf[a] = "otr" /\ otr[ThreadOf[a]] # "encrypted"

(* A message whose text is nil; an empty one is encoded.                   *)
SendOTRWithoutText(a) ==
    /\ Sendable(a)
    /\ KindOf[a] \in {"otr", "otrOptional"}
    /\ flaw[a] = "nil"
    /\ Done(Call("handle", a))
    /\ Finish(a)
    /\ UNCHANGED <<saved, flaw, result, tableVars, envVars, wire>>

SendEncoded(a) ==
    /\ Sendable(a)
    /\ KindOf[a] \in {"otr", "otrOptional"}
    /\ flaw[a] # "nil"
    /\ ~NeedsSession(a)
    /\ WaitForMessage({Entry(a, "OTRMessage")})
    /\ Then(Call("handle", a), Call("encode", a))
    /\ UNCHANGED <<dbVars, brokerVars, outstandingAccounts, outstandingBuddies,
                   timers, envVars, wire>>

RequestSession(a) ==
    /\ Sendable(a)
    /\ NeedsSession(a)
    /\ flaw[a] # "nil"
    /\ Then(Call("handle", a), Call("otrStart", a))
    /\ UNCHANGED <<dbVars, brokerVars, tableVars, envVars, wire>>

(* Mutant: no timer is scheduled.                                          *)
InitiateWithoutTimer(a) ==
    /\ Call("otrStart", a) \in calls
    /\ Done(Call("otrStart", a))
    /\ outstandingBuddies' = [outstandingBuddies EXCEPT ![ThreadOf[a]] = a]
    /\ UNCHANGED <<dbVars, brokerVars, outstandingAccounts, outstandingMessages,
                   timers, envVars, wire>>

(* The block on the main queue: schedule the timer, wait for the buddy     *)
(* (replacing whatever waited) and start the key exchange.                 *)
InitiateEncryption(a) ==
    /\ Call("otrStart", a) \in calls
    /\ Done(Call("otrStart", a))
    /\ timers' = [timers EXCEPT ![a] = @ + 1]
    /\ outstandingBuddies' = [outstandingBuddies EXCEPT ![ThreadOf[a]] = a]
    /\ UNCHANGED <<dbVars, brokerVars, outstandingAccounts, outstandingMessages,
                   envVars, wire>>

-----------------------------------------------------------------------------
(* Notifications and the OTR timer, all run on the handler's serial        *)
(* operation queue.                                                        *)

(* Mutant: the set is read and stays in the table.                         *)
DeliverLoginKeepsSet(c) ==
    /\ c \in loginNotes
    /\ loginNotes' = loginNotes \ {c}
    /\ \/ /\ outstandingAccounts[c] = {}
          /\ UNCHANGED calls
       \/ \E a \in outstandingAccounts[c] : calls' = calls \cup {Call("handle", a)}
    /\ UNCHANGED <<dbVars, brokerVars, tableVars, login, otr, otrNotes, rooms,
                   faults, wire>>

(* didConnectAccount: the whole set is removed, one member is resumed.     *)
DeliverLogin(c) ==
    /\ c \in loginNotes
    /\ loginNotes' = loginNotes \ {c}
    /\ outstandingAccounts' = [outstandingAccounts EXCEPT ![c] = {}]
    /\ \/ /\ outstandingAccounts[c] = {}
          /\ UNCHANGED calls
       \/ \E a \in outstandingAccounts[c] : calls' = calls \cup {Call("handle", a)}
    /\ UNCHANGED <<dbVars, brokerVars, outstandingBuddies, outstandingMessages,
                   timers, login, otr, otrNotes, rooms, faults, wire>>

(* Mutants: no check that anybody waits; the entry is read, not removed.   *)
DeliverEncryptedUnchecked(t) ==
    /\ t \in otrNotes
    /\ otrNotes' = otrNotes \ {t}
    /\ outstandingBuddies' = [outstandingBuddies EXCEPT ![t] = None]
    /\ calls' = calls \cup {Call("resend", outstandingBuddies[t])}
    /\ UNCHANGED <<dbVars, brokerVars, outstandingAccounts, outstandingMessages,
                   timers, login, loginNotes, otr, rooms, faults, wire>>

DeliverEncryptedKeepsEntry(t) ==
    /\ t \in otrNotes
    /\ otrNotes' = otrNotes \ {t}
    /\ calls' = IF outstandingBuddies[t] = None THEN calls
                ELSE calls \cup {Call("resend", outstandingBuddies[t])}
    /\ UNCHANGED <<dbVars, brokerVars, tableVars, login, loginNotes, otr, rooms,
                   faults, wire>>

(* The buddy went encrypted.  The entry's timer field is always nil, so    *)
(* invalidating it leaves the scheduled timer running.                     *)
DeliverEncrypted(t) ==
    /\ t \in otrNotes
    /\ otrNotes' = otrNotes \ {t}
    /\ outstandingBuddies' = [outstandingBuddies EXCEPT ![t] = None]
    /\ calls' = IF outstandingBuddies[t] = None THEN calls
                ELSE calls \cup {Call("resend", outstandingBuddies[t])}
    /\ UNCHANGED <<dbVars, brokerVars, outstandingAccounts, outstandingMessages,
                   timers, login, loginNotes, otr, rooms, faults, wire>>

(* sendMessage(outstandingMessage): look the action up again by its key.   *)
HasRow(a) == \E i \in 1..Len(queue[ThreadOf[a]]) : queue[ThreadOf[a]][i] = a
Resend(a) ==
    /\ Call("resend", a) \in calls
    /\ \/ /\ HasRow(a)
          /\ Then(Call("resend", a), Call("handle", a))
          /\ UNCHANGED <<queue, brokerVars>>
       \/ /\ ~HasRow(a)
          /\ Done(Call("resend", a))
          /\ Finish(a)
    /\ UNCHANGED <<saved, flaw, result, tableVars, envVars, wire>>

SaveError(a) == result' = [result EXCEPT ![a] = IF InDatabase(a) THEN "error" ELSE @]

(* The write that sendOMEMOMessage dispatched when it gave up.             *)
SaveOmemoError(a) ==
    /\ Call("saveError", a) \in calls
    /\ Done(Call("saveError", a))
    /\ SaveError(a)
    /\ UNCHANGED <<saved, flaw, queue, brokerVars, tableVars, envVars, wire>>

(* Mutants: the entry stays when its message is completed; the error is    *)
(* not saved; the timer frees the queue whatever is in process.            *)
OtrTimeoutKeepsEntry(a) ==
    LET b == outstandingBuddies[ThreadOf[a]]
    IN  /\ timers[a] > 0
        /\ timers' = [timers EXCEPT ![a] = @ - 1]
        /\ IF b = None THEN UNCHANGED <<result, queue, brokerVars>>
                       ELSE SaveError(b) /\ Finish(b)
        /\ UNCHANGED <<saved, flaw, calls, outstandingAccounts, outstandingBuddies,
                       outstandingMessages, envVars, wire>>

OtrTimeoutForgetsError(a) ==
    LET t == ThreadOf[a]
        b == outstandingBuddies[t]
    IN  /\ timers[a] > 0
        /\ timers' = [timers EXCEPT ![a] = @ - 1]
        /\ outstandingBuddies' = [outstandingBuddies EXCEPT ![t] = None]
        /\ IF b = None THEN UNCHANGED <<queue, brokerVars>> ELSE Finish(b)
        /\ UNCHANGED <<saved, flaw, result, calls, outstandingAccounts,
                       outstandingMessages, envVars, wire>>

OtrTimeoutFreesQueue(a) ==
    LET t == ThreadOf[a]
    IN  /\ timers[a] > 0
        /\ timers' = [timers EXCEPT ![a] = @ - 1]
        /\ outstandingBuddies' = [outstandingBuddies EXCEPT ![t] = None]
        /\ IF slot[t] = None THEN UNCHANGED <<result, queue, brokerVars>>
                             ELSE SaveError(slot[t]) /\ Finish(slot[t])
        /\ UNCHANGED <<saved, flaw, calls, outstandingAccounts, outstandingMessages,
                       envVars, wire>>

(* otrInitatiateTimeout: the timer scheduled for a knows only the buddy.   *)
OtrTimeout(a) ==
    LET t == ThreadOf[a]
        b == outstandingBuddies[t]
    IN  /\ timers[a] > 0
        /\ timers' = [timers EXCEPT ![a] = @ - 1]
        /\ outstandingBuddies' = [outstandingBuddies EXCEPT ![t] = None]
        /\ IF b = None THEN UNCHANGED <<result, queue, brokerVars>>
                       ELSE SaveError(b) /\ Finish(b)
        /\ UNCHANGED <<saved, flaw, calls, outstandingAccounts, outstandingMessages,
                       envVars, wire>>

-----------------------------------------------------------------------------
(* Encryption.                                                             *)

(* OTRKit answers; a success saves the handler's copy of the message, also *)
(* when the row was deleted in between.                                    *)
Encoded(a) ==
    /\ Call("encode", a) \in calls
    /\ saved' = [saved EXCEPT ![a] = IF @ = "deleted" THEN "revived" ELSE @]
    /\ Then(Call("encode", a), Call("stream", a))
    /\ UNCHANGED <<flaw, result, queue, brokerVars, tableVars, envVars, wire>>

(* On an encoding error the action row is removed behind the handler's     *)
(* back; no completion is called.                                          *)
EncodeFails(a) ==
    /\ Call("encode", a) \in calls
    /\ Fault("encode")
    /\ Done(Call("encode", a))
    /\ IF InDatabase(a) THEN SaveError(a) /\ RemoveRow(a)
                        ELSE UNCHANGED <<result, queue>>
    /\ UNCHANGED <<saved, flaw, brokerVars, tableVars, login, loginNotes, otr,
                   otrNotes, rooms, wire>>

(* OTRKit reports no error and an empty text: nothing at all happens.      *)
EncodedToNothing(a) ==
    /\ Call("encode", a) \in calls
    /\ Fault("encode")
    /\ Done(Call("encode", a))
    /\ UNCHANGED <<dbVars, brokerVars, tableVars, login, loginNotes, otr, otrNotes,
                   rooms, wire>>

(* OTROMEMOSignalCoordinator.encryptAndSendMessage: sent, or an error, or  *)
(* neither.                                                                *)
OmemoEncrypted(a) ==
    /\ Call("omemo", a) \in calls
    /\ Then(Call("omemo", a), Call("stream", a))
    /\ UNCHANGED <<dbVars, brokerVars, tableVars, envVars, wire>>

(* Pop the entry of the message; the completion is called when there is    *)
(* one.                                                                    *)
PopMessage(a) ==
    /\ outstandingMessages' = outstandingMessages \ {Entry(a, CollectionOf(a))}
    /\ IF Entry(a, CollectionOf(a)) \in outstandingMessages
       THEN Finish(a)
       ELSE UNCHANGED <<queue, brokerVars>>

OmemoFails(a) ==
    /\ Call("omemo", a) \in calls
    /\ Done(Call("omemo", a))
    /\ SaveError(a)
    /\ PopMessage(a)
    /\ UNCHANGED <<saved, flaw, outstandingAccounts, outstandingBuddies, timers,
                   envVars, wire>>

(* No answer: the closure of a device list request was overwritten by that *)
(* of another message, or the payload could not be encrypted.  Or a        *)
(* success although no stanza was made for the room.                       *)
OmemoUnanswered(a) ==
    /\ Call("omemo", a) \in calls
    /\ Fault("silent")
    /\ Done(Call("omemo", a))
    /\ UNCHANGED <<dbVars, brokerVars, tableVars, login, loginNotes, otr, otrNotes,
                   rooms, wire>>

-----------------------------------------------------------------------------
(* The stream and its callbacks.                                           *)

(* sendElement on the stream's queue.  The status says what the manager    *)
(* has heard: a stream that it believes to be up may be down by now, or    *)
(* the other way round, so a stanza is written or rejected in any status.  *)
ToStream(a) == Call("stream", a) \in calls /\ (KindOf[a] = "plain" => HasText(a))

Write(a) ==
    /\ ToStream(a)
    /\ wire' = [wire EXCEPT ![ThreadOf[a]] = Append(@, a)]
    /\ Then(Call("stream", a), Call("didSend", a))
    /\ UNCHANGED <<dbVars, brokerVars, tableVars, envVars>>

WriteFails(a) ==
    /\ ToStream(a)
    /\ Then(Call("stream", a), Call("didFail", a))
    /\ UNCHANGED <<dbVars, brokerVars, tableVars, envVars, wire>>

(* OTRXMPPManager.sendMessage returns without a word when the message has  *)
(* no text or its buddy has gone.                                          *)
WriteForgotten(a) ==
    /\ Call("stream", a) \in calls
    /\ KindOf[a] \in {"plain", "otr", "otrOptional"}
    /\ \/ saved[a] \in {"deleted", "revived"}
       \/ flaw[a] = "orphan"
       \/ KindOf[a] = "plain" /\ ~HasText(a)
    /\ Done(Call("stream", a))
    /\ UNCHANGED <<dbVars, brokerVars, tableVars, envVars, wire>>

(* The status module finds the message by its stanza id, or ignores the    *)
(* callback.                                                               *)
DidSendMessage(a) ==
    /\ Call("didSend", a) \in calls
    /\ Done(Call("didSend", a))
    /\ IF InDatabase(a) /\ Entry(a, CollectionOf(a)) \in outstandingMessages
       THEN /\ PopMessage(a)
            /\ result' = [result EXCEPT ![a] = "sent"]
       ELSE UNCHANGED <<outstandingMessages, queue, brokerVars, result>>
    /\ UNCHANGED <<saved, flaw, outstandingAccounts, outstandingBuddies, timers,
                   envVars, wire>>

(* Two delegates: the manager stores the error on direct messages only,    *)
(* the status module completes the action.                                 *)
DidFailToSendMessage(a) ==
    /\ Call("didFail", a) \in calls
    /\ Done(Call("didFail", a))
    /\ IF IsGroup(a) THEN UNCHANGED result ELSE SaveError(a)
    /\ IF InDatabase(a) THEN PopMessage(a)
                        ELSE UNCHANGED <<outstandingMessages, queue, brokerVars>>
    /\ UNCHANGED <<saved, flaw, outstandingAccounts, outstandingBuddies, timers,
                   envVars, wire>>

-----------------------------------------------------------------------------
(* The environment: connection, sessions, rooms, the user, the process.    *)

(* The user or XMPPReconnect starts a connection.                          *)
Reconnect(c) ==
    /\ login[c] = "disconnected"
    /\ login' = [login EXCEPT ![c] = "connecting"]
    /\ UNCHANGED <<dbVars, brokerVars, calls, tableVars, loginNotes, otr,
                   otrNotes, rooms, faults, wire>>

DidAuthenticate(c) ==
    /\ login[c] = "connecting"
    /\ login' = [login EXCEPT ![c] = "authenticated"]
    /\ loginNotes' = loginNotes \cup {c}
    /\ UNCHANGED <<dbVars, brokerVars, calls, tableVars, otr, otrNotes, rooms,
                   faults, wire>>

DidDisconnect(c) ==
    /\ login[c] # "disconnected"
    /\ Fault("drop")
    /\ login' = [login EXCEPT ![c] = "disconnected"]
    /\ UNCHANGED <<dbVars, brokerVars, calls, tableVars, loginNotes, otr,
                   otrNotes, rooms, wire>>

(* The account is no longer called authenticated although its stream may   *)
(* still be: a connect that was begun before sets the status to Connecting *)
(* and authenticates the stream again, disconnectAllAccounts sets it to    *)
(* Disconnecting.                                                          *)
StatusFalls(c) ==
    /\ login[c] = "authenticated"
    /\ Fault("statusFalls")
    /\ login' = [login EXCEPT ![c] = "connecting"]
    /\ UNCHANGED <<dbVars, brokerVars, calls, tableVars, loginNotes, otr,
                   otrNotes, rooms, wire>>

(* OTRXMPPRoomManager joins the saved rooms from its own queue.            *)
JoinRoom(t) ==
    /\ Group(t)
    /\ t \notin rooms
    /\ login[AccountOf[t]] = "authenticated"
    /\ rooms' = rooms \cup {t}
    /\ UNCHANGED <<dbVars, brokerVars, calls, tableVars, login, loginNotes, otr,
                   otrNotes, faults, wire>>

GoneSecure(t) ==
    /\ \E a \in Actions : ThreadOf[a] = t /\ KindOf[a] = "otr"
    /\ otr[t] = "plaintext"
    /\ login[AccountOf[t]] = "authenticated"
    /\ otr' = [otr EXCEPT ![t] = "encrypted"]
    /\ otrNotes' = otrNotes \cup {t}
    /\ UNCHANGED <<dbVars, brokerVars, calls, tableVars, login, loginNotes,
                   rooms, faults, wire>>

SessionEnds(t) ==
    /\ otr[t] = "encrypted"
    /\ Fault("otrEnd")
    /\ otr' = [otr EXCEPT ![t] = "plaintext"]
    /\ UNCHANGED <<dbVars, brokerVars, calls, tableVars, login, loginNotes,
                   otrNotes, rooms, wire>>

(* Deleting the message (or its buddy) deletes the action row with it.     *)
Delete(a) ==
    /\ InDatabase(a)
    /\ Fault("delete")
    /\ saved' = [saved EXCEPT ![a] = "deleted"]
    /\ RemoveRow(a)
    /\ UNCHANGED <<flaw, result, brokerVars, calls, tableVars, login, loginNotes, otr,
                   otrNotes, rooms, wire>>

(* The message stays, but its thread, account or protocol is not found.    *)
Orphan(a) ==
    /\ InDatabase(a)
    /\ flaw[a] = "none"
    /\ Fault("orphan")
    /\ flaw' = [flaw EXCEPT ![a] = "orphan"]
    /\ UNCHANGED <<saved, result, queue, brokerVars, calls, tableVars, login,
                   loginNotes, otr, otrNotes, rooms, wire>>

(* The process dies and starts again: only the database survives.          *)
Restart ==
    /\ Fault("restart")
    /\ slot' = [t \in Threads |-> None]
    /\ paused' = {}
    /\ calls' = {}
    /\ outstandingAccounts' = [c \in Accounts |-> {}]
    /\ outstandingBuddies' = [t \in Threads |-> None]
    /\ outstandingMessages' = {}
    /\ timers' = [a \in Actions |-> 0]
    /\ login' = [c \in Accounts |-> "disconnected"]
    /\ loginNotes' = {}
    /\ otr' = [t \in Threads |-> "plaintext"]
    /\ otrNotes' = {}
    /\ rooms' = {}
    /\ wire' = [t \in Threads |-> <<>>]
    /\ UNCHANGED dbVars

-----------------------------------------------------------------------------
Broker == \E t \in Threads : HandNext(t) \/ RetryFires(t)

Handle(a) ==
    \/ HandleMissing(a) \/ HandleOffline(a) \/ HandleManual(a)
    \/ AddBuddyToRoster(a) \/ HandleUnsupported(a) \/ SendPlain(a)
    \/ SendGroupNowhere(a) \/ SendGroupUnsupported(a) \/ SendGroup(a)
    \/ SendOMEMO(a) \/ OmemoWithoutText(a) \/ OmemoUnavailable(a)
    \/ SendOTRWithoutText(a) \/ SendEncoded(a) \/ RequestSession(a)

Callback(a) ==
    \/ WaitForAccount(a) \/ Connect(a) \/ MarkPending(a) \/ SaveOmemoError(a)
    \/ InitiateEncryption(a) \/ Resend(a) \/ OtrTimeout(a)
    \/ Write(a) \/ WriteFails(a) \/ WriteForgotten(a)
    \/ DidSendMessage(a) \/ DidFailToSendMessage(a)

Encryption(a) ==
    \/ Encoded(a) \/ EncodeFails(a) \/ EncodedToNothing(a)
    \/ OmemoEncrypted(a) \/ OmemoFails(a) \/ OmemoUnanswered(a)

Notification ==
    \/ \E c \in Accounts : DeliverLogin(c)
    \/ \E t \in Threads : DeliverEncrypted(t)

Environment ==
    \/ \E c \in Accounts : Reconnect(c) \/ DidAuthenticate(c) \/ DidDisconnect(c)
                           \/ StatusFalls(c)
    \/ \E t \in Threads : JoinRoom(t) \/ GoneSecure(t) \/ SessionEnds(t)
    \/ \E a \in Actions : Enqueue(a) \/ Delete(a) \/ Orphan(a)
    \/ Restart

Next ==
    \/ Broker
    \/ \E a \in Actions : Handle(a) \/ Callback(a) \/ Encryption(a)
    \/ Notification
    \/ Environment

Spec == Init /\ [][Next]_vars

(* Blocks that were dispatched run, notifications are delivered, timers    *)
(* fire and encryption is answered.  Nothing is assumed of the server, the *)
(* peers, the user or the process.                                         *)
Fairness ==
    /\ \A t \in Threads : WF_vars(HandNext(t)) /\ WF_vars(RetryFires(t))
                          /\ WF_vars(DeliverEncrypted(t))
    /\ \A a \in Actions : /\ WF_vars(Handle(a))
                          /\ WF_vars(WaitForAccount(a))
                          /\ WF_vars(Connect(a))
                          /\ WF_vars(SaveOmemoError(a))
                          /\ WF_vars(InitiateEncryption(a))
                          /\ WF_vars(Resend(a))
                          /\ WF_vars(OtrTimeout(a))
                          /\ WF_vars(Write(a) \/ WriteFails(a) \/ WriteForgotten(a))
                          /\ WF_vars(DidSendMessage(a))
                          /\ WF_vars(DidFailToSendMessage(a))
                          /\ WF_vars(Encryption(a))
    /\ \A c \in Accounts : WF_vars(DeliverLogin(c))

FairSpec == Spec /\ Fairness
-----------------------------------------------------------------------------
(* Properties.                                                             *)

(* Every variable keeps its shape: queues, slots and tables hold actions,  *)
(* states come from their enumerations.                                    *)
TypeOK ==
    /\ saved \in [Actions -> RowStates]
    /\ flaw \in [Actions -> Flaws]
    /\ result \in [Actions -> Results]
    /\ queue \in [Threads -> Seq(Actions)]
    /\ slot \in [Threads -> Actions \cup {None}]
    /\ paused \subseteq Threads
    /\ calls \subseteq Calls
    /\ outstandingAccounts \in [Accounts -> SUBSET Actions]
    /\ outstandingBuddies \in [Threads -> Actions \cup {None}]
    /\ outstandingMessages \subseteq (Actions \X Collections)
    /\ timers \in [Actions -> Nat]
    /\ login \in [Accounts -> LoginStates]
    /\ loginNotes \subseteq Accounts
    /\ otr \in [Threads -> {"plaintext", "encrypted"}]
    /\ otrNotes \subseteq Threads
    /\ rooms \subseteq Threads
    /\ wire \in [Threads -> Seq(Actions)]
    /\ faults \in Nat

(* Where the completion block of an action still is: in a block that will  *)
(* run, or in one of the two tables a notification or a timer pops.        *)
Holds(a) ==
    {c.op : c \in {d \in calls : d.act = a /\ d.op \in HolderOps}}
    \cup (IF a \in outstandingAccounts[AccountFor(a)] THEN {"account"} ELSE {})
    \cup (IF outstandingBuddies[ThreadOf[a]] = a THEN {"buddy"} ELSE {})

(* A completion is kept only for the action its thread has in process, and *)
(* not while the broker itself waits to retry: nobody can complete, or     *)
(* send, an action whose turn is over.                                     *)
CompletionOwned ==
    \A a \in Actions : Holds(a) # {} =>
        slot[ThreadOf[a]] = a /\ ThreadOf[a] \notin paused

(* A completion is kept in one place: no two callbacks race to complete    *)
(* the same action or to send the same message.                            *)
SingleHolder ==
    \A a \in Actions : \A p, q \in Holds(a) : p = q

(* A queue in process always has somebody who will call the completion;    *)
(* otherwise nothing behind it in the thread is ever sent.  The code does  *)
(* this only for messages with text that go out in plaintext or under OTR, *)
(* from accounts with one waiting message each; DropHasCause says what     *)
(* becomes of the others.                                                  *)
NothingDropped ==
    \A t \in Threads :
        slot[t] # None /\ t \notin paused /\ HasText(slot[t]) => Holds(slot[t]) # {}

(* While the process runs a stanza is written once, and an action that is  *)
(* already on the wire is only waiting for the stream's answer.            *)
WrittenOnce ==
    \A a \in Actions :
        /\ \A i, j \in 1..Len(wire[ThreadOf[a]]) :
              wire[ThreadOf[a]][i] = a /\ wire[ThreadOf[a]][j] = a => i = j
        /\ Contains(wire[ThreadOf[a]], a) => Holds(a) \subseteq {"didSend"}

(* No message overtakes another: a stanza is written while no message of   *)
(* its thread that was queued before it is still to be sent, whatever was  *)
(* retried, timed out, deleted or left from before a restart.              *)
SentInOrder ==
    [][\A a \in Actions : LET t == ThreadOf[a] IN
          wire'[t] = Append(wire[t], a) =>
             \A i \in 1..Len(queue[t]) : queue[t][i] = a => i = 1]_vars

(* An action leaves the persistent queue only once its message was sent,   *)
(* carries an error the user can see, or was deleted.  RemovalHasCause     *)
(* lists the exceptions.                                                   *)
RemovedIsSettled ==
    \A a \in Actions :
        saved[a] = "saved" /\ KindOf[a] # "roster" /\ ~HasRow(a) =>
            result[a] \in {"sent", "error"}

(* The stored delivery state of a message never falls back: once it was    *)
(* sent no late timer or callback marks it as failed, and a failed one is  *)
(* not sent after all.  The verdict of a room message is taken back by     *)
(* nobody but the handler itself, whose own write of "pending" may come    *)
(* after the answer.                                                       *)
VerdictIsFinal ==
    [][\A a \in Actions : result[a] \in {"sent", "error"} /\ result'[a] # result[a] =>
          IsGroup(a) /\ Call("markPending", a) \in calls /\ result'[a] = "pending"]_vars

(* A message that waits for an OTR session is the only one of its buddy    *)
(* that waits: starting an exchange never overwrites another's entry.      *)
NoOverwrittenWait ==
    [][\A t \in Threads :
          outstandingBuddies[t] # None /\ outstandingBuddies'[t] # None =>
          outstandingBuddies'[t] = outstandingBuddies[t]]_vars

(* The completion of a busy queue is gone: nobody will ever free the queue *)
(* while the process runs.                                                 *)
Abandoned(t) == slot[t] # None /\ t \notin paused /\ Holds(slot[t]) = {}

(* A login woke another of the actions that waited with a.                 *)
PassedOver(a) ==
    LET waiting == outstandingAccounts[AccountFor(a)]
    IN  a \in waiting /\ \E b \in waiting \ {a} : Call("handle", b) \in calls'

(* A completion is lost in these ways and no other: the message or its     *)
(* owner went while it was in flight; a login woke another of the actions  *)
(* that waited for it; OTRKit answered with an error or with nothing; the  *)
(* OMEMO coordinator never answered, or answered and sent nothing; a room  *)
(* message has a security that rooms do not have; a plaintext message has  *)
(* no text.  Waits, timers, retries, logins and stream errors never do it. *)
DropHasCause ==
    [][\A t \in Threads : Abandoned(t)' /\ ~Abandoned(t) =>
          LET a == slot[t]
          IN  \/ saved[a] \in {"deleted", "revived"} \/ flaw[a] = "orphan"
              \/ PassedOver(a)
              \/ Call("encode", a) \in calls
              \/ Call("omemo", a) \in calls
              \/ IsGroup(a) /\ flaw[a] = "unsupported"
              \/ KindOf[a] = "plain" /\ ~HasText(a)]_vars

(* A lost completion is lost for as long as the process runs: no timer,    *)
(* login, session or late answer of another message frees the queue.       *)
DropIsForever ==
    [][\A t \in Threads : Abandoned(t) =>
          Restart \/ (Abandoned(t)' /\ slot'[t] = slot[t])]_vars

(* A message that stays in the database leaves the queue without a verdict *)
(* in these ways and no other: its room has no XMPPRoom object, or the     *)
(* stream rejected the stanza of a room message; its owner, account or     *)
(* protocol is not found; it is of no supported type; it has no text; or   *)
(* its account has no OMEMO, and the error will be stored later.           *)
RemovalHasCause ==
    [][\A a \in Actions :
          saved'[a] = "saved" /\ KindOf[a] # "roster" /\ HasRow(a) /\ ~HasRow(a)' =>
             \/ result'[a] \in {"sent", "error"}
             \/ IsGroup(a) /\ (ThreadOf[a] \notin rooms \/ Call("didFail", a) \in calls)
             \/ flaw[a] # "none"
             \/ Call("saveError", a) \in calls']_vars

(* Whoever waits for an OTR session has a timer of its own running: the    *)
(* wait cannot be left without an end.                                     *)
WaitHasTimer ==
    \A t \in Threads : outstandingBuddies[t] # None => timers[outstandingBuddies[t]] > 0

(* A message waits for an OTR session a bounded time: the session comes or *)
(* the timer fires, whatever the peer does.                                *)
OtrWaitEnds ==
    \A a \in Actions :
        outstandingBuddies[ThreadOf[a]] = a ~> outstandingBuddies[ThreadOf[a]] # a

(* If every account is in the end connected for good, every action that    *)
(* was queued leaves the queue.                                            *)
QueueDrains ==
    <>[](\A c \in Accounts : login[c] = "authenticated") =>
        \A a \in Actions : HasRow(a) ~> ~HasRow(a)

(* The handler implements the outbox.                                      *)
Promise == INSTANCE Outbox WITH pending <- queue, taken <- slot
ImplementsOutbox == Promise!Spec
=============================================================================
