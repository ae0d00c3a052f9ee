----------------------------- MODULE DeviceTrust -----------------------------
(***************************************************************************)
(* Which OMEMO devices are trusted: the OMEMODevice rows of one parent (a  *)
(* buddy, or the account itself) and everything that writes them.          *)
(* OTROMEMOStorageManager stores device lists, OTRSignalStorageManager     *)
(* saves identities, the key management screen saves the user's switches,  *)
(* and OTROMEMOSignalCoordinator removes devices.                          *)
(*                                                                         *)
(* Lists are stored by asynchronous transactions and the screen works on   *)
(* copies that it writes back later, so a row may change between the       *)
(* moment somebody looked at it and the moment it is written.              *)
(***************************************************************************)
EXTENDS Naturals, Sequences

CONSTANTS
    Devices,
    Own,        \* this app's device if the parent is the account, else NoDevice
    NoDevice,
    Events,     \* the optional events of this instance
    MaxLists,   \* how many device lists arrive
    MaxSheets   \* how often the user opens the screen

OptionalEvents == {"emptyList", "sheet", "userRemove", "expire"}

ASSUME DeviceAssumption ==
    /\ NoDevice \notin Devices
    /\ Own \in Devices \cup {NoDevice}
    /\ Events \subseteq OptionalEvents
    /\ MaxLists \in Nat
    /\ MaxSheets \in Nat

VARIABLES
    known,      \* the parent has a row (an account always has)
    trust,      \* per device, its row's trustLevel; "none": no row
    fresh,      \* devices whose lastSeenDate is less than 30 days old
    keyed,      \* devices whose row has publicIdentityKeyData
    sessions,   \* devices with a Signal session record
    fetching,   \* devices whose bundle was requested
    stores,     \* device lists handed to asyncReadWrite, not yet stored
    sheet,      \* the copies the open screen shows, or NoSheet
    saving,     \* the copies a pressed Save writes back, or NoSheet
    lists, sheets   \* how many so far

(* What the properties remember; no action reads these.                    *)
VARIABLES
    first,      \* the devices seen while the parent had no row
    approved,   \* devices the user has ever switched on
    verdict,    \* per row, the last switch the user saved
    lastList    \* the list stored last

rowVars   == <<known, trust, fresh, keyed, sessions>>
uiVars    == <<sheet, saving, sheets>>
ghosts    == <<first, approved, verdict, lastList>>
vars == <<rowVars, fetching, stores, lists, uiVars, ghosts>>

Levels == {"untrustedNew", "untrusted", "trustedTofu", "trustedUser", "removed"}
TrustedLevels == {"trustedTofu", "trustedUser"}
Verdicts == {"open", "yes", "no"}

(* The copies on the screen: their level, which have a date less than 30   *)
(* days old, and which the user switched.                                  *)
NoSheet == [open |-> FALSE, level |-> [d \in Devices |-> "none"],
            fresh |-> {}, touched |-> {}]
Sheets == [open : BOOLEAN, level : [Devices -> Levels \cup {"none"}],
           fresh : SUBSET Devices, touched : SUBSET Devices]

Stored == {d \in Devices : trust[d] # "none"}

Init ==
    /\ known = (Own # NoDevice)
    /\ trust = [d \in Devices |-> "none"]
    /\ fresh = {}
    /\ keyed = {}
    /\ sessions = {}
    /\ fetching = {}
    /\ stores = <<>>
    /\ sheet = NoSheet
    /\ saving = NoSheet
    /\ lists = 0
    /\ sheets = 0
    /\ first = {}
    /\ approved = {}
    /\ verdict = [d \in Devices |-> "open"]
    /\ lastList = {}

-----------------------------------------------------------------------------
(* Device lists.                                                           *)

(* Mutant: this device is not added to a list that lacks it.               *)
ReceiveListAsIs(list) ==
    /\ lists < MaxLists
    /\ list = {} => "emptyList" \in Events
    /\ lists' = lists + 1
    /\ stores' = Append(stores, list)
    /\ UNCHANGED <<rowVars, fetching, uiVars, ghosts>>

(* processIncomingDeviceIds: a list of our own account that lacks this     *)
(* device is stored as it is and then once more with this device.          *)
ReceiveList(list) ==
    /\ lists < MaxLists
    /\ list = {} => "emptyList" \in Events
    /\ lists' = lists + 1
    /\ stores' = stores \o IF Own \in Devices \ list THEN <<list, list \cup {Own}>>
                                                     ELSE <<list>>
    /\ UNCHANGED <<rowVars, fetching, uiVars, ghosts>>

NewLevel == IF Stored = {} THEN "trustedTofu" ELSE "untrustedNew"

(* Mutants: every list is a first list; a device that comes back is        *)
(* trusted.                                                                *)
LevelAfterAlwaysTofu(list, d) ==
    IF d \in Stored \ list THEN "removed"
    ELSE IF d \in list \ Stored THEN "trustedTofu"
    ELSE trust[d]

LevelAfterRestored(list, d) ==
    IF d \in Stored \ list THEN "removed"
    ELSE IF d \in list \ Stored THEN NewLevel
    ELSE IF trust[d] = "removed" THEN "trustedTofu"
    ELSE trust[d]

(* The rows of devices that left the list are kept; a row that has once    *)
(* been marked keeps its mark when the device comes back.                  *)
LevelAfter(list, d) ==
    IF d \in Stored \ list THEN "removed"
    ELSE IF d \in list \ Stored THEN NewLevel
    ELSE trust[d]

StoreEmptyList ==
    /\ stores # <<>>
    /\ known
    /\ Head(stores) = {}
    /\ stores' = Tail(stores)
    /\ trust' = [d \in Devices |-> "none"]
    /\ fresh' = {}
    /\ keyed' = {}
    /\ verdict' = [d \in Devices |-> "open"]
    /\ lastList' = {}
    /\ UNCHANGED <<known, sessions, fetching, lists, uiVars, first, approved>>

StoreList ==
    /\ stores # <<>>
    /\ known
    /\ Head(stores) # {}
    /\ LET list == Head(stores)
       IN  /\ trust' = [d \in Devices |-> LevelAfter(list, d)]
           /\ fresh' = fresh \cup (list \ Stored)
           /\ first' = IF Stored = {} THEN first \cup list ELSE first
           /\ lastList' = list
    /\ stores' = Tail(stores)
    /\ UNCHANGED <<known, keyed, sessions, fetching, lists, uiVars, approved, verdict>>

(* storeBuddyDevices: the list of a buddy that has no row yet is dropped.  *)
DropList ==
    /\ stores # <<>>
    /\ ~known
    /\ stores' = Tail(stores)
    /\ UNCHANGED <<rowVars, fetching, lists, uiVars, ghosts>>

BuddyAdded ==
    /\ ~known
    /\ known' = TRUE
    /\ UNCHANGED <<trust, fresh, keyed, sessions, fetching, stores, lists,
                   uiVars, ghosts>>

-----------------------------------------------------------------------------
(* Sessions.                                                               *)

(* Mutant: our own bundle is requested too.                                *)
PrepareSessionWithOwn ==
    LET wanted == {d \in Stored : d \notin sessions \/ d \notin keyed}
    IN  /\ wanted \ fetching # {}
        /\ fetching' = fetching \cup wanted
        /\ UNCHANGED <<rowVars, stores, lists, uiVars, ghosts>>

(* prepareSession: the bundle of every device that lacks a session or a    *)
(* key is requested, whatever its trust level.                             *)
PrepareSession ==
    LET wanted == {d \in Stored \ {Own} : d \notin sessions \/ d \notin keyed}
    IN  /\ wanted \ fetching # {}
        /\ fetching' = fetching \cup wanted
        /\ UNCHANGED <<rowVars, stores, lists, uiVars, ghosts>>

(* saveIdentity.  The initialiser ignores the date it is given, so the row *)
(* counts as seen just now.                                                *)
SaveIdentity(d) ==
    /\ trust' = [trust EXCEPT ![d] = IF @ = "none" THEN NewLevel ELSE @]
    /\ fresh' = fresh \cup {d}
    /\ keyed' = keyed \cup {d}
    /\ sessions' = sessions \cup {d}
    /\ first' = IF Stored = {} THEN first \cup {d} ELSE first

FetchedBundle(d) ==
    /\ d \in fetching
    /\ known
    /\ fetching' = fetching \ {d}
    /\ SaveIdentity(d)
    /\ UNCHANGED <<known, stores, lists, uiVars, approved, verdict, lastList>>

FailedToFetchBundle(d) ==
    /\ d \in fetching
    /\ fetching' = fetching \ {d}
    /\ UNCHANGED <<rowVars, stores, lists, uiVars, ghosts>>

(* A message that carries the sender's identity; the sender need not be on *)
(* any list.                                                               *)
PreKeyMessage(d) ==
    /\ known
    /\ d # Own
    /\ SaveIdentity(d)
    /\ UNCHANGED <<known, fetching, stores, lists, uiVars, approved, verdict, lastList>>

(* The date is written to a row of the message's buddy, so the account's   *)
(* other devices never get one.                                            *)
MessageFrom(d) ==
    /\ Own = NoDevice
    /\ d \in sessions
    /\ d \in Stored \ fresh
    /\ fresh' = fresh \cup {d}
    /\ UNCHANGED <<known, trust, keyed, sessions, fetching, stores, lists, uiVars,
                   first, approved, verdict, lastList>>

(* A message that cannot be decrypted deletes the session.                 *)
SessionCorrupted(d) ==
    /\ d \in sessions
    /\ sessions' = sessions \ {d}
    /\ UNCHANGED <<known, trust, fresh, keyed, fetching, stores, lists, uiVars, ghosts>>

(* Mutant: an expired row is deleted.                                      *)
ExpireDeletes(d) ==
    /\ "expire" \in Events
    /\ d \in fresh
    /\ fresh' = fresh \ {d}
    /\ trust' = [trust EXCEPT ![d] = "none"]
    /\ UNCHANGED <<known, keyed, sessions, fetching, stores, lists, uiVars, ghosts>>

(* A copy is never dated later than a row that has not expired.            *)
Expire(d) ==
    /\ "expire" \in Events
    /\ d \in fresh
    /\ fresh' = fresh \ {d}
    /\ sheet' = [sheet EXCEPT !.fresh = @ \ {d}]
    /\ saving' = [saving EXCEPT !.fresh = @ \ {d}]
    /\ UNCHANGED <<known, trust, keyed, sessions, fetching, stores, lists, sheets,
                   first, approved, verdict, lastList>>

-----------------------------------------------------------------------------
(* The key management screen.                                              *)

(* Rows without a key are not shown; this device is shown as trusted.  The *)
(* screen takes longer to go and come back than a Save takes to commit.    *)
OpenSheet ==
    /\ "sheet" \in Events
    /\ sheets < MaxSheets
    /\ ~sheet.open
    /\ ~saving.open
    /\ sheets' = sheets + 1
    /\ sheet' = [open |-> TRUE,
                 level |-> [d \in Devices |->
                     IF d = Own THEN "trustedUser"
                     ELSE IF d \in keyed THEN trust[d] ELSE "none"],
                 fresh |-> (fresh \cap keyed) \cup ({Own} \cap Devices),
                 touched |-> {}]
    /\ UNCHANGED <<rowVars, fetching, stores, lists, saving, ghosts>>

LooksTrusted(d) == sheet.level[d] \in TrustedLevels /\ d \in sheet.fresh

(* Switching a device on renews the date of its copy.                      *)
Switch(d) ==
    /\ sheet.open
    /\ sheet.level[d] # "none"
    /\ d # Own
    /\ sheet' = [sheet EXCEPT
                    !.level[d] = IF LooksTrusted(d) THEN "untrusted" ELSE "trustedUser",
                    !.fresh = IF LooksTrusted(d) THEN @ ELSE @ \cup {d},
                    !.touched = @ \cup {d}]
    /\ UNCHANGED <<rowVars, fetching, stores, lists, saving, sheets, ghosts>>

(* Every row of the form is saved, switched or not.                        *)
PressSave ==
    /\ sheet.open
    /\ saving' = sheet
    /\ sheet' = NoSheet
    /\ verdict' = [d \in Devices |->
           IF d \in sheet.touched /\ d \in Stored
           THEN IF sheet.level[d] \in TrustedLevels THEN "yes" ELSE "no"
           ELSE verdict[d]]
    /\ approved' = approved \cup
           {d \in (sheet.touched \cup {Own}) \cap Devices : sheet.level[d] \in TrustedLevels}
    /\ UNCHANGED <<rowVars, fetching, stores, lists, sheets, first, lastList>>

(* The transaction: the copy's level goes to the row if there is one; an   *)
(* expired row that the user verified gets the copy's date.                *)
CommitSave ==
    LET written == {d \in Stored : saving.level[d] # "none"}
        renewed == {d \in written \cap saving.fresh : saving.level[d] = "trustedUser"}
    IN  /\ saving.open
        /\ saving' = NoSheet
        /\ trust' = [d \in Devices |-> IF d \in written THEN saving.level[d] ELSE trust[d]]
        /\ fresh' = fresh \cup renewed
        /\ UNCHANGED <<known, keyed, sessions, fetching, stores, lists, sheet, sheets,
                       first, approved, verdict, lastList>>

(* removeDevice: the row and the session go; the server's list is the      *)
(* subject of DeviceList.                                                  *)
RemoveDevice(d) ==
    /\ "userRemove" \in Events
    /\ sheet.open
    /\ sheet.level[d] # "none"
    /\ d # Own
    /\ sheet' = [sheet EXCEPT !.level[d] = "none", !.fresh = @ \ {d}, !.touched = @ \ {d}]
    /\ trust' = [trust EXCEPT ![d] = "none"]
    /\ fresh' = fresh \ {d}
    /\ keyed' = keyed \ {d}
    /\ sessions' = sessions \ {d}
    /\ verdict' = [verdict EXCEPT ![d] = "open"]
    /\ UNCHANGED <<known, fetching, stores, lists, saving, sheets, first, approved,
                   lastList>>

CloseSheet ==
    /\ sheet.open
    /\ sheet' = NoSheet
    /\ UNCHANGED <<rowVars, fetching, stores, lists, saving, sheets, ghosts>>

-----------------------------------------------------------------------------
Next ==
    \/ \E list \in SUBSET Devices : ReceiveList(list)
    \/ StoreEmptyList
    \/ StoreList
    \/ DropList
    \/ BuddyAdded
    \/ PrepareSession
    \/ \E d \in Devices :
          \/ FetchedBundle(d)
          \/ FailedToFetchBundle(d)
          \/ PreKeyMessage(d)
          \/ MessageFrom(d)
          \/ SessionCorrupted(d)
          \/ Expire(d)
          \/ Switch(d)
          \/ RemoveDevice(d)
    \/ OpenSheet
    \/ PressSave
    \/ CommitSave
    \/ CloseSheet

Spec == Init /\ [][Next]_vars

-----------------------------------------------------------------------------
(* Type invariant.  A row without an entry has no key and no date, and a   *)
(* screen that is not open has no copies.                                  *)
TypeOK ==
    /\ known \in BOOLEAN
    /\ trust \in [Devices -> Levels \cup {"none"}]
    /\ fresh \subseteq Stored
    /\ keyed \subseteq Stored
    /\ sessions \subseteq Devices
    /\ fetching \subseteq Devices \ {Own}
    /\ stores \in Seq(SUBSET Devices)
    /\ sheet \in Sheets
    /\ saving \in Sheets
    /\ lists \in 0..MaxLists
    /\ sheets \in 0..MaxSheets
    /\ first \subseteq Devices
    /\ approved \subseteq Devices
    /\ verdict \in [Devices -> Verdicts]
    /\ lastList \subseteq Devices

(* "First Time seing device list all trusted.  Any new devices after that  *)
(* are not trusted and require user input": a trusted device was seen      *)
(* while its parent had no device, or the user once switched it on.  No    *)
(* list, identity, removal or late Save changes that.                      *)
TrustHasCause ==
    \A d \in Devices : trust[d] \in TrustedLevels => d \in first \cup approved

(* First use is granted once: the devices a parent was first seen with are *)
(* all that are ever trusted on first use, unless an empty list or the     *)
(* user's removals take the last row.                                      *)
FirstIsFinal == [][first # {} => first' = first]_vars

(* Once the user's Save has been written, a device that was switched off   *)
(* is not trusted as long as its row exists: lists that drop it and bring  *)
(* it back, new identities and later Saves of other rows leave it alone.   *)
DecisionStands ==
    \A d \in Devices :
        /\ verdict[d] = "no"
        /\ saving.level[d] = "none"
        => trust[d] \notin TrustedLevels

(* An account that has stored a list has a row for this device, whatever   *)
(* lists other clients publish.                                            *)
OwnRowExists ==
    /\ Own \in Devices
    /\ stores = <<>>
    /\ lists > 0
    => trust[Own] # "none"

(* "If the device has been removed from the server": a device that is      *)
(* trusted without the user's verdict is on the list stored last.          *)
TrustedIsListed ==
    lastList # {} =>
        \A d \in Devices :
            trust[d] \in TrustedLevels /\ verdict[d] # "yes" => d \in lastList
=============================================================================
