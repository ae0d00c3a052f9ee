-------------------------- MODULE DeviceTrustProofs --------------------------
(***************************************************************************)
(* Theorems about the device rows of a parent, for any devices and any     *)
(* number of lists, messages and visits to the key management screen.      *)
(***************************************************************************)
EXTENDS DeviceTrust, SequenceTheorems, TLAPS

(* The lists that wait after one more has arrived.                         *)
LEMMA ReceivedLists ==
    ASSUME NEW s \in Seq(SUBSET Devices), NEW list \in SUBSET Devices, NEW new,
           new = s \o IF Own \in Devices \ list THEN <<list, list \cup {Own}>>
                                                ELSE <<list>>
    PROVE  /\ new \in Seq(SUBSET Devices)
           /\ list # {} /\ (\A j \in 1..Len(s) : s[j] # {})
              => \A i \in 1..Len(new) : new[i] # {}
<1>1. PICK more :
        /\ new = s \o more
        /\ more \in Seq(SUBSET Devices)
        /\ \A i \in 1..Len(more) : list # {} => more[i] # {}
  <2>1. CASE Own \in Devices \ list
    <3>1. /\ list \cup {Own} \in SUBSET Devices /\ list \cup {Own} # {}
          /\ new = s \o <<list, list \cup {Own}>>
      BY <2>1
    <3>2. /\ <<list, list \cup {Own}>> \in Seq(SUBSET Devices)
          /\ \A i \in 1..Len(<<list, list \cup {Own}>>) :
                list # {} => <<list, list \cup {Own}>>[i] # {}
      BY <3>1
    <3>3. QED
      BY <3>1, <3>2
  <2>2. CASE Own \notin Devices \ list
    <3>1. /\ new = s \o <<list>>
          /\ <<list>> \in Seq(SUBSET Devices)
          /\ \A i \in 1..Len(<<list>>) : list # {} => <<list>>[i] # {}
      BY <2>2
    <3>2. QED
      BY <3>1
  <2>3. QED
    BY <2>1, <2>2
<1>2. /\ new \in Seq(SUBSET Devices)
      /\ Len(new) = Len(s) + Len(more)
      /\ \A i \in 1..(Len(s) + Len(more)) :
            new[i] = IF i <= Len(s) THEN s[i] ELSE more[i - Len(s)]
  <2>1. new = s \o more /\ more \in Seq(SUBSET Devices)
    BY <1>1
  <2>2. /\ s \o more \in Seq(SUBSET Devices)
        /\ Len(s \o more) = Len(s) + Len(more)
        /\ \A i \in 1..(Len(s) + Len(more)) :
              (s \o more)[i] = IF i <= Len(s) THEN s[i] ELSE more[i - Len(s)]
    BY <2>1, ConcatProperties, Zenon
  <2>3. QED
    BY <2>1, <2>2, Zenon
<1>3. ASSUME list # {}, \A j \in 1..Len(s) : s[j] # {}, NEW i \in 1..Len(new)
      PROVE  new[i] # {}
  <2>1. Len(s) \in Nat /\ Len(more) \in Nat
    BY <1>1
  <2>2. CASE i <= Len(s)
    BY <2>1, <2>2, <1>2, <1>3
  <2>3. CASE i > Len(s)
    <3>1. i \in 1..(Len(s) + Len(more))
      BY <1>2
    <3>2. i - Len(s) \in 1..Len(more)
      BY <2>1, <2>3, <3>1
    <3>3. ~(i <= Len(s))
      BY <2>1, <2>3, <3>1
    <3>4. new[i] = more[i - Len(s)]
      BY <3>3, <3>1, <1>2, Zenon
    <3>5. QED
      BY <3>2, <3>4, <1>1, <1>3
  <2>4. QED
    BY <2>1, <2>2, <2>3, <1>2
<1>4. QED
  BY <1>2, <1>3

(* What a switch does to the copies on the screen.                         *)
LEMMA SwitchedCopies ==
    ASSUME NEW d \in Devices, Switch(d), sheet \in Sheets
    PROVE  /\ sheet' \in Sheets
           /\ sheet'.open = sheet.open
           /\ sheet'.touched = sheet.touched \cup {d}
           /\ \A e \in Devices : e # d => sheet'.level[e] = sheet.level[e]
           /\ sheet'.level[d] # "none"
<1> DEFINE level == IF LooksTrusted(d) THEN "untrusted" ELSE "trustedUser"
           dated == IF LooksTrusted(d) THEN sheet.fresh ELSE sheet.fresh \cup {d}
<1>1. /\ level \in Levels /\ dated \in SUBSET Devices
      /\ sheet.touched \cup {d} \in SUBSET Devices
  BY DEF Levels, Sheets
<1>2. sheet' = [sheet EXCEPT !.level[d] = level, !.fresh = dated,
                             !.touched = sheet.touched \cup {d}]
  BY DEF Switch
<1>3. level # "none"
  OBVIOUS
<1> HIDE DEF level, dated
<1>4. QED
  BY <1>1, <1>2, <1>3 DEF Sheets

(* What a removal does to the copies on the screen.                        *)
LEMMA RemovedCopy ==
    ASSUME NEW d \in Devices, RemoveDevice(d), sheet \in Sheets
    PROVE  /\ sheet' \in Sheets
           /\ sheet'.open = sheet.open
           /\ sheet'.touched = sheet.touched \ {d}
           /\ \A e \in Devices : sheet'.level[e] = IF e = d THEN "none" ELSE sheet.level[e]
<1>1. sheet' = [sheet EXCEPT !.level[d] = "none", !.fresh = sheet.fresh \ {d},
                             !.touched = sheet.touched \ {d}]
  BY DEF RemoveDevice
<1>2. QED
  BY <1>1 DEF Sheets

(* What an expiry does to the copies on the screen and to those being saved. *)
LEMMA ExpiredCopies ==
    ASSUME NEW d \in Devices, Expire(d), sheet \in Sheets, saving \in Sheets
    PROVE  /\ sheet' \in Sheets /\ saving' \in Sheets
           /\ sheet'.open = sheet.open /\ saving'.open = saving.open
           /\ sheet'.level = sheet.level /\ saving'.level = saving.level
           /\ sheet'.touched = sheet.touched
<1>1. /\ sheet' = [sheet EXCEPT !.fresh = sheet.fresh \ {d}]
      /\ saving' = [saving EXCEPT !.fresh = saving.fresh \ {d}]
  BY DEF Expire
<1>2. QED
  BY <1>1 DEF Sheets

-----------------------------------------------------------------------------
(* The type invariant is inductive by itself.                              *)
LEMMA TypeStep == TypeOK /\ [Next]_vars => TypeOK'
<1> SUFFICES ASSUME TypeOK, [Next]_vars PROVE TypeOK'
  OBVIOUS
<1> USE DeviceAssumption
<1>1. CASE \E list \in SUBSET Devices : ReceiveList(list)
  <2>1. PICK list \in SUBSET Devices : ReceiveList(list)
    BY <1>1
  <2>2. stores' \in Seq(SUBSET Devices)
    <3>1. /\ stores \in Seq(SUBSET Devices)
          /\ stores' = stores \o IF Own \in Devices \ list
                                 THEN <<list, list \cup {Own}>> ELSE <<list>>
      BY <2>1 DEF ReceiveList, TypeOK
    <3>2. QED
      BY <3>1, ReceivedLists
  <2>3. QED
    BY <2>1, <2>2 DEF ReceiveList, TypeOK, Stored, rowVars, uiVars, ghosts
<1>2. CASE StoreEmptyList
  BY <1>2 DEF StoreEmptyList, TypeOK, uiVars, Verdicts
<1>3. CASE StoreList
  BY <1>3 DEF StoreList, LevelAfter, NewLevel, TypeOK, Stored, uiVars, Levels
<1>4. CASE DropList
  BY <1>4 DEF DropList, TypeOK, Stored, rowVars, uiVars, ghosts
<1>5. CASE BuddyAdded
  BY <1>5 DEF BuddyAdded, TypeOK, Stored, uiVars, ghosts
<1>6. CASE PrepareSession
  BY <1>6 DEF PrepareSession, TypeOK, Stored, rowVars, uiVars, ghosts
<1>7. CASE \E d \in Devices : FetchedBundle(d)
  BY <1>7 DEF FetchedBundle, SaveIdentity, NewLevel, TypeOK, Stored, uiVars, Levels
<1>8. CASE \E d \in Devices : FailedToFetchBundle(d)
  BY <1>8 DEF FailedToFetchBundle, TypeOK, Stored, rowVars, uiVars, ghosts
<1>9. CASE \E d \in Devices : PreKeyMessage(d)
  BY <1>9 DEF PreKeyMessage, SaveIdentity, NewLevel, TypeOK, Stored, uiVars, Levels
<1>10. CASE \E d \in Devices : MessageFrom(d)
  BY <1>10 DEF MessageFrom, TypeOK, Stored, uiVars
<1>11. CASE \E d \in Devices : SessionCorrupted(d)
  BY <1>11 DEF SessionCorrupted, TypeOK, Stored, uiVars, ghosts
<1>12. CASE \E d \in Devices : Expire(d)
  <2>1. PICK d \in Devices : Expire(d)
    BY <1>12
  <2>2. sheet' \in Sheets /\ saving' \in Sheets
    BY <2>1, ExpiredCopies DEF TypeOK
  <2>3. QED
    BY <2>1, <2>2 DEF Expire, TypeOK, Stored
<1>13. CASE \E d \in Devices : Switch(d)
  <2>1. PICK d \in Devices : Switch(d)
    BY <1>13
  <2>3. sheet' \in Sheets
    BY <2>1, SwitchedCopies DEF TypeOK
  <2>4. QED
    BY <2>1, <2>3 DEF Switch, TypeOK, Stored, rowVars, ghosts
<1>14. CASE \E d \in Devices : RemoveDevice(d)
  <2>1. PICK d \in Devices : RemoveDevice(d)
    BY <1>14
  <2>3. sheet' \in Sheets
    BY <2>1, RemovedCopy DEF TypeOK
  <2>4. /\ trust' \in [Devices -> Levels \cup {"none"}]
        /\ fresh' \subseteq Stored' /\ keyed' \subseteq Stored'
    BY <2>1 DEF RemoveDevice, TypeOK, Stored
  <2>5. QED
    BY <2>1, <2>3, <2>4 DEF RemoveDevice, TypeOK, Verdicts
<1>15. CASE OpenSheet
  BY <1>15 DEF OpenSheet, TypeOK, Stored, rowVars, ghosts, Levels, Sheets
<1>16. CASE PressSave
  BY <1>16 DEF PressSave, TypeOK, NoSheet, Stored, rowVars, Sheets, Verdicts
<1>17. CASE CommitSave
  BY <1>17 DEF CommitSave, TypeOK, NoSheet, Stored, Sheets
<1>18. CASE CloseSheet
  BY <1>18 DEF CloseSheet, TypeOK, NoSheet, Stored, rowVars, ghosts, Sheets
<1>19. CASE UNCHANGED vars
  BY <1>19 DEF vars, TypeOK, Stored, rowVars, uiVars, ghosts
<1>20. QED
  BY <1>1, <1>2, <1>3, <1>4, <1>5, <1>6, <1>7, <1>8, <1>9, <1>10, <1>11,
      <1>12, <1>13, <1>14, <1>15, <1>16, <1>17, <1>18, <1>19 DEF Next

(* The type invariant holds for every instance.                            *)
THEOREM TypeCorrect == Spec => []TypeOK
<1>1. Init => TypeOK
  BY DeviceAssumption DEF Init, TypeOK, NoSheet, Sheets, Verdicts
<1>2. QED
  BY <1>1, TypeStep, PTL DEF Spec

-----------------------------------------------------------------------------
(* Why decisions stand.  A verdict has a row; the screen and a pressed     *)
(* Save are never there together; and the copies they hold do not trust    *)
(* what the user has switched off.                                         *)
VerdictHasRow ==
    \A d \in Devices : verdict[d] # "open" => d \in Stored \ {Own}

OneCopy ==
    /\ ~(sheet.open /\ saving.open)
    /\ Own \notin sheet.touched
    /\ \A d \in Devices : d \in sheet.touched => sheet.level[d] # "none"
    /\ ~sheet.open => sheet.level = NoSheet.level
    /\ ~saving.open => saving.level = NoSheet.level

CopiesObey ==
    \A d \in Devices :
        verdict[d] = "no" =>
            /\ sheet.level[d] \in TrustedLevels => d \in sheet.touched
            /\ saving.level[d] \notin TrustedLevels

DecisionInv == TypeOK /\ VerdictHasRow /\ OneCopy /\ CopiesObey /\ DecisionStands

(* Every step keeps the decisions.                                         *)
LEMMA DecisionStep == DecisionInv /\ [Next]_vars => DecisionInv'
<1> SUFFICES ASSUME TypeOK, VerdictHasRow, OneCopy, CopiesObey, DecisionStands,
                    [Next]_vars
             PROVE  VerdictHasRow' /\ OneCopy' /\ CopiesObey' /\ DecisionStands'
  BY TypeStep DEF DecisionInv
<1>1. CASE UNCHANGED <<verdict, trust, sheet, saving>>
  BY <1>1 DEF VerdictHasRow, OneCopy, CopiesObey, DecisionStands, Stored
<1>2. CASE \E d \in Devices : Expire(d)
  <2>1. PICK d \in Devices : Expire(d)
    BY <1>2
  <2>2. /\ sheet'.open = sheet.open /\ saving'.open = saving.open
        /\ sheet'.level = sheet.level /\ saving'.level = saving.level
        /\ sheet'.touched = sheet.touched
    BY <2>1, ExpiredCopies DEF TypeOK
  <2>3. QED
    BY <2>1, <2>2 DEF Expire, VerdictHasRow, OneCopy, CopiesObey, DecisionStands, Stored
<1>3. CASE StoreEmptyList
  BY <1>3 DEF StoreEmptyList, VerdictHasRow, OneCopy, CopiesObey, DecisionStands, uiVars
<1>4. CASE StoreList
  BY <1>4 DEF StoreList, LevelAfter, VerdictHasRow, OneCopy, CopiesObey, DecisionStands,
      Stored, uiVars, TrustedLevels
<1>5. CASE \E d \in Devices : FetchedBundle(d)
  BY <1>5 DEF FetchedBundle, SaveIdentity, VerdictHasRow, OneCopy, CopiesObey,
      DecisionStands, Stored, uiVars
<1>6. CASE \E d \in Devices : PreKeyMessage(d)
  BY <1>6 DEF PreKeyMessage, SaveIdentity, VerdictHasRow, OneCopy, CopiesObey,
      DecisionStands, Stored, uiVars
<1>7. CASE \E d \in Devices : Switch(d)
  <2>1. PICK d \in Devices : Switch(d)
    BY <1>7
  <2>3. /\ sheet'.open = sheet.open
        /\ sheet'.touched = sheet.touched \cup {d}
        /\ \A e \in Devices : e # d => sheet'.level[e] = sheet.level[e]
    BY <2>1, SwitchedCopies DEF TypeOK
  <2>4. QED
    BY <2>1, <2>3 DEF Switch, VerdictHasRow, OneCopy, CopiesObey, DecisionStands, Stored,
        rowVars, ghosts
<1>8. CASE \E d \in Devices : RemoveDevice(d)
  <2>1. PICK d \in Devices : RemoveDevice(d)
    BY <1>8
  <2>3. /\ sheet'.open = sheet.open
        /\ sheet'.touched = sheet.touched \ {d}
        /\ \A e \in Devices : sheet'.level[e] = IF e = d THEN "none" ELSE sheet.level[e]
    BY <2>1, RemovedCopy DEF TypeOK
  <2>4. \A e \in Devices :
           /\ trust'[e] = IF e = d THEN "none" ELSE trust[e]
           /\ verdict'[e] = IF e = d THEN "open" ELSE verdict[e]
    BY <2>1 DEF RemoveDevice, TypeOK
  <2>5. QED
    BY <2>1, <2>3, <2>4 DEF RemoveDevice, VerdictHasRow, OneCopy, CopiesObey,
        DecisionStands, Stored
<1>9. CASE OpenSheet
  BY <1>9 DEF OpenSheet, VerdictHasRow, OneCopy, CopiesObey, DecisionStands, NoSheet,
      Stored, rowVars, ghosts
<1>10. CASE PressSave
  <2>1. /\ sheet.open /\ saving' = sheet /\ sheet' = NoSheet /\ UNCHANGED trust
        /\ \A d \in Devices :
              verdict'[d] = IF d \in sheet.touched /\ d \in Stored
                            THEN IF sheet.level[d] \in TrustedLevels THEN "yes" ELSE "no"
                            ELSE verdict[d]
    BY <1>10 DEF PressSave, rowVars
  <2>2. ~NoSheet.open /\ NoSheet.touched = {} /\ \A d \in Devices : NoSheet.level[d] = "none"
    BY DEF NoSheet
  <2>3. VerdictHasRow'
    BY <2>1 DEF VerdictHasRow, OneCopy, Stored
  <2>4. OneCopy'
    BY <2>1, <2>2 DEF OneCopy
  <2>5. CopiesObey'
    <3> SUFFICES ASSUME NEW d \in Devices, verdict'[d] = "no"
                 PROVE  sheet.level[d] \notin TrustedLevels
      BY <2>1, <2>2 DEF CopiesObey, TrustedLevels
    <3>1. CASE d \in sheet.touched /\ d \in Stored
      BY <2>1, <3>1
    <3>2. CASE d \in sheet.touched /\ d \notin Stored
      BY <2>1, <3>2 DEF VerdictHasRow
    <3>3. CASE d \notin sheet.touched
      BY <2>1, <3>3 DEF CopiesObey
    <3>4. QED
      BY <3>1, <3>2, <3>3
  <2>6. saving.level = NoSheet.level
    BY <2>1 DEF OneCopy
  <2>7. DecisionStands'
    <3> SUFFICES ASSUME NEW d \in Devices, verdict'[d] = "no", sheet.level[d] = "none"
                 PROVE  trust[d] \notin TrustedLevels
      BY <2>1 DEF DecisionStands
    <3>1. d \notin sheet.touched
      BY DEF OneCopy
    <3>2. verdict[d] = "no" /\ saving.level[d] = "none"
      BY <2>1, <2>2, <2>6, <3>1
    <3>3. QED
      BY <3>2 DEF DecisionStands
  <2>8. QED
    BY <2>3, <2>4, <2>5, <2>7
<1>11. CASE CommitSave
  BY <1>11 DEF CommitSave, VerdictHasRow, OneCopy, CopiesObey, DecisionStands, NoSheet,
      Stored
<1>12. CASE CloseSheet
  BY <1>12 DEF CloseSheet, VerdictHasRow, OneCopy, CopiesObey, DecisionStands, NoSheet,
      Stored, rowVars, ghosts
<1>13. QED
  BY <1>2, <1>1, <1>3, <1>4, <1>5, <1>6, <1>7, <1>8, <1>9, <1>10, <1>11, <1>12
     DEF Next, vars, rowVars, uiVars, ghosts, ReceiveList, DropList, BuddyAdded,
         PrepareSession, FailedToFetchBundle, MessageFrom, SessionCorrupted

(* What the user switched off stays off, in every instance.                *)
THEOREM DecisionsStand == Spec => []DecisionStands
<1>1. Init => DecisionInv
  <2>1. Init => TypeOK
    BY DeviceAssumption DEF Init, TypeOK, NoSheet, Sheets, Verdicts
  <2>2. Init => VerdictHasRow /\ OneCopy /\ CopiesObey /\ DecisionStands
    BY DEF Init, VerdictHasRow, OneCopy, CopiesObey, DecisionStands, NoSheet
  <2>3. QED
    BY <2>1, <2>2 DEF DecisionInv
<1>2. DecisionInv => DecisionStands
  BY DEF DecisionInv
<1>3. QED
  BY <1>1, <1>2, DecisionStep, PTL DEF Spec

-----------------------------------------------------------------------------
(* Why trust has a cause.  The copies that the screen shows and that a     *)
(* pressed Save carries are trusted for the same reasons as the rows are:  *)
(* a removal takes the device out of the copies too, and a device whose    *)
(* row went is trusted again only as the first of an empty table.          *)
CopiesHaveCause ==
    \A d \in Devices :
        /\ sheet.level[d] \in TrustedLevels =>
               d \in first \cup approved \cup sheet.touched \cup {Own}
        /\ saving.level[d] \in TrustedLevels => d \in first \cup approved

CauseInv == TypeOK /\ CopiesHaveCause /\ TrustHasCause

(* Every step keeps the cause.                                             *)
LEMMA CauseStep == CauseInv /\ [Next]_vars => CauseInv'
<1> SUFFICES ASSUME TypeOK, CopiesHaveCause, TrustHasCause, [Next]_vars
             PROVE  CopiesHaveCause' /\ TrustHasCause'
  BY TypeStep DEF CauseInv
<1>1. CASE UNCHANGED <<trust, sheet, saving, first, approved>>
  BY <1>1 DEF CopiesHaveCause, TrustHasCause
<1>2. CASE StoreEmptyList
  BY <1>2 DEF StoreEmptyList, CopiesHaveCause, TrustHasCause, TrustedLevels, uiVars
<1>3. CASE StoreList
  <2> DEFINE list == Head(stores)
  <2>1. /\ trust' = [d \in Devices |-> LevelAfter(list, d)]
        /\ first' = IF Stored = {} THEN first \cup list ELSE first
        /\ UNCHANGED <<sheet, saving, approved>>
    BY <1>3 DEF StoreList, uiVars
  <2> HIDE DEF list
  <2>2. CopiesHaveCause'
    BY <2>1 DEF CopiesHaveCause
  <2>3. TrustHasCause'
    <3> SUFFICES ASSUME NEW d \in Devices, LevelAfter(list, d) \in TrustedLevels
                 PROVE  d \in first' \cup approved'
      BY <2>1 DEF TrustHasCause
    <3>1. CASE d \in Stored
      BY <3>1, <2>1 DEF LevelAfter, TrustHasCause, TrustedLevels
    <3>2. CASE d \notin Stored
      BY <3>2, <2>1 DEF LevelAfter, NewLevel, Stored, TrustedLevels
    <3> QED BY <3>1, <3>2
  <2> QED BY <2>2, <2>3
<1>4. CASE \E d \in Devices : Expire(d)
  <2>1. PICK d \in Devices : Expire(d)
    BY <1>4
  <2>2. /\ sheet'.level = sheet.level /\ saving'.level = saving.level
        /\ sheet'.touched = sheet.touched
    BY <2>1, ExpiredCopies DEF TypeOK
  <2> QED BY <2>1, <2>2 DEF Expire, CopiesHaveCause, TrustHasCause
<1>5. CASE \E d \in Devices : FetchedBundle(d) \/ PreKeyMessage(d)
  <2>1. PICK d \in Devices :
          /\ trust' = [trust EXCEPT ![d] = IF @ = "none" THEN NewLevel ELSE @]
          /\ first' = IF Stored = {} THEN first \cup {d} ELSE first
          /\ UNCHANGED <<sheet, saving, approved>>
    BY <1>5 DEF FetchedBundle, PreKeyMessage, SaveIdentity, uiVars
  <2>2. \A e \in Devices :
           trust'[e] = IF e = d /\ trust[d] = "none" THEN NewLevel ELSE trust[e]
    BY <2>1 DEF TypeOK
  <2>3. Stored # {} => NewLevel \notin TrustedLevels
    BY DEF NewLevel, TrustedLevels
  <2>4. CopiesHaveCause'
    BY <2>1 DEF CopiesHaveCause
  <2>5. TrustHasCause'
    BY <2>1, <2>2, <2>3 DEF TrustHasCause
  <2> QED BY <2>4, <2>5
<1>6. CASE \E d \in Devices : Switch(d)
  <2>1. PICK d \in Devices : Switch(d)
    BY <1>6
  <2>2. /\ sheet'.touched = sheet.touched \cup {d}
        /\ \A e \in Devices : e # d => sheet'.level[e] = sheet.level[e]
    BY <2>1, SwitchedCopies DEF TypeOK
  <2> QED BY <2>1, <2>2 DEF Switch, CopiesHaveCause, TrustHasCause, rowVars, ghosts
<1>7. CASE \E d \in Devices : RemoveDevice(d)
  <2>1. PICK d \in Devices : RemoveDevice(d)
    BY <1>7
  <2>2. /\ sheet'.touched = sheet.touched \ {d}
        /\ \A e \in Devices : sheet'.level[e] = IF e = d THEN "none" ELSE sheet.level[e]
    BY <2>1, RemovedCopy DEF TypeOK
  <2>3. \A e \in Devices : trust'[e] = IF e = d THEN "none" ELSE trust[e]
    BY <2>1 DEF RemoveDevice, TypeOK
  <2>4. UNCHANGED <<saving, first, approved>>
    BY <2>1 DEF RemoveDevice
  <2>5. CopiesHaveCause'
    BY <2>2, <2>4 DEF CopiesHaveCause, TrustedLevels
  <2>6. TrustHasCause'
    BY <2>3, <2>4 DEF TrustHasCause, TrustedLevels
  <2> QED BY <2>5, <2>6
<1>8. CASE OpenSheet
  BY <1>8 DEF OpenSheet, CopiesHaveCause, TrustHasCause, rowVars, ghosts, TrustedLevels
<1>9. CASE PressSave
  BY <1>9 DEF PressSave, CopiesHaveCause, TrustHasCause, NoSheet, rowVars, TrustedLevels
<1>10. CASE CommitSave
  BY <1>10 DEF CommitSave, CopiesHaveCause, TrustHasCause, NoSheet, Stored, TrustedLevels
<1>11. CASE CloseSheet
  BY <1>11 DEF CloseSheet, CopiesHaveCause, TrustHasCause, NoSheet, rowVars, ghosts,
      TrustedLevels
<1>12. QED
  BY <1>1, <1>2, <1>3, <1>4, <1>5, <1>6, <1>7, <1>8, <1>9, <1>10, <1>11
     DEF Next, vars, rowVars, uiVars, ghosts, ReceiveList, DropList, BuddyAdded,
         PrepareSession, FailedToFetchBundle, MessageFrom, SessionCorrupted

(* Whatever lists arrive and whatever the user saves and removes, a trusted *)
(* device was seen while its parent had none, or was switched on.          *)
THEOREM TrustIsEarned == Spec => []TrustHasCause
<1>1. Init => CauseInv
  <2>1. Init => TypeOK
    BY DeviceAssumption DEF Init, TypeOK, NoSheet, Sheets, Verdicts
  <2>2. Init => CopiesHaveCause /\ TrustHasCause
    BY DEF Init, CopiesHaveCause, TrustHasCause, NoSheet, TrustedLevels
  <2> QED BY <2>1, <2>2 DEF CauseInv
<1>2. CauseInv => TrustHasCause
  BY DEF CauseInv
<1> QED BY <1>1, <1>2, CauseStep, PTL DEF Spec

-----------------------------------------------------------------------------
(* Why first use is granted once, if no list is empty and the user removes *)
(* nothing: the table, once filled, is never empty again.                  *)
NeverEmpty == \A i \in 1..Len(stores) : stores[i] # {}

FirstIsFilled == first = {} <=> Stored = {}

FilledInv == TypeOK /\ NeverEmpty /\ FirstIsFilled

(* The first of the waiting lists is taken.                                *)
LEMMA NeverEmptyTail ==
    ASSUME stores \in Seq(SUBSET Devices), stores # <<>>, NeverEmpty,
           stores' = Tail(stores)
    PROVE  Head(stores) \in SUBSET Devices /\ Head(stores) # {} /\ NeverEmpty'
<1>1. /\ 1 \in 1..Len(stores) /\ Head(stores) = stores[1]
      /\ Len(Tail(stores)) = Len(stores) - 1 /\ Len(stores) \in Nat
      /\ \A i \in 1..Len(Tail(stores)) : Tail(stores)[i] = stores[i + 1]
  BY HeadTailProperties
<1>2. \A i \in 1..Len(Tail(stores)) : i + 1 \in 1..Len(stores)
  BY <1>1
<1>3. Head(stores) \in SUBSET Devices /\ Head(stores) # {}
  BY <1>1 DEF NeverEmpty
<1>4. NeverEmpty'
  BY <1>1, <1>2 DEF NeverEmpty
<1> QED BY <1>3, <1>4

(* Every step keeps the table filled and leaves what it was filled with.   *)
LEMMA FilledStep ==
    ASSUME {"emptyList", "userRemove"} \cap Events = {}
    PROVE  FilledInv /\ [Next]_vars => FilledInv' /\ (first # {} => first' = first)
<1> SUFFICES ASSUME TypeOK, NeverEmpty, FirstIsFilled, [Next]_vars
             PROVE  NeverEmpty' /\ FirstIsFilled' /\ (first # {} => first' = first)
  BY TypeStep DEF FilledInv
<1>0. "emptyList" \notin Events /\ "userRemove" \notin Events
  OBVIOUS
<1>1. CASE \E list \in SUBSET Devices : ReceiveList(list)
  <2>1. PICK list \in SUBSET Devices : ReceiveList(list)
    BY <1>1
  <2>2. list # {}
    BY <2>1, <1>0 DEF ReceiveList
  <2>3. /\ stores \in Seq(SUBSET Devices)
        /\ stores' = stores \o IF Own \in Devices \ list
                               THEN <<list, list \cup {Own}>> ELSE <<list>>
    BY <2>1 DEF ReceiveList, TypeOK
  <2>4. NeverEmpty'
    BY <2>2, <2>3, ReceivedLists DEF NeverEmpty
  <2> QED BY <2>1, <2>4 DEF ReceiveList, FirstIsFilled, Stored, rowVars, ghosts
<1>2. CASE StoreEmptyList
  BY <1>2, NeverEmptyTail DEF StoreEmptyList, TypeOK
<1>3. CASE StoreList
  <2>1. Head(stores) \in SUBSET Devices /\ Head(stores) # {} /\ NeverEmpty'
    BY <1>3, NeverEmptyTail DEF StoreList, TypeOK
  <2>2. /\ trust' = [d \in Devices |-> LevelAfter(Head(stores), d)]
        /\ first' = IF Stored = {} THEN first \cup Head(stores) ELSE first
    BY <1>3 DEF StoreList
  <2>3. Stored' # {}
    <3>1. PICK d \in Devices : d \in Head(stores)
      BY <2>1
    <3>2. trust'[d] # "none"
      BY <3>1, <2>2 DEF LevelAfter, NewLevel, Stored
    <3> QED BY <3>2 DEF Stored
  <2> QED BY <2>1, <2>2, <2>3 DEF FirstIsFilled
<1>4. CASE DropList
  BY <1>4, NeverEmptyTail DEF DropList, TypeOK, FirstIsFilled, Stored, rowVars, ghosts
<1>5. CASE \E d \in Devices : FetchedBundle(d) \/ PreKeyMessage(d)
  <2>1. PICK d \in Devices :
          /\ trust' = [trust EXCEPT ![d] = IF @ = "none" THEN NewLevel ELSE @]
          /\ first' = IF Stored = {} THEN first \cup {d} ELSE first
          /\ stores' = stores
    BY <1>5 DEF FetchedBundle, PreKeyMessage, SaveIdentity
  <2>2. trust'[d] # "none"
    BY <2>1 DEF TypeOK, NewLevel
  <2> QED BY <2>1, <2>2 DEF NeverEmpty, FirstIsFilled, Stored
<1>6. CASE \E d \in Devices : RemoveDevice(d)
  BY <1>6, <1>0 DEF RemoveDevice
<1>7. CASE CommitSave
  <2>1. \A d \in Devices : (trust'[d] = "none") <=> (trust[d] = "none")
    BY <1>7 DEF CommitSave, Stored
  <2> QED BY <1>7, <2>1 DEF CommitSave, NeverEmpty, FirstIsFilled, Stored
<1>8. CASE UNCHANGED <<trust, stores, first>>
  BY <1>8 DEF NeverEmpty, FirstIsFilled, Stored
<1> QED
  BY <1>1, <1>2, <1>3, <1>4, <1>5, <1>6, <1>7, <1>8
     DEF Next, vars, rowVars, ghosts, BuddyAdded, PrepareSession, FailedToFetchBundle,
         MessageFrom, SessionCorrupted, Expire, Switch, OpenSheet, PressSave, CloseSheet

(* Where no list is empty and the user removes no device, the devices that *)
(* were there first are all that are ever trusted on first use.            *)
THEOREM FirstUseOnce ==
    ASSUME {"emptyList", "userRemove"} \cap Events = {}
    PROVE  Spec => FirstIsFinal
<1>1. Init => FilledInv
  <2>1. Init => TypeOK
    BY DeviceAssumption DEF Init, TypeOK, NoSheet, Sheets, Verdicts
  <2>2. Init => NeverEmpty /\ FirstIsFilled
    BY DEF Init, NeverEmpty, FirstIsFilled, Stored
  <2> QED BY <2>1, <2>2 DEF FilledInv
<1>2. FilledInv /\ [Next]_vars => [first # {} => first' = first]_vars
  BY FilledStep
<1> QED BY <1>1, <1>2, FilledStep, PTL DEF Spec, FirstIsFinal

-----------------------------------------------------------------------------
(* Why this device has a row.  However many lists wait, the last one names *)
(* this device: a list without it is followed by one with it.              *)
LastNamesOwn == stores # <<>> => Own \in stores[Len(stores)]

OwnInv == TypeOK /\ (Own \in Devices => known /\ LastNamesOwn /\ OwnRowExists)

LEMMA LastReceived ==
    ASSUME NEW s \in Seq(SUBSET Devices), NEW list \in SUBSET Devices, NEW new,
           new = s \o IF Own \in Devices \ list THEN <<list, list \cup {Own}>>
                                                ELSE <<list>>,
           Own \in Devices
    PROVE  new # <<>> /\ Own \in new[Len(new)]
<1>1. PICK more :
        /\ new = s \o more
        /\ more \in Seq(SUBSET Devices)
        /\ Len(more) \in Nat \ {0}
        /\ Own \in more[Len(more)]
  <2>1. CASE Own \in Devices \ list
    <3>1. list \cup {Own} \in SUBSET Devices /\ new = s \o <<list, list \cup {Own}>>
      BY <2>1
    <3>2. /\ <<list, list \cup {Own}>> \in Seq(SUBSET Devices)
          /\ Len(<<list, list \cup {Own}>>) \in Nat \ {0}
          /\ Own \in <<list, list \cup {Own}>>[Len(<<list, list \cup {Own}>>)]
      BY <3>1
    <3> QED BY <3>1, <3>2
  <2>2. CASE Own \notin Devices \ list
    <3>1. Own \in list /\ new = s \o <<list>>
      BY <2>2
    <3>2. /\ <<list>> \in Seq(SUBSET Devices)
          /\ Len(<<list>>) \in Nat \ {0}
          /\ Own \in <<list>>[Len(<<list>>)]
      BY <3>1
    <3> QED BY <3>1, <3>2
  <2> QED BY <2>1, <2>2
<1>2. /\ new \in Seq(SUBSET Devices)
      /\ Len(new) = Len(s) + Len(more)
      /\ \A i \in 1..(Len(s) + Len(more)) :
            new[i] = IF i <= Len(s) THEN s[i] ELSE more[i - Len(s)]
  <2>1. new = s \o more /\ more \in Seq(SUBSET Devices)
    BY <1>1
  <2>2. /\ s \o more \in Seq(SUBSET Devices)
        /\ Len(s \o more) = Len(s) + Len(more)
        /\ \A i \in 1..(Len(s) + Len(more)) :
              (s \o more)[i] = IF i <= Len(s) THEN s[i] ELSE more[i - Len(s)]
    BY <2>1, ConcatProperties, Zenon
  <2> QED BY <2>1, <2>2, Zenon
<1>3. /\ Len(s) \in Nat /\ Len(new) \in 1..(Len(s) + Len(more))
      /\ ~(Len(new) <= Len(s)) /\ Len(new) - Len(s) = Len(more)
  BY <1>1, <1>2
<1>4. new[Len(new)] = more[Len(more)]
  BY <1>2, <1>3
<1>5. new # <<>>
  BY <1>3
<1> QED BY <1>1, <1>4, <1>5

LEMMA LastLeft ==
    ASSUME NEW s \in Seq(SUBSET Devices), s # <<>>
    PROVE  /\ Tail(s) = <<>> => Head(s) = s[Len(s)]
           /\ Tail(s) # <<>> => Tail(s)[Len(Tail(s))] = s[Len(s)]
<1>1. /\ Len(s) \in Nat \ {0} /\ Tail(s) \in Seq(SUBSET Devices)
      /\ Head(s) = s[1] /\ Len(Tail(s)) = Len(s) - 1
      /\ \A i \in 1 .. Len(s) - 1 : Tail(s)[i] = s[i + 1]
  BY EmptySeq, HeadTailProperties
<1>2. ASSUME Tail(s) = <<>> PROVE Head(s) = s[Len(s)]
  <2>1. Len(s) = 1
    BY <1>1, <1>2
  <2> QED BY <2>1, <1>1
<1>3. ASSUME Tail(s) # <<>> PROVE Tail(s)[Len(Tail(s))] = s[Len(s)]
  <2>1. Len(s) - 1 \in 1 .. Len(s) - 1
    BY <1>1, <1>3, EmptySeq
  <2> QED BY <2>1, <1>1
<1> QED BY <1>2, <1>3

(* The steps that touch neither the waiting lists nor this device's row.   *)
LEMMA OwnKept ==
    ASSUME OwnInv, TypeOK', Own \in Devices, known', stores' = stores, lists' = lists,
           trust[Own] # "none" => trust'[Own] # "none"
    PROVE  OwnInv'
BY DEF OwnInv, LastNamesOwn, OwnRowExists

LEMMA OwnStep == OwnInv /\ [Next]_vars => OwnInv'
<1> SUFFICES ASSUME OwnInv, [Next]_vars, Own \in Devices PROVE OwnInv'
  BY TypeStep DEF OwnInv
<1>1. TypeOK /\ TypeOK' /\ known /\ LastNamesOwn /\ OwnRowExists
  BY TypeStep DEF OwnInv
<1>2. Own # NoDevice
  BY DeviceAssumption
<1>3. CASE \E list \in SUBSET Devices : ReceiveList(list)
  <2>1. PICK list \in SUBSET Devices : ReceiveList(list)
    BY <1>3
  <2>2. stores' # <<>> /\ Own \in stores'[Len(stores')]
    BY <2>1, <1>1, LastReceived DEF ReceiveList, TypeOK
  <2> QED BY <2>1, <2>2, <1>1 DEF OwnInv, LastNamesOwn, OwnRowExists, ReceiveList, rowVars
<1>4. CASE StoreEmptyList \/ StoreList
  <2>1. /\ stores \in Seq(SUBSET Devices) /\ stores # <<>> /\ stores' = Tail(stores)
        /\ known' = known
    BY <1>1, <1>4 DEF StoreEmptyList, StoreList, TypeOK
  <2>2. LastNamesOwn'
    BY <2>1, <1>1, LastLeft DEF LastNamesOwn
  <2>3. ASSUME stores' = <<>> PROVE trust'[Own] # "none"
    <3>1. Own \in Head(stores)
      BY <2>1, <2>3, <1>1, LastLeft DEF LastNamesOwn
    <3>2. StoreList
      BY <3>1, <1>4 DEF StoreEmptyList
    <3>3. trust'[Own] = LevelAfter(Head(stores), Own)
      BY <3>2 DEF StoreList
    <3> QED BY <3>1, <3>3 DEF LevelAfter, NewLevel, Stored
  <2> QED BY <2>1, <2>2, <2>3, <1>1 DEF OwnInv, OwnRowExists
<1>5. CASE DropList \/ BuddyAdded
  BY <1>5, <1>1 DEF DropList, BuddyAdded
<1>6. CASE \E d \in Devices : FetchedBundle(d) \/ PreKeyMessage(d)
  <2>1. trust[Own] # "none" => trust'[Own] # "none"
    BY <1>6, <1>1 DEF FetchedBundle, PreKeyMessage, SaveIdentity, TypeOK
  <2>2. known' /\ stores' = stores /\ lists' = lists
    BY <1>6, <1>1 DEF FetchedBundle, PreKeyMessage, SaveIdentity
  <2> QED BY <2>1, <2>2, <1>1, OwnKept
<1>7. CASE \E d \in Devices : RemoveDevice(d)
  <2>1. trust'[Own] = trust[Own]
    BY <1>7, <1>1 DEF RemoveDevice, TypeOK
  <2>2. known' /\ stores' = stores /\ lists' = lists
    BY <1>7, <1>1 DEF RemoveDevice
  <2> QED BY <2>1, <2>2, <1>1, OwnKept
<1>8. CASE CommitSave
  <2>1. trust[Own] # "none" => trust'[Own] # "none"
    BY <1>8, <1>1 DEF CommitSave, TypeOK
  <2>2. known' /\ stores' = stores /\ lists' = lists
    BY <1>8, <1>1 DEF CommitSave
  <2> QED BY <2>1, <2>2, <1>1, OwnKept
<1>9. CASE \/ PrepareSession \/ OpenSheet \/ PressSave \/ CloseSheet \/ UNCHANGED vars
           \/ \E d \in Devices : \/ FailedToFetchBundle(d) \/ MessageFrom(d)
                                 \/ SessionCorrupted(d) \/ Expire(d) \/ Switch(d)
  <2>1. known' /\ stores' = stores /\ lists' = lists /\ trust' = trust
    BY <1>9, <1>1 DEF PrepareSession, OpenSheet, PressSave, CloseSheet, FailedToFetchBundle,
       MessageFrom, SessionCorrupted, Expire, Switch, vars, rowVars
  <2> QED BY <2>1, <1>1, OwnKept
<1> QED BY <1>3, <1>4, <1>5, <1>6, <1>7, <1>8, <1>9 DEF Next

(* An account that has stored a list has a row for this device, whatever   *)
(* lists other clients publish and whatever the user saves or removes.     *)
THEOREM OwnRowCorrect == Spec => []OwnRowExists
<1>1. Init => OwnInv
  <2>1. Init => TypeOK
    BY DeviceAssumption DEF Init, TypeOK, NoSheet, Sheets, Verdicts
  <2>2. Init /\ Own \in Devices => known /\ LastNamesOwn /\ OwnRowExists
    <3> SUFFICES ASSUME Init, Own \in Devices PROVE known /\ LastNamesOwn /\ OwnRowExists
      OBVIOUS
    <3>1. known = (Own # NoDevice) /\ stores = <<>> /\ lists = 0
      BY DEF Init
    <3>2. Own # NoDevice
      BY DeviceAssumption
    <3>3. known
      BY <3>1, <3>2
    <3>4. LastNamesOwn
      BY <3>1 DEF LastNamesOwn
    <3>5. OwnRowExists
      BY <3>1 DEF OwnRowExists
    <3> QED BY <3>3, <3>4, <3>5
  <2> QED BY <2>1, <2>2 DEF OwnInv
<1>2. OwnInv => OwnRowExists
  BY DEF OwnInv, OwnRowExists
<1> QED BY <1>1, <1>2, OwnStep, PTL DEF Spec
=============================================================================
