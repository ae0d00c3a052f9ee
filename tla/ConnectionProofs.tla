-------------------------- MODULE ConnectionProofs --------------------------
(***************************************************************************)
(* Proofs about Connection, for both kinds of account, whichever optional  *)
(* events occur, and any number of them and of connects.                   *)
(***************************************************************************)
EXTENDS Connection, SequenceTheorems, TLAPS

(* Notes of A in a queue that are each followed by one of B; a note of B.  *)
Followed(q, A, B) == \A i \in 1 .. Len(q) :
    q[i] \in A => \E j \in i + 1 .. Len(q) : q[j] \in B
Has(q, B) == \E i \in 1 .. Len(q) : q[i] \in B

(* What taking a note leaves of the two.                                   *)
LEMMA TailFollowed ==
    ASSUME NEW S, NEW q \in Seq(S), q # <<>>, NEW A, NEW B
    PROVE  /\ Tail(q) \in Seq(S) /\ Head(q) \in S
           /\ Followed(q, A, B) => Followed(Tail(q), A, B)
           /\ Followed(q, A, B) /\ Head(q) \in A => Has(Tail(q), B)
           /\ Has(q, B) /\ Head(q) \notin B => Has(Tail(q), B)
<1>1. /\ Tail(q) \in Seq(S) /\ Head(q) \in S /\ Head(q) = q[1]
      /\ Len(q) \in Nat /\ Len(q) > 0 /\ Len(Tail(q)) = Len(q) - 1
      /\ \A i \in 1 .. Len(Tail(q)) : Tail(q)[i] = q[i + 1]
  BY EmptySeq, HeadTailProperties
<1>2. ASSUME Followed(q, A, B) PROVE Followed(Tail(q), A, B)
  <2>1. SUFFICES ASSUME NEW i \in 1 .. Len(Tail(q)), Tail(q)[i] \in A
                 PROVE  \E j \in i + 1 .. Len(Tail(q)) : Tail(q)[j] \in B
    BY DEF Followed
  <2>2. i + 1 \in 1 .. Len(q) /\ q[i + 1] \in A
    BY <1>1, <2>1
  <2>3. PICK k \in i + 2 .. Len(q) : q[k] \in B
    BY <1>1, <1>2, <2>2 DEF Followed
  <2>4. k - 1 \in i + 1 .. Len(Tail(q)) /\ Tail(q)[k - 1] \in B
    BY <1>1, <2>3
  <2> QED BY <2>4
<1>3. ASSUME Followed(q, A, B), Head(q) \in A PROVE Has(Tail(q), B)
  <2>1. PICK k \in 2 .. Len(q) : q[k] \in B
    BY <1>1, <1>3 DEF Followed
  <2>2. k - 1 \in 1 .. Len(Tail(q)) /\ Tail(q)[k - 1] \in B
    BY <1>1, <2>1
  <2> QED BY <2>2 DEF Has
<1>4. ASSUME Has(q, B), Head(q) \notin B PROVE Has(Tail(q), B)
  <2>1. PICK k \in 1 .. Len(q) : q[k] \in B
    BY <1>4 DEF Has
  <2>2. k - 1 \in 1 .. Len(Tail(q)) /\ Tail(q)[k - 1] \in B
    BY <1>1, <1>4, <2>1
  <2> QED BY <2>2 DEF Has
<1> QED BY <1>1, <1>2, <1>3, <1>4

(* What adding one leaves of them.                                         *)
LEMMA AppendFollowed ==
    ASSUME NEW S, NEW q \in Seq(S), NEW n \in S, NEW A, NEW B
    PROVE  /\ Append(q, n) \in Seq(S)
           /\ n \in B => Has(Append(q, n), B)
           /\ n \in B /\ n \notin A => Followed(Append(q, n), A, B)
           /\ n \notin A /\ Followed(q, A, B) => Followed(Append(q, n), A, B)
           /\ Has(q, B) => Has(Append(q, n), B)
<1> DEFINE r == Append(q, n)
<1>1. /\ r \in Seq(S) /\ Len(q) \in Nat /\ Len(r) = Len(q) + 1
      /\ r[Len(q) + 1] = n
      /\ \A i \in 1 .. Len(q) : r[i] = q[i]
  BY AppendProperties
<1> HIDE DEF r
<1>2. ASSUME n \in B PROVE Has(r, B)
  BY <1>1, <1>2 DEF Has
<1>3. ASSUME n \in B, n \notin A PROVE Followed(r, A, B)
  BY <1>1, <1>3 DEF Followed
<1>4. ASSUME n \notin A, Followed(q, A, B) PROVE Followed(r, A, B)
  <2>1. SUFFICES ASSUME NEW i \in 1 .. Len(r), r[i] \in A
                 PROVE  \E j \in i + 1 .. Len(r) : r[j] \in B
    BY DEF Followed
  <2>2. i \in 1 .. Len(q) /\ q[i] \in A
    BY <1>1, <1>4, <2>1
  <2>3. PICK j \in i + 1 .. Len(q) : q[j] \in B
    BY <1>4, <2>2 DEF Followed
  <2> QED BY <1>1, <2>3
<1>5. ASSUME Has(q, B) PROVE Has(r, B)
  BY <1>1, <1>5 DEF Has
<1> QED BY <1>1, <1>2, <1>3, <1>4, <1>5 DEF r

(* What TypeOK and StatusIsTrue need of the queue: a stream that is not    *)
(* authenticated has told so after it last told that it is, and the        *)
(* manager has that to hear as long as it believes otherwise.              *)
Superseded(q) == Followed(q, {"didAuthenticate"}, {"didDisconnect"})
Announced(q) == Has(q, {"didDisconnect"})

HeardLast ==
    ~authed => /\ Superseded(workQueue)
               /\ login = "Authenticated" => Announced(workQueue)

LEMMA TailHeard ==
    ASSUME NEW q \in Seq(Notes), q # <<>>
    PROVE  /\ Tail(q) \in Seq(Notes) /\ Head(q) \in Notes
           /\ Superseded(q) => Superseded(Tail(q))
           /\ Superseded(q) /\ Head(q) = "didAuthenticate" => Announced(Tail(q))
           /\ Announced(q) /\ Head(q) # "didDisconnect" => Announced(Tail(q))
BY TailFollowed DEF Superseded, Announced

LEMMA AppendHeard ==
    ASSUME NEW q \in Seq(Notes), NEW n \in Notes
    PROVE  /\ Append(q, n) \in Seq(Notes)
           /\ n = "didDisconnect" => Superseded(Append(q, n)) /\ Announced(Append(q, n))
           /\ n # "didAuthenticate" /\ Superseded(q) => Superseded(Append(q, n))
           /\ Announced(q) => Announced(Append(q, n))
BY AppendFollowed DEF Superseded, Announced

(* A presence, or a block that leads to one, changes nothing.              *)
LEMMA PassingNote ==
    ASSUME NEW n \in Notes \ {"didAuthenticate", "didDisconnect"},
           workQueue \in Seq(Notes), workQueue # <<>>, Head(workQueue) = n, HeardLast
    PROVE  /\ Rest \in Seq(Notes)
           /\ ~authed => Superseded(Rest)
           /\ ~authed /\ login = "Authenticated" => Announced(Rest)
BY TailHeard DEF HeardLast, Rest

(* The disconnection of the stream, by the manager or the user.            *)
LEMMA DisconnectHeard ==
    ASSUME TypeOK, NEW w \in Seq(Notes), Disconnect(w),
           ~authed => Superseded(w),
           ~authed /\ login = "Authenticated" => Announced(w)
    PROVE  /\ workQueue' \in Seq(Notes) /\ reconQueue' \in Seq(ReconnectNotes)
           /\ stream' \in Streams /\ authed' = authed /\ closing' \in BOOLEAN
           /\ authed' => stream' \in {"connected", "authenticating"}
           /\ closing' => stream' # "down"
           /\ entitled' \in BOOLEAN
           /\ ~authed' => Superseded(workQueue')
           /\ ~authed' /\ login = "Authenticated" => Announced(workQueue')
<1>1. /\ Append(reconQueue, "toldToDisconnect") \in Seq(ReconnectNotes)
      /\ reconQueue \o <<"toldToDisconnect", "didDisconnect">> \in Seq(ReconnectNotes)
  <2>1. reconQueue \in Seq(ReconnectNotes) /\ "toldToDisconnect" \in ReconnectNotes
        /\ <<"toldToDisconnect", "didDisconnect">> \in Seq(ReconnectNotes)
    BY DEF TypeOK, ReconnectNotes
  <2> QED BY <2>1, AppendProperties, ConcatProperties
<1>2. "didDisconnect" \in Notes
  BY DEF Notes
<1>3. CASE stream = "down" /\ workQueue' = w /\ UNCHANGED <<socket, reconQueue, entitled>>
  BY <1>3 DEF TypeOK, socket
<1>4. CASE /\ stream # "down" /\ closing' = TRUE /\ workQueue' = w
           /\ reconQueue' = Append(reconQueue, "toldToDisconnect")
           /\ entitled' = FALSE /\ UNCHANGED <<stream, authed>>
  BY <1>1, <1>4 DEF TypeOK
<1>5. CASE /\ stream = "opening" /\ stream' = "down" /\ closing' = FALSE
           /\ workQueue' = Append(w, "didDisconnect")
           /\ reconQueue' = reconQueue \o <<"toldToDisconnect", "didDisconnect">>
           /\ entitled' = FALSE /\ UNCHANGED authed
  BY <1>1, <1>2, <1>5, AppendHeard DEF TypeOK, Streams
<1> QED BY <1>3, <1>4, <1>5 DEF Disconnect

-----------------------------------------------------------------------------
IndInv == TypeOK /\ HeardLast

LEMMA InitHolds == Init => IndInv
<1> SUFFICES ASSUME Init PROVE IndInv
  OBVIOUS
<1>1. <<>> \in Seq(Notes) /\ <<>> \in Seq(ReconnectNotes)
      /\ <<>> \in Seq({"goOnline", "away", "offline"})
  OBVIOUS
<1>2. TypeOK
  <2>1. Counts
    BY ConnectionAssumption DEF ConnectionAssumption, Init, Counts
  <2> QED BY <1>1, <2>1 DEF Init, TypeOK, Streams, Statuses
<1>3. HeardLast
  BY DEF Init, HeardLast, Superseded, Followed
<1> QED BY <1>2, <1>3 DEF IndInv

(* What is counted stays within its bounds.                                *)
LEMMA CountsPreserved ==
    ASSUME Counts, [Next]_vars
    PROVE  Counts'
<1> USE DEF counters
<1>1. ASSUME NEW e, Happens(e), UNCHANGED deciding PROVE Counts'
  BY <1>1, ConnectionAssumption DEF ConnectionAssumption, Counts, Happens
<1>2. ASSUME UNCHANGED counters, UNCHANGED deciding PROVE Counts'
  BY <1>2 DEF Counts
<1>3. CASE UNCHANGED vars
  BY <1>2, <1>3 DEF vars, reconnect
<1>4. CASE StreamStep
  BY <1>2, <1>4 DEF StreamStep, SocketConnects, StreamConnects, Authenticates, reconnect
<1>5. CASE NewTrust \/ RefusesAuthentication \/ Conflict \/ NextHost \/ OtherPresence
  BY <1>1, <1>5 DEF NewTrust, RefusesAuthentication, Conflict, NextHost, OtherPresence, reconnect
<1>6. CASE SocketCloses
  BY <1>1, <1>2, <1>6 DEF SocketCloses, reconnect
<1>7. CASE ManagerStep
  BY <1>2, <1>7 DEF ManagerStep, SocketDidConnect, DidConnect, DidAuthenticate,
                    DidNotAuthenticate, DidDisconnect, PresenceSent, SendPresence, reconnect
<1>8. CASE Connect
  BY <1>8, ConnectionAssumption DEF ConnectionAssumption, Connect, Counts, reconnect
<1>9. CASE StartConnection
  BY <1>2, <1>9 DEF StartConnection, reconnect
<1>10. CASE OpenOrAuthenticate
  BY <1>1, <1>2, <1>10 DEF OpenOrAuthenticate, reconnect
<1>11. CASE ReconnectHears
  BY <1>2, <1>11 DEF ReconnectHears, ReconnectDidConnect, ReconnectDidAuthenticate,
                     ReconnectConflict, Stop, ReconnectDidDisconnect
<1>12. ASSUME MaybeAttempt PROVE Counts'
  BY <1>12, ConnectionAssumption DEF ConnectionAssumption, MaybeAttempt, Counts, Happens
<1>13. CASE TimerFires
  BY <1>12, <1>13 DEF TimerFires
<1>14. CASE RetryFires
  BY <1>2, <1>12, <1>14 DEF RetryFires
<1>15. CASE Attempt
  BY <1>15 DEF Attempt, Counts
<1>16. CASE MainStep \/ BecomeActive \/ WaitEnds \/ WaitTimesOut
  BY <1>2, <1>16 DEF MainStep, BecomeActive, WaitEnds, WaitTimesOut, reconnect
<1>17. CASE EnterBackground \/ DisconnectAll \/ Logout
  BY <1>1, <1>17 DEF EnterBackground, DisconnectAll, Logout, reconnect
<1> QED BY <1>3, <1>4, <1>5, <1>6, <1>7, <1>8, <1>9, <1>10, <1>11, <1>13, <1>14, <1>15,
           <1>16, <1>17 DEF Next

(* Whatever disconnects the stream.                                        *)
LEMMA DisconnectPreserves ==
    ASSUME IndInv, Counts', NEW w \in Seq(Notes), Disconnect(w),
           ~authed => Superseded(w),
           ~authed /\ login = "Authenticated" => Announced(w),
           main' \in Seq({"goOnline", "away", "offline"}),
           UNCHANGED <<login, reconnect, caller, active, wait, crashed>>
    PROVE  IndInv'
<1>1. /\ workQueue' \in Seq(Notes) /\ reconQueue' \in Seq(ReconnectNotes)
      /\ stream' \in Streams /\ authed' = authed /\ closing' \in BOOLEAN
      /\ authed' => stream' \in {"connected", "authenticating"}
      /\ closing' => stream' # "down"
      /\ entitled' \in BOOLEAN
      /\ ~authed' => Superseded(workQueue')
      /\ ~authed' /\ login = "Authenticated" => Announced(workQueue')
  BY DisconnectHeard DEF IndInv
<1>2. TypeOK'
  BY <1>1 DEF IndInv, TypeOK, reconnect
<1>3. HeardLast'
  BY <1>1 DEF HeardLast
<1> QED BY <1>2, <1>3 DEF IndInv

(* The stream by itself.                                                   *)
LEMMA StreamPreserves ==
    ASSUME IndInv, Counts', \/ StreamStep \/ NewTrust \/ RefusesAuthentication
                            \/ Conflict \/ SocketCloses \/ NextHost
    PROVE  IndInv'
<1> USE DEF IndInv, TypeOK, HeardLast, counters, app, reconnect
<1>1. /\ workQueue \in Seq(Notes) /\ reconQueue \in Seq(ReconnectNotes)
      /\ \A n \in Notes : Append(workQueue, n) \in Seq(Notes)
      /\ \A n \in ReconnectNotes : Append(reconQueue, n) \in Seq(ReconnectNotes)
  BY AppendProperties
<1>2. CASE SocketConnects
  <2>1. TypeOK'
    BY <1>1, <1>2 DEF SocketConnects, Streams, Notes
  <2>2. HeardLast'
    BY <1>2, AppendHeard DEF SocketConnects, Notes
  <2> QED BY <2>1, <2>2
<1>3. CASE StreamConnects
  <2>1. TypeOK'
    BY <1>1, <1>3 DEF StreamConnects, Streams, Notes, ReconnectNotes
  <2>2. HeardLast'
    BY <1>3, AppendHeard DEF StreamConnects, Notes
  <2> QED BY <2>1, <2>2
<1>4. CASE Authenticates
  <2>1. TypeOK'
    BY <1>1, <1>4 DEF Authenticates, Streams, Notes, ReconnectNotes
  <2>2. HeardLast'
    BY <1>4 DEF Authenticates
  <2> QED BY <2>1, <2>2
<1>5. CASE NewTrust
  BY <1>5 DEF NewTrust, Statuses
<1>6. CASE RefusesAuthentication
  <2>1. TypeOK'
    BY <1>1, <1>6 DEF RefusesAuthentication, Streams, Notes
  <2>2. HeardLast'
    BY <1>6, AppendHeard DEF RefusesAuthentication, Notes
  <2> QED BY <2>1, <2>2
<1>7. CASE Conflict
  <2>1. TypeOK'
    BY <1>1, <1>7, ZenonT(120) DEF Conflict, ReconnectNotes, Streams
  <2>2. HeardLast'
    BY <1>7 DEF Conflict
  <2> QED BY <2>1, <2>2
<1>8. CASE SocketCloses
  <2>1. TypeOK'
    BY <1>1, <1>8, ZenonT(120) DEF SocketCloses, ReconnectNotes, Notes, Streams
  <2>2. HeardLast'
    BY <1>8, AppendHeard DEF SocketCloses, Notes
  <2> QED BY <2>1, <2>2
<1>9. CASE NextHost
  <2>1. TypeOK'
    BY <1>9, ZenonT(120) DEF NextHost
  <2>2. HeardLast'
    BY <1>9 DEF NextHost
  <2> QED BY <2>1, <2>2
<1> QED BY <1>2, <1>3, <1>4, <1>5, <1>6, <1>7, <1>8, <1>9 DEF StreamStep

(* The manager, working off its queue.                                     *)
LEMMA ManagerPreserves ==
    ASSUME IndInv, Counts', ManagerStep \/ OtherPresence
    PROVE  IndInv'
<1> USE DEF IndInv, TypeOK, HeardLast, Note, Rest, counters, app, reconnect, socket
<1>1. ASSUME workQueue # <<>>
      PROVE  /\ Rest \in Seq(Notes)
             /\ \A n \in Notes : Append(Rest, n) \in Seq(Notes)
  BY <1>1, TailHeard, AppendProperties
<1>2. \A b \in {"goOnline", "away", "offline"} :
        Append(main, b) \in Seq({"goOnline", "away", "offline"})
  BY AppendProperties
<1>3. CASE SocketDidConnect
  <2>1. TypeOK'
    BY <1>1, <1>3 DEF SocketDidConnect, Statuses
  <2>2. HeardLast'
    BY <1>3, PassingNote DEF SocketDidConnect, Notes
  <2> QED BY <2>1, <2>2
<1>4. CASE DidConnect
  <2>1. TypeOK'
    BY <1>1, <1>4 DEF DidConnect, Authenticate, Statuses, Streams
  <2>2. HeardLast'
    BY <1>4, PassingNote DEF DidConnect, Notes
  <2> QED BY <2>1, <2>2
<1>5. CASE DidAuthenticate
  <2>1. TypeOK'
    BY <1>1, <1>2, <1>5 DEF DidAuthenticate, Statuses
  <2>2. HeardLast'
    BY <1>5, TailHeard DEF DidAuthenticate
  <2> QED BY <2>1, <2>2
<1>6. CASE DidNotAuthenticate
  <2>1. /\ Rest \in Seq(Notes)
        /\ ~authed => Superseded(Rest)
        /\ ~authed /\ login = "Authenticated" => Announced(Rest)
    BY <1>6, PassingNote DEF DidNotAuthenticate, Notes
  <2>2. /\ Disconnect(Rest) /\ main' = Append(main, "offline")
        /\ UNCHANGED <<login, reconnect, caller, active, wait, crashed>>
    BY <1>6 DEF DidNotAuthenticate
  <2>3. main' \in Seq({"goOnline", "away", "offline"})
    BY <1>2, <2>2
  <2> HIDE DEF IndInv, TypeOK, HeardLast, Rest, reconnect
  <2> QED BY <2>1, <2>2, <2>3, DisconnectPreserves
<1>7. CASE DidDisconnect
  <2>1. TypeOK'
    BY <1>1, <1>7 DEF DidDisconnect, Statuses
  <2>2. HeardLast'
    BY <1>7, TailHeard DEF DidDisconnect
  <2> QED BY <2>1, <2>2
<1>8. CASE PresenceSent
  <2>1. /\ Rest \in Seq(Notes)
        /\ ~authed => Superseded(Rest)
        /\ ~authed /\ login = "Authenticated" => Announced(Rest)
    BY <1>8, PassingNote DEF PresenceSent, Notes
  <2>2. CASE login = "Disconnecting"
    <3>1. Disconnect(Rest) /\ UNCHANGED <<login, reconnect, caller, app>>
      BY <1>8, <2>2 DEF PresenceSent
    <3>2. main' \in Seq({"goOnline", "away", "offline"})
          /\ UNCHANGED <<login, reconnect, caller, active, wait, crashed>>
      BY <3>1
    <3> HIDE DEF IndInv, TypeOK, HeardLast, Rest, reconnect
    <3> QED BY <2>1, <3>1, <3>2, DisconnectPreserves
  <2>3. CASE login # "Disconnecting"
    <3>1. /\ workQueue' = Rest /\ UNCHANGED <<socket, reconQueue, entitled>>
          /\ UNCHANGED <<login, reconnect, caller, app>>
      BY <1>8, <2>3 DEF PresenceSent
    <3>2. TypeOK'
      BY <2>1, <3>1
    <3>3. HeardLast'
      BY <2>1, <3>1
    <3> QED BY <3>2, <3>3
  <2> QED BY <2>2, <2>3
<1>9. CASE SendPresence
  <2>1. /\ Rest \in Seq(Notes)
        /\ ~authed => Superseded(Rest)
        /\ ~authed /\ login = "Authenticated" => Announced(Rest)
    BY <1>9, PassingNote DEF SendPresence, Notes
  <2>2. TypeOK'
    BY <1>1, <1>9 DEF SendPresence, Notes
  <2>3. /\ ~authed => Superseded(Append(Rest, "presence"))
        /\ ~authed /\ login = "Authenticated" => Announced(Append(Rest, "presence"))
    <3>1. "presence" \in Notes
      BY DEF Notes
    <3> HIDE DEF Rest
    <3> QED BY <2>1, <3>1, AppendHeard
  <2>4. HeardLast'
    BY <1>9, <2>3 DEF SendPresence
  <2> QED BY <2>2, <2>4
<1>10. CASE OtherPresence
  <2>1. TypeOK'
    BY <1>10, AppendHeard DEF OtherPresence, Notes
  <2>2. HeardLast'
    BY <1>10, AppendHeard DEF OtherPresence, Notes
  <2> QED BY <2>1, <2>2
<1> QED BY <1>3, <1>4, <1>5, <1>6, <1>7, <1>8, <1>9, <1>10 DEF ManagerStep

(* A connect and the reconnect module leave the manager's queue alone.     *)
LEMMA ConnectPreserves ==
    ASSUME IndInv, Counts', Connect \/ StartConnection \/ OpenOrAuthenticate
    PROVE  IndInv'
<1> USE DEF IndInv, TypeOK, HeardLast, counters, app, reconnect, socket
<1>1. CASE Connect
  <2>1. Append(main, "goOnline") \in Seq({"goOnline", "away", "offline"})
    BY AppendProperties
  <2> QED BY <1>1, <2>1, ZenonT(120) DEF Connect
<1>2. CASE StartConnection
  BY <1>2 DEF StartConnection, Statuses
<1>3. CASE OpenOrAuthenticate
  BY <1>3 DEF OpenOrAuthenticate, Open, Authenticate, Streams
<1> QED BY <1>1, <1>2, <1>3

LEMMA ReconnectPreserves ==
    ASSUME IndInv, Counts', ReconnectHears \/ TimerFires \/ RetryFires \/ Attempt
    PROVE  IndInv'
<1> USE DEF IndInv, TypeOK, HeardLast, counters, app, reconnect, socket
<1>1. CASE ReconnectHears
  <2>1. reconQueue' \in Seq(ReconnectNotes)
    <3>1. reconQueue # <<>> /\ reconQueue' = Tail(reconQueue)
      BY <1>1 DEF ReconnectHears, ReconnectDidConnect, ReconnectDidAuthenticate,
                  ReconnectConflict, Stop, ReconnectDidDisconnect, Told
    <3> QED BY <3>1, HeadTailProperties
  <2>2. /\ UNCHANGED <<socket, login, workQueue, caller, app, entitled>>
        /\ should' \in BOOLEAN /\ restart' \in BOOLEAN /\ querying' \in BOOLEAN
        /\ timer' \in BOOLEAN /\ retry' \in BOOLEAN
    BY <1>1 DEF ReconnectHears, ReconnectDidConnect, ReconnectDidAuthenticate,
                ReconnectConflict, Stop, ReconnectDidDisconnect
  <2> QED BY <2>1, <2>2
<1>2. ASSUME MaybeAttempt
      PROVE  /\ stream' \in Streams /\ authed' = authed /\ closing' \in BOOLEAN
             /\ authed' => stream' \in {"connected", "authenticating"}
             /\ closing' => stream' # "down"
             /\ querying' \in BOOLEAN
  BY <1>2 DEF MaybeAttempt, Streams
<1>3. CASE TimerFires
  BY <1>2, <1>3 DEF TimerFires
<1>4. CASE RetryFires
  <2>1. CASE timer
    BY <1>2, <1>4, <2>1 DEF RetryFires
  <2>2. CASE ~timer
    BY <1>4, <2>2, ZenonT(120) DEF RetryFires
  <2> QED BY <2>1, <2>2
<1>5. CASE Attempt
  <2>1. /\ stream' \in Streams /\ (stream # "down" => stream' = stream)
        /\ stream = "down" => stream' # "down"
    BY <1>5 DEF Attempt, Open, Streams
  <2>2. /\ querying' = FALSE /\ restart' = FALSE
        /\ UNCHANGED <<authed, closing, login, workQueue, reconQueue, should, timer, retry,
                       caller, app, entitled>>
    BY <1>5 DEF Attempt
  <2>3. TypeOK'
    BY <2>1, <2>2, ZenonT(120)
  <2>4. HeardLast'
    BY <2>2
  <2> QED BY <2>3, <2>4
<1> QED BY <1>1, <1>3, <1>4, <1>5

(* The main thread.                                                        *)
LEMMA AppPreserves ==
    ASSUME IndInv, Counts', \/ MainStep \/ EnterBackground \/ BecomeActive \/ DisconnectAll
                            \/ WaitEnds \/ WaitTimesOut \/ Logout
    PROVE  IndInv'
<1> USE DEF IndInv, TypeOK, HeardLast, counters, app, reconnect, socket
<1> DEFINE Blocks == {"goOnline", "away", "offline"}
<1>1. GoAway \in Seq(Blocks)
  <2>1. <<>> \in Seq(Blocks) /\ <<"away">> \in Seq(Blocks)
    OBVIOUS
  <2> QED BY <2>1 DEF GoAway
<1>2. CASE MainStep
  <2>1. Head(main) \in Blocks /\ Tail(main) \in Seq(Blocks)
    BY <1>2, EmptySeq, HeadTailProperties DEF MainStep
  <2>2. Tail(main) \o GoAway \in Seq(Blocks)
    BY <1>1, <2>1, ConcatProperties
  <2>3. CASE Head(main) = "goOnline" /\ active
    <3>1. workQueue' = Append(workQueue, "presence") /\ main' = Tail(main)
      BY <1>2, <2>3 DEF MainStep
    <3> QED BY <1>2, <2>1, <3>1, AppendHeard DEF MainStep, Notes
  <2>4. CASE Head(main) = "goOnline" /\ ~active
    <3>1. UNCHANGED workQueue /\ main' = Tail(main) \o GoAway
      BY <1>2, <2>4 DEF MainStep
    <3> QED BY <1>2, <2>2, <3>1 DEF MainStep
  <2>5. CASE Head(main) # "goOnline"
    <3>1. workQueue' = Append(workQueue, Head(main)) /\ main' = Tail(main)
      BY <1>2, <2>5 DEF MainStep
    <3>2. Head(main) \in Notes \ {"didAuthenticate", "didDisconnect"}
      BY <2>1, <2>5 DEF Notes
    <3> QED BY <1>2, <2>1, <3>1, <3>2, AppendHeard DEF MainStep
  <2> QED BY <2>3, <2>4, <2>5
<1>3. CASE EnterBackground
  <2>1. main \o GoAway \in Seq(Blocks)
    BY <1>1, ConcatProperties
  <2>2. /\ active' = FALSE /\ main' = main \o GoAway
        /\ UNCHANGED <<socket, login, workQueue, reconQueue, reconnect, caller, wait, crashed,
                       entitled>>
    BY <1>3 DEF EnterBackground
  <2>3. TypeOK'
    BY <2>1, <2>2, ZenonT(120)
  <2>4. HeardLast'
    BY <2>2
  <2> QED BY <2>3, <2>4
<1>4. CASE BecomeActive
  BY <1>4 DEF BecomeActive
<1>5. CASE DisconnectAll
  <2>1. main \o GoAway \in Seq(Blocks)
    BY <1>1, ConcatProperties
  <2>3. CASE login = "Authenticated"
    <3>1. login' = "Disconnecting" /\ main' = main \o GoAway
      BY <1>5, <2>3 DEF DisconnectAll
    <3> QED BY <1>5, <2>1, <3>1 DEF DisconnectAll, Statuses
  <2>4. CASE login # "Authenticated"
    <3>1. UNCHANGED <<login, main>>
      BY <1>5, <2>4 DEF DisconnectAll
    <3> QED BY <1>5, <3>1 DEF DisconnectAll, Statuses
  <2> QED BY <2>3, <2>4
<1>6. CASE WaitEnds
  BY <1>6 DEF WaitEnds
<1>7. CASE WaitTimesOut
  BY <1>7 DEF WaitTimesOut
<1>8. CASE Logout
  <2>1. Append(main, "offline") \in Seq(Blocks)
    BY AppendProperties
  <2>2. /\ Disconnect(workQueue) /\ main' = Append(main, "offline")
        /\ UNCHANGED <<login, reconnect, caller, active, wait, crashed>>
    BY <1>8 DEF Logout
  <2> QED BY <2>1, <2>2, DisconnectPreserves
<1> QED BY <1>2, <1>3, <1>4, <1>5, <1>6, <1>7, <1>8

LEMMA StepPreserves == IndInv /\ [Next]_vars => IndInv'
<1> SUFFICES ASSUME IndInv, [Next]_vars PROVE IndInv'
  OBVIOUS
<1>1. CASE Next
  <2>1. Counts'
    BY CountsPreserved DEF IndInv, TypeOK
  <2> QED BY <1>1, <2>1, StreamPreserves, ManagerPreserves, ConnectPreserves, ReconnectPreserves,
     AppPreserves DEF Next
<1>2. CASE UNCHANGED vars
  <2>1. Counts'
    BY CountsPreserved DEF IndInv, TypeOK
  <2> QED BY <1>2, <2>1 DEF IndInv, TypeOK, HeardLast, vars, socket, reconnect, app
<1> QED BY <1>1, <1>2

-----------------------------------------------------------------------------
(* The inductive invariant: the types, and that the last thing the manager *)
(* will hear of the stream agrees with the stream.                         *)
THEOREM IndInvHolds == Spec => []IndInv
<1> QED BY InitHolds, StepPreserves, PTL DEF Spec

(* Every variable keeps its type; an authenticated stream is up, and only  *)
(* a stream that is up is on its way to being closed.                      *)
THEOREM TypeCorrect == Spec => []TypeOK
<1>1. IndInv => TypeOK
  BY DEF IndInv
<1> QED BY <1>1, IndInvHolds, PTL

(* Once the manager has heard everything, "Authenticated" is true of the   *)
(* stream, however connects, drops, refusals and disconnects overlap.      *)
THEOREM StatusCorrect == Spec => []StatusIsTrue
<1>1. IndInv => StatusIsTrue
  BY DEF IndInv, HeardLast, StatusIsTrue, Announced, Has
<1> QED BY <1>1, IndInvHolds, PTL

-----------------------------------------------------------------------------
(* The reconnect module.                                                   *)

Arms == {"didAuthenticate"}
Disarms == {"toldToDisconnect", "conflict"}
Ends == {"didDisconnect"}
NotYet == {"down", "opening", "negotiating"}

(* What is last of the two kinds in its queue, or else the flag, agrees    *)
(* with whether the account is to be connected.                            *)
FlagFollows ==
    /\ entitled => /\ Followed(reconQueue, Disarms, Arms)
                   /\ should \/ Has(reconQueue, Arms)
    /\ ~entitled => /\ Followed(reconQueue, Arms, Disarms)
                    /\ ~should \/ Has(reconQueue, Disarms)

(* Before a stream is opened, the end of the one before is the last thing  *)
(* that the module hears, if it has not yet set its timer.                 *)
TimerFollows == entitled /\ stream \in NotYet =>
    /\ Followed(reconQueue, Arms \cup Disarms \cup {"didConnect"}, Ends)
    /\ timer \/ Has(reconQueue, Ends)

Decided == querying => deciding > 0

Armed == FlagFollows /\ TimerFollows /\ Decided

(* A stream that ends, or goes further, leaves the timer as it should be.  *)
LEMMA NoteKept ==
    ASSUME IndInv, FlagFollows, NEW n \in ReconnectNotes,
           reconQueue' = Append(reconQueue, n),
           UNCHANGED <<should, timer>>,
           n \in Arms => entitled', n \in Disarms => ~entitled',
           n \notin Arms \cup Disarms => entitled' = entitled,
           stream' \in NotYet /\ entitled' => n \in Ends
    PROVE  FlagFollows' /\ TimerFollows'
<1>1. reconQueue \in Seq(ReconnectNotes) /\ Arms \cap Disarms = {}
      /\ Ends \cap (Arms \cup Disarms \cup {"didConnect"}) = {}
  BY DEF IndInv, TypeOK, Arms, Disarms, Ends
<1> HIDE DEF Arms, Disarms, Ends
<1>2. FlagFollows'
  BY <1>1, AppendFollowed DEF FlagFollows
<1>3. TimerFollows'
  BY <1>1, AppendFollowed DEF TimerFollows
<1> QED BY <1>2, <1>3

(* A step that neither tells the module anything nor is one of it.         *)
LEMMA ElsewhereArmed ==
    ASSUME Armed, UNCHANGED <<reconQueue, should, querying, timer, deciding, entitled>>,
           stream' \in NotYet => stream \in NotYet
    PROVE  Armed'
BY DEF Armed, FlagFollows, TimerFollows, Decided

LEMMA DisconnectArmed ==
    ASSUME IndInv, Armed, NEW w, Disconnect(w), UNCHANGED reconnect
    PROVE  Armed'
<1>1. reconQueue \in Seq(ReconnectNotes) /\ "toldToDisconnect" \in ReconnectNotes
      /\ "didDisconnect" \in ReconnectNotes
  BY DEF IndInv, TypeOK, ReconnectNotes
<1>2. UNCHANGED <<should, querying, timer, deciding>>
  BY DEF reconnect
<1>3. CASE stream = "down" /\ UNCHANGED <<socket, reconQueue, entitled>>
  BY <1>2, <1>3, ElsewhereArmed DEF socket
<1>4. CASE /\ reconQueue' = Append(reconQueue, "toldToDisconnect")
           /\ entitled' = FALSE
  <2>1. FlagFollows' /\ TimerFollows'
    BY <1>1, <1>2, <1>4, NoteKept DEF Armed, Arms, Disarms
  <2> QED BY <1>2, <2>1 DEF Armed, Decided
<1>5. CASE /\ reconQueue' = reconQueue \o <<"toldToDisconnect", "didDisconnect">>
           /\ entitled' = FALSE
  <2> DEFINE q == Append(reconQueue, "toldToDisconnect")
  <2>1. reconQueue' = Append(q, "didDisconnect") /\ q \in Seq(ReconnectNotes)
    BY <1>1, <1>5
  <2>2. Followed(q, Arms, Disarms) /\ Has(q, Disarms)
    BY <1>1, AppendFollowed DEF Arms, Disarms
  <2> HIDE DEF q
  <2>3. Followed(reconQueue', Arms, Disarms) /\ Has(reconQueue', Disarms)
    BY <1>1, <2>1, <2>2, AppendFollowed DEF Arms
  <2> QED BY <1>2, <1>5, <2>3 DEF Armed, FlagFollows, TimerFollows, Decided
<1> QED BY <1>3, <1>4, <1>5 DEF Disconnect

LEMMA StreamArmed ==
    ASSUME IndInv, Armed, \/ StreamStep \/ NewTrust \/ RefusesAuthentication
                          \/ Conflict \/ SocketCloses \/ NextHost
    PROVE  Armed'
<1> USE DEF reconnect, NotYet
<1>1. ASSUME UNCHANGED <<should, querying, timer, deciding>>, FlagFollows' /\ TimerFollows'
      PROVE  Armed'
  BY <1>1 DEF Armed, Decided
<1>2. CASE SocketConnects
  BY <1>2, ElsewhereArmed DEF SocketConnects
<1>3. CASE StreamConnects
  <2>1. "didConnect" \in ReconnectNotes \ (Arms \cup Disarms)
    BY DEF ReconnectNotes, Arms, Disarms
  <2> QED BY <1>1, <1>3, <2>1, NoteKept DEF StreamConnects, Armed
<1>4. CASE Authenticates
  <2>1. "didAuthenticate" \in ReconnectNotes \cap Arms /\ "didAuthenticate" \notin Disarms
    BY DEF ReconnectNotes, Arms, Disarms
  <2> QED BY <1>1, <1>4, <2>1, NoteKept DEF Authenticates, Armed
<1>5. CASE NewTrust \/ RefusesAuthentication \/ NextHost
  BY <1>5, ElsewhereArmed DEF NewTrust, RefusesAuthentication, NextHost
<1>6. CASE Conflict
  <2>1. "conflict" \in ReconnectNotes \cap Disarms /\ "conflict" \notin Arms
    BY DEF ReconnectNotes, Arms, Disarms
  <2>2. stream \in {"connected", "authenticating"}
    BY <1>6 DEF Conflict, IndInv, TypeOK
  <2> QED BY <1>1, <1>6, <2>1, <2>2, NoteKept DEF Conflict, Armed
<1>7. CASE SocketCloses
  <2>1. "didDisconnect" \in (ReconnectNotes \cap Ends) \ (Arms \cup Disarms)
    BY DEF ReconnectNotes, Arms, Disarms, Ends
  <2> QED BY <1>1, <1>7, <2>1, NoteKept DEF SocketCloses, Armed
<1> QED BY <1>2, <1>3, <1>4, <1>5, <1>6, <1>7 DEF StreamStep

(* The module takes a note.                                                *)
LEMMA HearsArmed ==
    ASSUME IndInv, Armed, ReconnectHears
    PROVE  Armed'
<1> DEFINE n == Head(reconQueue)
<1>1. /\ reconQueue \in Seq(ReconnectNotes) /\ reconQueue # <<>>
      /\ reconQueue' = Tail(reconQueue)
      /\ entitled' = entitled /\ stream' = stream /\ deciding' = deciding
      /\ n \in Arms \cup Disarms \cup Ends \cup {"didConnect"}
  BY DEF IndInv, TypeOK, ReconnectHears, ReconnectDidConnect, ReconnectDidAuthenticate,
         ReconnectConflict, Stop, ReconnectDidDisconnect, Told, Arms, Disarms, Ends, socket
<1>2. /\ n \in Arms => should'
      /\ n \in Disarms => ~should'
      /\ n \notin Arms \cup Disarms => should' = should
      /\ querying' => querying
  BY DEF ReconnectHears, ReconnectDidConnect, ReconnectDidAuthenticate,
         ReconnectConflict, Stop, ReconnectDidDisconnect, Told, Arms, Disarms
<1>3. /\ n \in Ends => timer' = (timer \/ should)
      /\ n \in Arms => timer' = timer
      /\ n \notin Ends => n \in Arms \cup Disarms \cup {"didConnect"}
  BY <1>1 DEF ReconnectHears, ReconnectDidConnect, ReconnectDidAuthenticate,
         ReconnectConflict, Stop, ReconnectDidDisconnect, Told, Arms, Disarms, Ends
<1>4. Arms \cap Disarms = {} /\ Ends \cap (Arms \cup Disarms) = {}
  BY DEF Arms, Disarms, Ends
<1> HIDE DEF n
<1>5. \A A, B : /\ Followed(reconQueue, A, B) => Followed(reconQueue', A, B)
                /\ Followed(reconQueue, A, B) /\ n \in A => Has(reconQueue', B)
                /\ Has(reconQueue, B) /\ n \notin B => Has(reconQueue', B)
  BY <1>1, TailFollowed DEF n
<1>6. FlagFollows'
  BY <1>1, <1>2, <1>4, <1>5 DEF Armed, FlagFollows
<1>7. TimerFollows'
  <2> SUFFICES ASSUME entitled, stream \in NotYet PROVE TimerFollows'
    BY <1>1 DEF TimerFollows
  <2>1. Followed(reconQueue', Arms \cup Disarms \cup {"didConnect"}, Ends)
    BY <1>5 DEF Armed, TimerFollows
  <2>2. CASE n \notin Ends
    <3>1. Has(reconQueue', Ends)
      BY <1>3, <1>5, <2>2 DEF Armed, TimerFollows
    <3> QED BY <2>1, <3>1 DEF TimerFollows
  <2>3. CASE n \in Ends /\ should
    BY <1>3, <2>1, <2>3 DEF TimerFollows
  <2>4. CASE n \in Ends /\ ~should
    <3>1. Has(reconQueue', Arms)
      BY <1>4, <1>5, <2>4 DEF Armed, FlagFollows
    <3>2. Has(reconQueue', Ends)
      BY <2>1, <3>1 DEF Followed, Has
    <3> QED BY <2>1, <3>2 DEF TimerFollows
  <2> QED BY <2>2, <2>3, <2>4
<1>8. Decided'
  BY <1>1, <1>2 DEF Armed, Decided
<1> QED BY <1>6, <1>7, <1>8 DEF Armed

(* The timer, a second attempt and the answer of the module's delegates.   *)
LEMMA TryArmed ==
    ASSUME IndInv, Armed, TimerFires \/ RetryFires \/ Attempt
    PROVE  Armed'
<1>1. /\ UNCHANGED <<reconQueue, should, timer, entitled>>
      /\ stream' \in NotYet => stream \in NotYet
      /\ querying' => deciding' > 0
  <2> USE DEF socket, NotYet
  <2>1. deciding \in Nat
    BY DEF IndInv, TypeOK, Counts
  <2>2. ASSUME MaybeAttempt
        PROVE  (stream' \in NotYet => stream \in NotYet) /\ (querying' => deciding' > 0)
    BY <2>1, <2>2 DEF MaybeAttempt, Armed, Decided
  <2>3. CASE TimerFires
    BY <2>2, <2>3 DEF TimerFires
  <2>4. CASE RetryFires
    BY <2>2, <2>4 DEF RetryFires, Armed, Decided
  <2>5. CASE Attempt
    BY <2>5 DEF Attempt, Open
  <2> QED BY <2>3, <2>4, <2>5
<1> QED BY <1>1 DEF Armed, FlagFollows, TimerFollows, Decided

(* The other steps tell the module to stop, if they touch it at all.       *)
LEMMA OtherArmed ==
    ASSUME IndInv, Armed, \/ ManagerStep \/ OtherPresence \/ Connect \/ StartConnection
                          \/ OpenOrAuthenticate \/ MainStep \/ EnterBackground \/ BecomeActive
                          \/ DisconnectAll \/ WaitEnds \/ WaitTimesOut \/ Logout
    PROVE  Armed'
<1> USE DEF reconnect, socket, NotYet
<1>1. CASE SocketDidConnect \/ DidConnect \/ DidAuthenticate \/ DidDisconnect \/ SendPresence
  BY <1>1, ElsewhereArmed DEF SocketDidConnect, DidConnect, DidAuthenticate, DidDisconnect,
                              SendPresence, Authenticate
<1>2. CASE DidNotAuthenticate \/ Logout
  BY <1>2, DisconnectArmed DEF DidNotAuthenticate, Logout
<1>3. CASE PresenceSent
  BY <1>3, DisconnectArmed, ElsewhereArmed DEF PresenceSent
<1>4. CASE OtherPresence \/ Connect \/ StartConnection \/ OpenOrAuthenticate
  BY <1>4, ElsewhereArmed DEF OtherPresence, Connect, StartConnection, OpenOrAuthenticate,
                              Open, Authenticate
<1>5. CASE \/ MainStep \/ EnterBackground \/ BecomeActive \/ DisconnectAll
           \/ WaitEnds \/ WaitTimesOut
  BY <1>5, ElsewhereArmed DEF MainStep, EnterBackground, BecomeActive, DisconnectAll,
                              WaitEnds, WaitTimesOut
<1> QED BY <1>1, <1>2, <1>3, <1>4, <1>5 DEF ManagerStep

THEOREM ArmedHolds == Spec => [](IndInv /\ Armed)
<1>1. Init => Armed
  BY DEF Init, Armed, FlagFollows, TimerFollows, Decided, Followed
<1>2. IndInv /\ Armed /\ [Next]_vars => Armed'
  <2>1. IndInv /\ Armed /\ Next => Armed'
    BY StreamArmed, HearsArmed, TryArmed, OtherArmed DEF Next
  <2>2. Armed /\ UNCHANGED vars => Armed'
    BY ElsewhereArmed DEF vars, reconnect, socket
  <2> QED BY <2>1, <2>2
<1> QED BY <1>1, <1>2, InitHolds, StepPreserves, PTL DEF Spec

LEMMA ArmedFits == IndInv /\ Armed => HealIsArmed
<1> SUFFICES ASSUME IndInv, Armed, reconQueue = <<>> PROVE HealIsArmed
  BY DEF HealIsArmed
<1>1. \A B : ~Has(reconQueue, B)
  BY DEF Has
<1>2. should = entitled
  BY <1>1 DEF IndInv, TypeOK, Armed, FlagFollows
<1> QED BY <1>1, <1>2 DEF HealIsArmed, Armed, TimerFollows, Decided, NotYet

(* Once the reconnect module has heard everything, its flag says exactly   *)
(* whether the account is to be connected, and while it is and has no      *)
(* opened stream the timer is set and no attempt is held up: the reason    *)
(* why a connection lost by accident comes back.                           *)
THEOREM HealCorrect == Spec => []HealIsArmed
<1> QED BY ArmedHolds, ArmedFits, PTL

(* Once it knows of a disconnection on purpose, the module begins no       *)
(* attempt; one whose delegates were being asked goes on.                  *)
THEOREM StopsStand == Spec => StopStands
<1>1. ASSUME IndInv, Armed, [Next]_vars, ~entitled, reconQueue = <<>>
      PROVE  deciding' <= deciding
  <2>1. ~should /\ deciding \in Nat
    BY <1>1, ArmedFits DEF HealIsArmed, IndInv, TypeOK, Counts
  <2>2. CASE TimerFires \/ RetryFires
    BY <2>1, <2>2 DEF TimerFires, RetryFires, MaybeAttempt
  <2>3. CASE Attempt
    BY <2>1, <2>3 DEF Attempt
  <2>4. ASSUME UNCHANGED deciding PROVE deciding' <= deciding
    BY <2>1, <2>4
  <2> USE DEF reconnect
  <2>5. CASE \/ StreamStep \/ NewTrust \/ RefusesAuthentication \/ Conflict \/ SocketCloses
             \/ NextHost \/ OtherPresence \/ Connect \/ StartConnection \/ OpenOrAuthenticate
             \/ ReconnectHears
    BY <2>4, <2>5 DEF StreamStep, SocketConnects, StreamConnects, Authenticates, NewTrust,
         RefusesAuthentication, Conflict, SocketCloses, NextHost, OtherPresence, Connect,
         StartConnection, OpenOrAuthenticate, ReconnectHears, ReconnectDidConnect,
         ReconnectDidAuthenticate, ReconnectConflict, Stop, ReconnectDidDisconnect
  <2>6. CASE ManagerStep
    BY <2>4, <2>6 DEF ManagerStep, SocketDidConnect, DidConnect, DidAuthenticate,
                      DidNotAuthenticate, DidDisconnect, PresenceSent, SendPresence
  <2>7. CASE \/ MainStep \/ EnterBackground \/ BecomeActive \/ DisconnectAll \/ WaitEnds
             \/ WaitTimesOut \/ Logout \/ UNCHANGED vars
    BY <2>4, <2>7 DEF MainStep, EnterBackground, BecomeActive, DisconnectAll, WaitEnds,
                      WaitTimesOut, Logout, vars
  <2> QED BY <1>1, <2>2, <2>3, <2>5, <2>6, <2>7 DEF Next
<1>2. IndInv /\ Armed /\ [Next]_vars => [~entitled /\ reconQueue = <<>> => deciding' <= deciding]_vars
  BY <1>1
<1> QED BY <1>2, ArmedHolds, PTL DEF StopStands, Spec
=============================================================================
