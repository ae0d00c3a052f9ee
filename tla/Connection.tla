----------------------------- MODULE Connection -----------------------------
(***************************************************************************)
(* The connection of one account: OTRXMPPManager with its login status,    *)
(* the XMPPStream below it, the XMPPReconnect module beside it, and        *)
(* OTRProtocolManager's disconnecting of accounts before the process is    *)
(* suspended.                                                              *)
(*                                                                         *)
(* The stream acts on a queue of its own and tells what happened by        *)
(* notifications, which manager and module each take from a queue of their *)
(* own; by then the stream may be somewhere else. Asking for the date of   *)
(* the last interaction, which a presence carries, goes over the main      *)
(* queue, whose thread may itself be waiting for the account.              *)
(***************************************************************************)
EXTENDS Naturals, Sequences

CONSTANTS
    Tor,        \* a Tor account; Tor itself is up
    Occurs,     \* the optional events that may happen
    MaxEvents,  \* how many of them at most,
    MaxConnects \* and how many connects

ASSUME ConnectionAssumption ==
    Tor \in BOOLEAN /\ MaxEvents \in Nat /\ MaxConnects \in Nat

VARIABLES
    stream,     \* XMPPStream's state
    authed,     \* isAuthenticated
    closing,    \* its socket is on the way to being closed
    login,      \* loginStatus
    workQueue,  \* the manager's notifications and blocks
    reconQueue, \* the reconnect module's notifications
    should,     \* its flags shouldReconnect,
    restart,    \*   shouldRestartReconnect
    querying,   \*   and queryingDelegates
    timer,      \* its timer is set and the network watched
    retry,      \* an attempt is scheduled after 0.1 s
    deciding,   \* attempts whose delegates are being asked
    caller,     \* a connectUserInitiated under way on some thread
    main,       \* blocks on the main queue
    active,     \* the app is in the foreground
    wait,       \* the main thread's wait in disconnectAllAccounts
    crashed,    \* a dispatch group was left more often than entered
    events, connects,
    entitled    \* authenticated once and not ended on purpose since;
                \* only the properties read it

socket == <<stream, authed, closing>>
reconnect == <<should, restart, querying, timer, retry, deciding>>
app == <<main, active, wait, crashed>>
vars == <<socket, login, workQueue, reconQueue, reconnect, caller, app, events, connects, entitled>>

Streams == {"down", "opening", "negotiating", "connected", "authenticating"}
Statuses == {"Disconnected", "Disconnecting", "Connecting", "Connected",
             "Authenticating", "Authenticated"}
Notes == {"socketDidConnect", "didConnect", "didAuthenticate", "didNotAuthenticate",
          "didDisconnect", "presence", "away", "offline"}
ReconnectNotes == {"didConnect", "didAuthenticate", "toldToDisconnect", "conflict", "didDisconnect"}

Init ==
    /\ stream = "down" /\ authed = FALSE /\ closing = FALSE
    /\ login = "Disconnected"
    /\ workQueue = <<>> /\ reconQueue = <<>> /\ main = <<>>
    /\ should = FALSE /\ restart = FALSE /\ querying = FALSE
    /\ timer = FALSE /\ retry = FALSE
    /\ deciding = 0
    /\ caller = "idle"
    /\ active = TRUE /\ wait = "no" /\ crashed = FALSE
    /\ events = 0 /\ connects = 0
    /\ entitled = FALSE

counters == <<events, connects>>

Happens(e) ==
    /\ e \in Occurs
    /\ events < MaxEvents /\ events' = events + 1
    /\ UNCHANGED connects

-----------------------------------------------------------------------------
(* The stream's operations, as its callers use them. work: the manager's   *)
(* queue before.                                                           *)

(* connectWithTimeout; fails unless the stream is down.                    *)
Open == stream' = IF stream = "down" THEN "opening" ELSE stream

(* authenticateWithStream: an error is not looked at.                      *)
Authenticate == stream' = IF stream = "connected" THEN "authenticating" ELSE stream

(* Mutant: the socket is closed without looking at the state.              *)
DisconnectAnyway(work) ==
    /\ closing' = TRUE
    /\ workQueue' = work
    /\ reconQueue' = Append(reconQueue, "toldToDisconnect")
    /\ entitled' = FALSE
    /\ UNCHANGED <<stream, authed>>

(* disconnect and disconnectAfterSending: the reconnect module is told and *)
(* the socket closes later; while a name is being resolved, at once.       *)
Disconnect(work) ==
    \/ /\ stream = "down"
       /\ workQueue' = work
       /\ UNCHANGED <<socket, reconQueue, entitled>>
    \/ /\ stream # "down"
       /\ closing' = TRUE
       /\ workQueue' = work
       /\ reconQueue' = Append(reconQueue, "toldToDisconnect")
       /\ entitled' = FALSE
       /\ UNCHANGED <<stream, authed>>
    \/ /\ stream = "opening"
       /\ stream' = "down" /\ closing' = FALSE
       /\ workQueue' = Append(work, "didDisconnect")
       /\ reconQueue' = reconQueue \o <<"toldToDisconnect", "didDisconnect">>
       /\ entitled' = FALSE
       /\ UNCHANGED authed

-----------------------------------------------------------------------------
(* What the stream does by itself.                                         *)

SocketConnects ==
    /\ stream = "opening" /\ ~closing
    /\ stream' = "negotiating"
    /\ workQueue' = Append(workQueue, "socketDidConnect")
    /\ UNCHANGED <<authed, closing, login, reconQueue, reconnect, caller, app, counters, entitled>>

StreamConnects ==
    /\ stream = "negotiating" /\ ~closing
    /\ stream' = "connected"
    /\ workQueue' = Append(workQueue, "didConnect")
    /\ reconQueue' = Append(reconQueue, "didConnect")
    /\ UNCHANGED <<authed, closing, login, reconnect, caller, app, counters, entitled>>

(* newTrust: the certificate is not trusted; the socket will close.        *)
NewTrust ==
    /\ stream = "negotiating" /\ ~closing /\ Happens("newTrust")
    /\ closing' = TRUE
    /\ login' = "Disconnected"
    /\ crashed' = (wait = "left")
    /\ wait' = IF wait = "waiting" THEN "left" ELSE wait
    /\ UNCHANGED <<stream, authed, workQueue, reconQueue, reconnect, caller, main, active,
                   entitled>>

Authenticates ==
    /\ stream = "authenticating" /\ ~closing
    /\ stream' = "connected" /\ authed' = TRUE
    /\ workQueue' = Append(workQueue, "didAuthenticate")
    /\ reconQueue' = Append(reconQueue, "didAuthenticate")
    /\ entitled' = TRUE
    /\ UNCHANGED <<closing, login, reconnect, caller, app, counters>>

RefusesAuthentication ==
    /\ stream = "authenticating" /\ ~closing /\ Happens("refuse")
    /\ stream' = "connected"
    /\ workQueue' = Append(workQueue, "didNotAuthenticate")
    /\ UNCHANGED <<authed, closing, login, reconQueue, reconnect, caller, app, entitled>>

(* didReceiveError: another client has taken the resource.                 *)
Conflict ==
    /\ authed /\ ~closing /\ Happens("conflict")
    /\ closing' = TRUE
    /\ reconQueue' = Append(reconQueue, "conflict")
    /\ entitled' = FALSE
    /\ UNCHANGED <<stream, authed, login, workQueue, reconnect, caller, app>>

(* socketDidDisconnect of a host that a name stands for, while another is  *)
(* left to try: the stream goes on opening, even if it was told to         *)
(* disconnect, and nobody hears of it. (Not told to, nothing changes.)     *)
NextHost ==
    /\ stream = "opening" /\ closing /\ Happens("nextHost")
    /\ closing' = FALSE
    /\ UNCHANGED <<stream, authed, login, workQueue, reconQueue, reconnect, caller, app,
                   entitled>>

(* socketDidDisconnect of the last one, be it asked for or not.            *)
SocketCloses ==
    /\ stream # "down"
    /\ \/ closing /\ UNCHANGED counters
       \/ ~closing /\ Happens("drop")
    /\ stream' = "down" /\ authed' = FALSE /\ closing' = FALSE
    /\ workQueue' = Append(workQueue, "didDisconnect")
    /\ reconQueue' = Append(reconQueue, "didDisconnect")
    /\ UNCHANGED <<login, reconnect, caller, app, entitled>>

-----------------------------------------------------------------------------
(* The manager's queue.                                                    *)

Note(n) == ~crashed /\ workQueue # <<>> /\ Head(workQueue) = n
Rest == Tail(workQueue)

SocketDidConnect ==
    /\ Note("socketDidConnect")
    /\ workQueue' = Rest
    /\ login' = "Connected"
    /\ UNCHANGED <<socket, reconQueue, reconnect, caller, app, counters, entitled>>

DidConnect ==
    /\ Note("didConnect")
    /\ workQueue' = Rest
    /\ Authenticate
    /\ login' = "Authenticating"
    /\ UNCHANGED <<authed, closing, reconQueue, reconnect, caller, app, counters, entitled>>

DidAuthenticate ==
    /\ Note("didAuthenticate")
    /\ workQueue' = Rest
    /\ login' = "Authenticated"
    /\ main' = Append(main, "goOnline")
    /\ UNCHANGED <<socket, reconQueue, reconnect, caller, active, wait, crashed, counters, entitled>>

DidNotAuthenticate ==
    /\ Note("didNotAuthenticate")
    /\ Disconnect(Rest)
    /\ main' = Append(main, "offline")
    /\ UNCHANGED <<login, reconnect, caller, active, wait, crashed, counters>>

(* Mutant: the status is left alone if the connection is being closed.     *)
DidDisconnectIfExpected ==
    /\ Note("didDisconnect")
    /\ workQueue' = Rest
    /\ login' = IF login = "Disconnecting" THEN "Disconnected" ELSE login
    /\ crashed' = (wait = "left")
    /\ wait' = IF wait = "waiting" THEN "left" ELSE wait
    /\ UNCHANGED <<socket, reconQueue, reconnect, caller, main, active, counters, entitled>>

(* Each assignment of the status runs the observer that disconnectAll left. *)
DidDisconnect ==
    /\ Note("didDisconnect")
    /\ workQueue' = Rest
    /\ login' = "Disconnected"
    /\ crashed' = (wait = "left")
    /\ wait' = IF wait = "waiting" THEN "left" ELSE wait
    /\ UNCHANGED <<socket, reconQueue, reconnect, caller, main, active, counters, entitled>>

(* didSendPresence, didFailToSendPresence: finishDisconnectingIfNeeded.    *)
PresenceSent ==
    /\ Note("presence")
    /\ IF login = "Disconnecting" THEN Disconnect(Rest)
       ELSE workQueue' = Rest /\ UNCHANGED <<socket, reconQueue, entitled>>
    /\ UNCHANGED <<login, reconnect, caller, app, counters>>

(* The blocks of goAway and goOffline, once they have the date.            *)
SendPresence ==
    /\ Note("away") \/ Note("offline")
    /\ workQueue' = Append(Rest, "presence")
    /\ UNCHANGED <<socket, login, reconQueue, reconnect, caller, app, counters, entitled>>

(* Another part of the app sends a presence, to join a room, say.          *)
OtherPresence ==
    /\ ~crashed /\ Happens("presence")
    /\ workQueue' = Append(workQueue, "presence")
    /\ UNCHANGED <<socket, login, reconQueue, reconnect, caller, app, entitled>>

ManagerStep == SocketDidConnect \/ DidConnect \/ DidAuthenticate \/ DidNotAuthenticate
               \/ DidDisconnect \/ PresenceSent \/ SendPresence

-----------------------------------------------------------------------------
(* connectUserInitiated, on a thread of its caller.                        *)

(* The check; the app's login after it came to the foreground, the message *)
(* queue's login, or the user's.                                           *)
Connect ==
    /\ ~crashed /\ caller = "idle"
    /\ connects < MaxConnects /\ connects' = connects + 1
    /\ IF stream = "connected" /\ authed
       THEN main' = Append(main, "goOnline") /\ UNCHANGED caller
       ELSE caller' = "start" /\ UNCHANGED main
    /\ UNCHANGED <<socket, login, workQueue, reconQueue, reconnect, active, wait, crashed, events,
                   entitled>>

StartConnection ==
    /\ ~crashed /\ caller = "start"
    /\ caller' = "connecting"
    /\ login' = "Connecting"
    /\ UNCHANGED <<socket, workQueue, reconQueue, reconnect, app, counters, entitled>>

(* The stream is opened, unless its name or address cannot be used, or if  *)
(* it is not down, authenticated.                                          *)
OpenOrAuthenticate ==
    /\ ~crashed /\ caller = "connecting"
    /\ caller' = "idle"
    /\ \/ stream = "down" /\ Open /\ UNCHANGED counters
       \/ stream = "down" /\ Happens("noHost") /\ UNCHANGED stream
       \/ stream # "down" /\ Authenticate /\ UNCHANGED counters
    /\ UNCHANGED <<authed, closing, login, workQueue, reconQueue, reconnect, app, entitled>>

-----------------------------------------------------------------------------
(* XMPPReconnect, on its queue.                                            *)

Told(n) == ~crashed /\ reconQueue # <<>> /\ Head(reconQueue) = n /\ reconQueue' = Tail(reconQueue)

(* Mutant: an opened stream forgets that a drop is to be healed.           *)
ReconnectDidConnectAsStop ==
    /\ Told("didConnect")
    /\ should' = FALSE /\ restart' = FALSE /\ timer' = FALSE /\ retry' = FALSE
    /\ UNCHANGED <<querying, deciding>>

(* The flag shouldReconnect stays as the last authentication has left it.  *)
ReconnectDidConnect ==
    /\ Told("didConnect")
    /\ restart' = FALSE /\ timer' = FALSE /\ retry' = FALSE
    /\ UNCHANGED <<should, querying, deciding>>

ReconnectDidAuthenticate ==
    /\ Told("didAuthenticate")
    /\ should' = TRUE
    /\ UNCHANGED <<restart, querying, timer, retry, deciding>>

ReconnectConflict ==
    /\ Told("conflict")
    /\ should' = FALSE
    /\ UNCHANGED <<restart, querying, timer, retry, deciding>>

(* Mutant: the flag stays.                                                 *)
StopTimerOnly ==
    /\ Told("toldToDisconnect")
    /\ restart' = FALSE /\ querying' = FALSE
    /\ timer' = FALSE /\ retry' = FALSE
    /\ UNCHANGED <<should, deciding>>

Stop ==
    /\ Told("toldToDisconnect")
    /\ should' = FALSE /\ restart' = FALSE /\ querying' = FALSE
    /\ timer' = FALSE /\ retry' = FALSE
    /\ UNCHANGED deciding

ReconnectDidDisconnect ==
    /\ Told("didDisconnect")
    /\ timer' = (timer \/ should)
    /\ retry' = (retry \/ restart)
    /\ UNCHANGED <<should, restart, querying, deciding>>

ReconnectHears ==
    /\ \/ ReconnectDidConnect \/ ReconnectDidAuthenticate \/ ReconnectConflict
       \/ Stop \/ ReconnectDidDisconnect
    /\ UNCHANGED <<socket, login, workQueue, caller, app, counters, entitled>>

(* maybeAttemptReconnect. An attempt that is still under way is aborted if *)
(* it is to be restarted; while a name is being resolved, without a word.  *)
MaybeAttempt ==
    IF ~should THEN UNCHANGED <<socket, querying, deciding, counters>>
    ELSE \/ /\ stream = "down" /\ ~querying
            /\ querying' = TRUE /\ deciding' = deciding + 1
            /\ UNCHANGED <<socket, counters>>
         \/ /\ stream \in {"down", "connected"} /\ ~(stream = "down" /\ ~querying)
            /\ UNCHANGED <<socket, querying, deciding, counters>>
         \/ /\ stream \notin {"down", "connected"} /\ restart' /\ Happens("slow")
            /\ \/ closing' = TRUE /\ UNCHANGED <<stream, authed>>
               \/ /\ stream = "opening"
                  /\ stream' = "down" /\ closing' = FALSE /\ UNCHANGED authed
            /\ UNCHANGED <<querying, deciding>>
         \/ /\ stream \notin {"down", "connected"} /\ ~restart'
            /\ UNCHANGED <<socket, querying, deciding, counters>>

(* The timer, or a change of the network, which is always watched when the *)
(* timer is set.                                                           *)
TimerFires ==
    /\ ~crashed /\ timer
    /\ restart' = TRUE
    /\ MaybeAttempt
    /\ UNCHANGED <<login, workQueue, reconQueue, should, timer, retry, caller, app, entitled>>

RetryFires ==
    /\ ~crashed /\ retry
    /\ retry' = FALSE
    /\ UNCHANGED restart
    /\ IF timer THEN MaybeAttempt ELSE UNCHANGED <<socket, querying, deciding, counters>>
    /\ UNCHANGED <<login, workQueue, reconQueue, should, timer, caller, app, entitled>>

(* The app answers no question of the module, which takes it for a yes.    *)
Attempt ==
    /\ ~crashed /\ deciding > 0
    /\ deciding' = deciding - 1
    /\ querying' = FALSE /\ restart' = FALSE
    /\ Open
    /\ UNCHANGED <<authed, closing, login, workQueue, reconQueue, should, timer, retry, caller,
                   app, counters, entitled>>

-----------------------------------------------------------------------------
(* The main thread: the app's life cycle, the user, and blocks.            *)

MainThread == ~crashed /\ wait = "no"

GoAway == IF Tor THEN <<>> ELSE <<"away">>

(* goOnline's block sends presence or goes away; the others fetch the date *)
(* of the last interaction and go on on the manager's queue.               *)
MainStep == LET block == Head(main) IN
    /\ MainThread /\ main # <<>>
    /\ IF block = "goOnline"
       THEN IF active
            THEN main' = Tail(main) /\ workQueue' = Append(workQueue, "presence")
            ELSE main' = Tail(main) \o GoAway /\ UNCHANGED workQueue
       ELSE main' = Tail(main) /\ workQueue' = Append(workQueue, block)
    /\ UNCHANGED <<socket, login, reconQueue, reconnect, caller, active, wait, crashed, counters,
                   entitled>>

EnterBackground ==
    /\ MainThread /\ active /\ Happens("background")
    /\ active' = FALSE
    /\ main' = main \o GoAway
    /\ UNCHANGED <<socket, login, workQueue, reconQueue, reconnect, caller, wait, crashed, entitled>>

BecomeActive ==
    /\ MainThread /\ ~active
    /\ active' = TRUE
    /\ UNCHANGED <<socket, login, workQueue, reconQueue, reconnect, caller, main, wait, crashed,
                   counters, entitled>>

(* The background task or fetch is over: disconnectAllAccountsSocketOnly   *)
(* watches the status and disconnects an authenticated account, which      *)
(* begins with a presence; then it waits.                                  *)
DisconnectAll ==
    /\ MainThread /\ ~active /\ login # "Disconnected" /\ Happens("expire")
    /\ wait' = "waiting"
    /\ IF login = "Authenticated"
       THEN login' = "Disconnecting" /\ main' = main \o GoAway
       ELSE UNCHANGED <<login, main>>
    /\ UNCHANGED <<socket, workQueue, reconQueue, reconnect, caller, active, crashed, entitled>>

WaitEnds ==
    /\ ~crashed /\ wait = "left"
    /\ wait' = "no"
    /\ UNCHANGED <<socket, login, workQueue, reconQueue, reconnect, caller, main, active, crashed,
                   counters, entitled>>

WaitTimesOut ==
    /\ ~crashed /\ wait = "waiting" /\ "timeout" \in Occurs
    /\ wait' = "no"
    /\ UNCHANGED <<socket, login, workQueue, reconQueue, reconnect, caller, main, active, crashed,
                   counters, entitled>>

(* The user logs out: disconnectSocketOnly with NO.                        *)
Logout ==
    /\ MainThread /\ active /\ login \notin {"Disconnected", "Disconnecting"} /\ Happens("logout")
    /\ main' = Append(main, "offline")
    /\ Disconnect(workQueue)
    /\ UNCHANGED <<login, reconnect, caller, active, wait, crashed>>

StreamStep == SocketConnects \/ StreamConnects \/ Authenticates

Next ==
    \/ StreamStep \/ NewTrust \/ RefusesAuthentication \/ Conflict \/ SocketCloses \/ NextHost
    \/ ManagerStep \/ OtherPresence
    \/ Connect \/ StartConnection \/ OpenOrAuthenticate
    \/ ReconnectHears \/ TimerFires \/ RetryFires \/ Attempt
    \/ MainStep \/ EnterBackground \/ BecomeActive \/ DisconnectAll \/ WaitEnds \/ WaitTimesOut
    \/ Logout

(* Queues are worked off, timers fire, threads run on; and the network     *)
(* works unless one of the bounded events says otherwise.                  *)
Fairness ==
    /\ WF_vars(StreamStep) /\ WF_vars(closing /\ SocketCloses)
    /\ WF_vars(ManagerStep) /\ WF_vars(ReconnectHears)
    /\ WF_vars(StartConnection) /\ WF_vars(OpenOrAuthenticate)
    /\ WF_vars(TimerFires) /\ WF_vars(RetryFires) /\ WF_vars(Attempt)
    /\ WF_vars(MainStep) /\ WF_vars(WaitEnds) /\ WF_vars(WaitTimesOut)

Spec == Init /\ [][Next]_vars
FairSpec == Spec /\ Fairness

-----------------------------------------------------------------------------
Counts ==
    /\ deciding \in Nat
    /\ events \in 0 .. MaxEvents /\ connects \in 0 .. MaxConnects

TypeOK ==
    /\ stream \in Streams /\ authed \in BOOLEAN /\ closing \in BOOLEAN
    /\ authed => stream \in {"connected", "authenticating"}
    /\ closing => stream # "down"
    /\ login \in Statuses
    /\ workQueue \in Seq(Notes) /\ reconQueue \in Seq(ReconnectNotes)
    /\ should \in BOOLEAN /\ restart \in BOOLEAN /\ querying \in BOOLEAN
    /\ timer \in BOOLEAN /\ retry \in BOOLEAN
    /\ caller \in {"idle", "start", "connecting"}
    /\ main \in Seq({"goOnline", "away", "offline"})
    /\ active \in BOOLEAN
    /\ wait \in {"no", "waiting", "left"}
    /\ crashed \in BOOLEAN
    /\ entitled \in BOOLEAN
    /\ Counts

(* Once the manager has heard everything, "Authenticated" means that the   *)
(* stream is, whatever connects, drops, refusals and disconnects overlap:  *)
(* the message queue hands stanzas to the stream on that word.             *)
StatusIsTrue == workQueue = <<>> /\ login = "Authenticated" => authed

(* Once the reconnect module has heard everything, its flag says exactly   *)
(* whether the account is to be connected; and while an account that is to *)
(* be has no opened stream, the timer is set and no attempt is held up by  *)
(* one that nobody decides any more.                                       *)
HealIsArmed == reconQueue = <<>> =>
    /\ should = entitled
    /\ entitled /\ stream \in {"down", "opening", "negotiating"} =>
         timer /\ (querying => deciding > 0)

(* The module begins no attempt on an account that was disconnected on     *)
(* purpose once it knows: what can connect it again behind the user's back *)
(* are the attempts whose delegates were being asked, and one under way    *)
(* that goes on with the next host.                                        *)
StopStands == [][~entitled /\ reconQueue = <<>> => deciding' <= deciding]_vars

(* An account that was authenticated and whose connection was not ended on *)
(* purpose is connected again, however often it drops, attempts fail or    *)
(* are aborted, and connects come in between.                              *)
AccidentHeals == entitled ~> (authed \/ ~entitled \/ crashed)

(* An account that was asked to disconnect while the main thread waits for *)
(* it does so: the wait ends without its timeout.                          *)
WaitIsAnswered == (wait = "waiting" /\ login = "Disconnecting") ~> (wait # "waiting")
=============================================================================
