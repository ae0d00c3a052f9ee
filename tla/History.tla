------------------------------ MODULE History ------------------------------
(***************************************************************************)
(* How an account's messages get into the database: live from the stream,  *)
(* as carbons of what its other clients send and receive, from the         *)
(* server's store of undelivered messages, and from the archive, which is  *)
(* asked at each login for what came after lastHistoryFetchDate            *)
(* (MessageStorage, XMPPMessageArchiveManagement, XMPPMessageCarbons).     *)
(*                                                                         *)
(* Three serial queues work on this: MessageStorage's module queue, the    *)
(* queue of the database's write connection, and OTRXMPPRoomManager's      *)
(* module queue. Each may wait for another.                                *)
(*                                                                         *)
(* Messages are numbered in the order of the archive. The number of        *)
(* messages archived so far serves as the time, so a date separates those  *)
(* archived before it from those after it. They are plain chat messages    *)
(* with a text: OTR text from the archive is ignored, and OMEMO messages   *)
(* are the coordinator's. What has been stored is not deleted.             *)
(***************************************************************************)
EXTENDS Integers, Sequences, FiniteSets

CONSTANTS
    Direct,      \* messages addressed to this client; it gets carbons of others
    Identified,  \* messages with a XEP-0359 id that is in the message itself
                 \* whichever way it comes, as the origin id is
    Strangers,   \* messages whose buddy is not in the database at first
    MaxMessages,
    MaxEvents    \* how often altogether the connection drops, the app restarts
                 \* and a room's archive is asked for

ASSUME HistoryAssumption ==
    /\ MaxMessages \in Nat /\ MaxEvents \in Nat
    /\ Direct \subseteq 1..MaxMessages
    /\ Identified \subseteq 1..MaxMessages
    /\ Strangers \subseteq 1..MaxMessages

VARIABLES
    sent,        \* messages in the server's archive: the time
    up,          \* the stream is authenticated
    unacked,     \* direct messages the server will deliver again
    asked,       \* archive queries under way: per query, the next message
    roomAsked,   \* queries for a room's archive under way
    failed,      \* history: an account's query of this connection was
                 \* refused, or will never be answered
    carbons,     \* XMPPMessageCarbons: off, asked, on; lost: an enable
                 \* request that is never answered is still tracked
    inbox,       \* stanzas on their way to MessageStorage's module queue
    blocks,      \* what the write connection has to run; its head is running
    msWaits,     \* MessageStorage's queue waits for the room manager's
    rmWaits,     \* the room manager's queue waits for the database
    fetching,    \* mamCatchupInProgress
    lastFetch,   \* lastHistoryFetchDate, or Never
    copies,      \* per message, its rows in the database
    strangers,   \* messages whose buddy is not in the database
    passed,      \* history: messages that were discarded for that, and those
                 \* older than a week when the archive was first asked
    cuts,        \* drops and restarts so far
    fetches      \* fetches of a room's archive so far

server == <<sent, unacked, asked, roomAsked, failed>>
stored == <<copies, strangers, passed>>
client == <<carbons, fetching, lastFetch, stored>>
vars == <<server, client, up, inbox, blocks, msWaits, rmWaits, cuts, fetches>>

Messages == 1..MaxMessages
Never == -1

(* A stanza or block; old: from a connection that is gone. Only the        *)
(* properties read that, and the two variables called history.             *)
Item(k, m) == [kind |-> k, m |-> m, old |-> FALSE]
Aged(s) == [i \in DOMAIN s |-> [s[i] EXCEPT !.old = TRUE]]

StanzaKinds == {"auth", "live", "late", "carbon", "mam", "fin", "roomMam"}
BlockKinds  == {"read", "live", "late", "carbon", "mam", "fin", "room"}
Stanzas == [kind : StanzaKinds, m : 0..MaxMessages, old : BOOLEAN]
Blocks  == [kind : BlockKinds, m : 0..MaxMessages, old : BOOLEAN]

Init ==
    /\ sent = 0
    /\ up = FALSE
    /\ unacked = {}
    /\ asked = <<>>
    /\ roomAsked = 0
    /\ failed = FALSE
    /\ carbons = "off"
    /\ inbox = <<>>
    /\ blocks = <<>>
    /\ msWaits = FALSE
    /\ rmWaits = FALSE
    /\ fetching = FALSE
    /\ lastFetch \in {Never, 0}
    /\ copies = [m \in Messages |-> 0]
    /\ strangers = Strangers
    /\ passed = {}
    /\ cuts = 0
    /\ fetches = 0

-----------------------------------------------------------------------------
(* The server and the connection.                                          *)

(* A message is archived, and delivered to this client if it is connected  *)
(* and the message is its own or carbons are on.                           *)
Archive ==
    /\ sent < MaxMessages
    /\ sent' = sent + 1
    /\ unacked' = unacked \cup (Direct \cap {sent'})
    /\ inbox' = IF ~up THEN inbox
                ELSE IF sent' \in Direct THEN Append(inbox, Item("live", sent'))
                ELSE IF carbons = "on" THEN Append(inbox, Item("carbon", sent'))
                ELSE inbox
    /\ UNCHANGED <<client, up, asked, roomAsked, failed, blocks, msWaits, rmWaits,
                   cuts, fetches>>

(* Stream management acknowledges what has been received.                  *)
Acknowledge ==
    /\ up
    /\ unacked' = unacked \cap {inbox[i].m : i \in DOMAIN inbox}
    /\ unacked' # unacked
    /\ UNCHANGED <<client, up, sent, asked, roomAsked, failed, inbox, blocks, msWaits,
                   rmWaits, cuts, fetches>>

(* xmppStreamDidAuthenticate of MessageStorage and of XMPPMessageCarbons;  *)
(* then come the messages not acknowledged, with the dates they had.       *)
Authenticate ==
    /\ ~up
    /\ up' = TRUE
    /\ carbons' = IF carbons = "off" THEN "asked" ELSE carbons
    /\ \E again \in [1..Cardinality(unacked) -> unacked] :
          /\ \A i, j \in DOMAIN again : i < j => again[i] < again[j]
          /\ inbox' = Append(inbox, Item("auth", 0))
                      \o [i \in DOMAIN again |-> Item("late", again[i])]
    /\ UNCHANGED <<server, fetching, lastFetch, stored, blocks, msWaits, rmWaits,
                   cuts, fetches>>

(* The server answers with a result, or refuses: then carbons stay off     *)
(* until the next login.                                                   *)
CarbonsAnswered ==
    /\ up
    /\ carbons = "asked"
    /\ carbons' \in {"on", "off"}
    /\ UNCHANGED <<server, fetching, lastFetch, stored, up, inbox, blocks, msWaits,
                   rmWaits, cuts, fetches>>

(* The connection drops: the client has received the first n stanzas, the  *)
(* rest are lost, and so are the queries. Nothing cancels the carbons'     *)
(* request, which has no timeout.                                          *)
Drop(n) ==
    /\ up
    /\ cuts + fetches < MaxEvents
    /\ cuts' = cuts + 1
    /\ up' = FALSE
    /\ msWaits => n > 0
    /\ inbox' = Aged(SubSeq(inbox, 1, n))
    /\ blocks' = Aged(blocks)
    /\ asked' = <<>>
    /\ roomAsked' = 0
    /\ failed' = FALSE
    /\ carbons' = CASE carbons = "on" -> "off" [] carbons = "asked" -> "lost" [] OTHER -> carbons
    /\ UNCHANGED <<sent, unacked, fetching, lastFetch, stored, msWaits, rmWaits, fetches>>

(* The process ends and starts again: only the database survives.          *)
Restart ==
    /\ cuts + fetches < MaxEvents
    /\ cuts' = cuts + 1
    /\ up' = FALSE
    /\ inbox' = <<>>
    /\ blocks' = <<>>
    /\ asked' = <<>>
    /\ roomAsked' = 0
    /\ failed' = FALSE
    /\ carbons' = "off"
    /\ msWaits' = FALSE
    /\ rmWaits' = FALSE
    /\ fetching' = FALSE
    /\ UNCHANGED <<sent, unacked, lastFetch, stored, fetches>>

(* Queries are answered in order, after the carbons' request, which was    *)
(* sent first: the messages that match, then "fin".                        *)
AnswerQuery ==
    /\ up
    /\ asked # <<>>
    /\ carbons # "asked"
    /\ IF Head(asked) <= sent
       THEN /\ inbox' = Append(inbox, Item("mam", Head(asked)))
            /\ asked' = [asked EXCEPT ![1] = @ + 1]
       ELSE /\ inbox' = Append(inbox, Item("fin", 0))
            /\ asked' = Tail(asked)
    /\ UNCHANGED <<client, up, sent, unacked, roomAsked, failed, blocks, msWaits,
                   rmWaits, cuts, fetches>>

(* A query is refused, or never answered. MessageStorage is told, of the   *)
(* latter after a minute, and does nothing: didFailToReceiveMessages is    *)
(* empty, and the flag stays. (An answer after that minute counts like any *)
(* other.)                                                                 *)
QueryFails ==
    /\ up
    /\ asked # <<>>
    /\ carbons # "asked"
    /\ asked' = Tail(asked)
    /\ failed' = TRUE
    /\ UNCHANGED <<client, up, sent, unacked, roomAsked, inbox, blocks, msWaits,
                   rmWaits, cuts, fetches>>

(* A room's archive is answered through the same module, with a message of *)
(* the room and a "fin" that looks like any other, or with nothing that    *)
(* MessageStorage would react to.                                          *)
AnswerRoom ==
    /\ up
    /\ roomAsked > 0
    /\ roomAsked' = roomAsked - 1
    /\ \/ inbox' = inbox \o <<Item("roomMam", 0), Item("fin", 0)>>
       \/ inbox' = inbox
    /\ UNCHANGED <<client, up, sent, unacked, asked, failed, blocks, msWaits, rmWaits,
                   cuts, fetches>>

-----------------------------------------------------------------------------
(* MessageStorage's module queue.                                          *)

(* The callback for the first stanza runs: afterwards it is gone.          *)
Receives(kinds) ==
    /\ ~msWaits
    /\ inbox # <<>>
    /\ Head(inbox).kind \in kinds
    /\ inbox' = Tail(inbox)

(* The block is queued behind the others.                                  *)
Queues(k) ==
    blocks' = Append(blocks, [Head(inbox) EXCEPT !.kind = k])

DidAuthenticate ==
    /\ Receives({"auth"})
    /\ fetching' = FALSE
    /\ Queues("read")
    /\ UNCHANGED <<server, up, carbons, lastFetch, stored, msWaits, rmWaits, cuts, fetches>>

(* handleDirectMessage and handleForwardedMessage: all the rest is in the  *)
(* block.                                                                  *)
ReceiveMessage ==
    /\ Receives({"live", "late", "carbon", "mam"})
    /\ Queues(Head(inbox).kind)
    /\ UNCHANGED <<server, client, up, msWaits, rmWaits, cuts, fetches>>

(* Mutant: the flag is left to the next login.                             *)
DidFinishReceivingKeepsFlag ==
    /\ Receives({"fin"})
    /\ Queues("fin")
    /\ UNCHANGED <<server, client, up, msWaits, rmWaits, cuts, fetches>>

(* didFinishReceivingMessages does not know whose archive it was.          *)
DidFinishReceiving ==
    /\ Receives({"fin"})
    /\ fetching' = FALSE
    /\ Queues("fin")
    /\ UNCHANGED <<server, up, carbons, lastFetch, stored, msWaits, rmWaits, cuts, fetches>>

(* A message from a room's archive: room(for:) waits for the room          *)
(* manager's queue.                                                        *)
AskForRoom ==
    /\ ~msWaits
    /\ inbox # <<>>
    /\ Head(inbox).kind = "roomMam"
    /\ msWaits' = TRUE
    /\ UNCHANGED <<server, client, up, inbox, blocks, rmWaits, cuts, fetches>>

-----------------------------------------------------------------------------
(* OTRXMPPRoomManager's module queue.                                      *)

(* A callback - login, a list of members, a subject, leaving - reads or    *)
(* writes the database and waits for it.                                   *)
CallDatabase ==
    /\ ~rmWaits
    /\ rmWaits' = TRUE
    /\ blocks' = Append(blocks, Item("room", 0))
    /\ UNCHANGED <<server, client, up, inbox, msWaits, cuts, fetches>>

(* On the main queue: the last list of a room has come, and the room's     *)
(* archive is asked for.                                                   *)
FetchRoomHistory ==
    /\ up
    /\ cuts + fetches < MaxEvents
    /\ fetches' = fetches + 1
    /\ roomAsked' = roomAsked + 1
    /\ UNCHANGED <<sent, unacked, asked, failed, client, up, inbox, blocks, msWaits,
                   rmWaits, cuts>>

(* roomForJID's block runs, and MessageStorage goes on: RoomStorage stores *)
(* the room's message.                                                     *)
AnswerRoomForJID ==
    /\ msWaits
    /\ ~rmWaits
    /\ msWaits' = FALSE
    /\ inbox' = Tail(inbox)
    /\ UNCHANGED <<server, client, up, blocks, rmWaits, cuts, fetches>>

-----------------------------------------------------------------------------
(* The queue of the write connection.                                      *)

Runs(kinds) ==
    /\ blocks # <<>>
    /\ Head(blocks).kind \in kinds
    /\ blocks' = Tail(blocks)

IsDuplicate(m) == m \in Identified /\ copies[m] > 0

(* Mutant: the date moves while the history is being fetched.              *)
UpdateLastFetchAnyway(date) ==
    /\ ~msWaits
    /\ lastFetch' = IF lastFetch # Never /\ date > lastFetch THEN date ELSE lastFetch

(* updateLastFetch: performBlock waits for MessageStorage's queue, and a   *)
(* date is only replaced by a newer one.                                   *)
UpdateLastFetch(date) ==
    /\ ~msWaits
    /\ lastFetch' = IF ~fetching /\ lastFetch # Never /\ date > lastFetch
                    THEN date ELSE lastFetch

(* The roster, a request or the user adds the buddy of a message.          *)
BuddyStored ==
    /\ \E m \in strangers : strangers' = strangers \ {m}
    /\ UNCHANGED <<server, up, inbox, blocks, carbons, fetching, lastFetch, copies,
                   passed, msWaits, rmWaits, cuts, fetches>>

(* A message whose buddy is not in the database: the block returns.        *)
DiscardMessage ==
    /\ Runs({"live", "late", "carbon", "mam"})
    /\ Head(blocks).m \in strangers
    /\ passed' = passed \cup {Head(blocks).m}
    /\ UNCHANGED <<server, up, inbox, carbons, fetching, lastFetch, copies, strangers,
                   msWaits, rmWaits, cuts, fetches>>

(* A message that came live, as a carbon or late. "Now" is when the block  *)
(* runs.                                                                   *)
SaveMessage ==
    /\ Runs({"live", "late", "carbon"})
    /\ Head(blocks).m \notin strangers
    /\ LET b == Head(blocks)
           date == IF b.kind = "late" THEN b.m ELSE sent
       IN  IF IsDuplicate(b.m)
           THEN UNCHANGED <<copies, lastFetch>>
           ELSE /\ copies' = [copies EXCEPT ![b.m] = @ + 1]
                /\ UpdateLastFetch(date)
    /\ UNCHANGED <<server, up, inbox, carbons, fetching, strangers, passed, msWaits,
                   rmWaits, cuts, fetches>>

(* Mutant: what the archive sends is taken as new.                         *)
SaveArchivedAsNew ==
    /\ Runs({"mam"})
    /\ Head(blocks).m \notin strangers
    /\ copies' = [copies EXCEPT ![Head(blocks).m] = @ + 1]
    /\ UNCHANGED <<server, up, inbox, carbons, fetching, lastFetch, strangers, passed,
                   msWaits, rmWaits, cuts, fetches>>

(* A message from the archive does not move the date.                      *)
SaveArchived ==
    /\ Runs({"mam"})
    /\ Head(blocks).m \notin strangers
    /\ LET m == Head(blocks).m
       IN  copies' = IF IsDuplicate(m) THEN copies ELSE [copies EXCEPT ![m] = @ + 1]
    /\ UNCHANGED <<server, up, inbox, carbons, fetching, lastFetch, strangers, passed,
                   msWaits, rmWaits, cuts, fetches>>

SaveFetchDate ==
    /\ Runs({"fin"})
    /\ lastFetch' = sent
    /\ UNCHANGED <<server, up, inbox, carbons, fetching, stored, msWaits, rmWaits,
                   cuts, fetches>>

(* The query leaves out the messages up to the date, or, when there is     *)
(* none, those older than a week.                                          *)
Ask(old) ==
    /\ IF lastFetch = Never THEN passed' = passed \cup 1..old
       ELSE old = lastFetch /\ passed' = passed
    /\ asked' = Append(asked, old + 1)

(* Mutant: the query waits for the next connection.                        *)
FetchHistoryAnyway ==
    /\ Runs({"read"})
    /\ ~msWaits
    /\ fetching' = TRUE
    /\ \E old \in 0..sent : Ask(old)
    /\ UNCHANGED <<sent, up, unacked, roomAsked, failed, inbox, carbons, lastFetch,
                   copies, strangers, msWaits, rmWaits, cuts, fetches>>

(* The block of xmppStreamDidAuthenticate: it asks MessageStorage's queue  *)
(* for the account, sets the flag there and sends the query, if there is a *)
(* stream to send it on.                                                   *)
FetchHistory ==
    /\ Runs({"read"})
    /\ ~msWaits
    /\ fetching' = TRUE
    /\ IF up THEN \E old \in 0..sent : Ask(old) ELSE UNCHANGED <<asked, passed>>
    /\ UNCHANGED <<sent, up, unacked, roomAsked, failed, inbox, carbons, lastFetch,
                   copies, strangers, msWaits, rmWaits, cuts, fetches>>

(* Mutant: the callback is not told that its block has run.                *)
RoomCallReturnsLate ==
    /\ Runs({"room"})
    /\ UNCHANGED <<server, client, up, inbox, msWaits, rmWaits, cuts, fetches>>

(* The room manager's block has run, and its callback goes on.             *)
RoomCallReturns ==
    /\ Runs({"room"})
    /\ rmWaits' = FALSE
    /\ UNCHANGED <<server, client, up, inbox, msWaits, cuts, fetches>>

-----------------------------------------------------------------------------
Storage == DidAuthenticate \/ ReceiveMessage \/ DidFinishReceiving \/ AskForRoom
Rooms   == CallDatabase \/ AnswerRoomForJID \/ FetchRoomHistory
Database == DiscardMessage \/ SaveMessage \/ SaveArchived \/ SaveFetchDate
            \/ FetchHistory \/ RoomCallReturns
Answers == CarbonsAnswered \/ AnswerQuery \/ QueryFails \/ AnswerRoom

Next ==
    \/ Archive \/ Acknowledge \/ Authenticate \/ Restart
    \/ \E n \in 0..Len(inbox) : Drop(n)
    \/ Answers \/ Storage \/ Rooms \/ BuddyStored \/ Database

Spec == Init /\ [][Next]_vars

(* The server answers, and the queues work. The room manager's is first    *)
(* in, first out: what waits there is not overtaken for ever.              *)
FairSpec == Spec /\ WF_vars(Answers) /\ WF_vars(Storage) /\ WF_vars(Database)
                 /\ SF_vars(AnswerRoomForJID)

-----------------------------------------------------------------------------
TypeOK ==
    /\ sent \in 0..MaxMessages
    /\ up \in BOOLEAN
    /\ unacked \subseteq Direct \cap 1..sent
    /\ asked \in Seq(1..MaxMessages + 1)
    /\ roomAsked \in Nat
    /\ failed \in BOOLEAN
    /\ carbons \in {"off", "asked", "on", "lost"}
    /\ inbox \in Seq(Stanzas)
    /\ blocks \in Seq(Blocks)
    /\ msWaits \in BOOLEAN
    /\ rmWaits \in BOOLEAN
    /\ fetching \in BOOLEAN
    /\ lastFetch \in {Never} \cup 0..sent
    /\ copies \in [Messages -> Nat]
    /\ strangers \subseteq Strangers
    /\ passed \subseteq Messages
    /\ cuts \in 0..MaxEvents
    /\ fetches \in 0..MaxEvents
    /\ ~up => asked = <<>> /\ ~failed /\ carbons \in {"off", "lost"}

(* A message that carries an id is stored once, whether it comes live, as  *)
(* a carbon, again after a lost acknowledgement, or from the archive.      *)
StoredOnce == \A m \in Identified : copies[m] <= 1

OnItsWay(m) ==
    \/ m \in unacked
    \/ \E i \in DOMAIN inbox : inbox[i].m = m
    \/ \E i \in DOMAIN blocks : blocks[i].m = m

(* Messages that no later fetch asks for, not stored and not on their way. *)
Gap == {m \in 1..sent : lastFetch >= m /\ copies[m] = 0 /\ ~OnItsWay(m)}

(* A step of which a gap may come: the connection or the process takes     *)
(* what was on its way; something received on an earlier connection moves  *)
(* the date; the "fin" of a room has cleared the flag while the account's  *)
(* own history is still being fetched, or could not be; carbons are off    *)
(* because the request was lost or refused.                                *)
KnownCause ==
    \/ up /\ ~up'
    \/ cuts' # cuts
    \/ blocks # <<>> /\ Head(blocks).old
    \/ /\ asked # <<>> \/ failed
       /\ ~fetching \/ (blocks # <<>> /\ Head(blocks).kind = "fin")
    \/ carbons = "lost" \/ (up /\ carbons = "off")

(* A message gets into the gap of a known cause, or because it was passed  *)
(* over: its buddy was not in the database, or it was older than a week    *)
(* when the archive was first asked.                                       *)
GapHasCause == [][Gap' \subseteq Gap \cup passed' \/ KnownCause]_vars

(* All three queues wait, each for the next one.                           *)
NeedsStorage(b) ==
    \/ b.kind = "read"
    \/ /\ b.kind \in {"live", "late", "carbon"}
       /\ b.m \notin strangers /\ ~IsDuplicate(b.m)
Locked == msWaits /\ rmWaits /\ blocks # <<>> /\ NeedsStorage(Head(blocks))

(* They cannot come to a standstill otherwise: MessageStorage's queue      *)
(* waits for a queue that is free or is itself served by the database,     *)
(* whose next block can run.                                               *)
OnlyLock == msWaits =>
    ~rmWaits \/ Locked \/ (blocks # <<>> /\ ~NeedsStorage(Head(blocks)))

(* On a connection the flag that stops the date is never left with nobody  *)
(* to clear it: a query is to be answered, or what clears the flag has     *)
(* come and is still to be handled. The exception is a query that failed.  *)
FlagHasEnd == up /\ fetching =>
    asked # <<>> \/ failed \/ \E i \in DOMAIN inbox : inbox[i].kind \in {"auth", "fin"}

(* Once the connection stays, the queries come to an end and the flag that *)
(* stops the date is cleared again, unless a query failed or the queues    *)
(* have locked each other.                                                 *)
CatchUpEnds ==
    <>[]up => <>Locked \/ []<>(asked = <<>> /\ (~fetching \/ failed))

(* "Executes block synchronously on moduleQueue": who waits for a module's *)
(* queue is served.                                                        *)
WaitIsServed == msWaits ~> ~msWaits
=============================================================================
