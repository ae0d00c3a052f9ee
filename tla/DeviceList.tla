----------------------------- MODULE DeviceList -----------------------------
(***************************************************************************)
(* The account's OMEMO device list: a node on the server that every client *)
(* of the account overwrites as a whole. A client fetches the list when it *)
(* has authenticated, stores what it is told, and publishes the list again *)
(* with itself added if it is missing (OMEMOModule). Removing a device is  *)
(* a fetch, a filter and a publication.                                    *)
(*                                                                         *)
(* All clients run this program. Stanzas of one connection arrive in       *)
(* order; a lost connection takes those in flight with it, but not the     *)
(* table of outstanding requests, whose timers go on.                      *)
(***************************************************************************)
EXTENDS Naturals, Sequences

CONSTANTS
    Clients,    \* running clients, each standing for its device
    Old,        \* listed devices nobody uses any more
    MaxEvents   \* how many logins, removals, timeouts and refusals

ASSUME ListAssumption ==
    /\ Clients \cap Old = {}
    /\ MaxEvents \in Nat

Devices == Clients \cup Old

VARIABLES
    created,    \* the node exists on the server
    node,       \* the list it holds, {} before
    interested, \* clients the server sends the changes of the list to
    online,     \* clients with an authenticated stream
    toServer,   \* per client, the stanzas on their way
    toClient,
    tracked,    \* per client, the requests XMPPIDTracker remembers
    list,       \* per client, the rows: the list stored last, less removals
    asked,      \* per client, how many requests it has numbered
    events,     \* how many of these so far
    unconfirmed \* per client, its changes that the server has not taken;
                \* only the properties read it

server == <<created, node>>
wire   == <<toServer, toClient>>
vars == <<server, interested, online, wire, tracked, list, asked, events, unconfirmed>>

(* What a request's answer is for: the login, or the removal of a device.  *)
Requests == [id : Nat, why : {"login", "remove"}, device : Devices, late : BOOLEAN]

Fetch(n)      == [kind |-> "fetch", id |-> n, list |-> {}, changed |-> {}]
Hello(n)      == [kind |-> "hello", id |-> n, list |-> {}, changed |-> {}]
Publish(L, C) == [kind |-> "publish", id |-> 0, list |-> L, changed |-> C]
Result(n, L)  == [kind |-> "result", id |-> n, list |-> L]
Error(n)      == [kind |-> "error", id |-> n, list |-> {}]
Event(L)      == [kind |-> "event", id |-> 0, list |-> L]

Init ==
    /\ node \in {{}, Devices}
    /\ created = (node # {})
    /\ interested = {}
    /\ online = {}
    /\ toServer = [c \in Clients |-> <<>>]
    /\ toClient = [c \in Clients |-> <<>>]
    /\ tracked = [c \in Clients |-> {}]
    /\ list = [c \in Clients |-> {c}]
    /\ asked = [c \in Clients |-> 0]
    /\ events = 0
    /\ unconfirmed = [c \in Clients |-> {}]

Happens == events < MaxEvents /\ events' = events + 1

-----------------------------------------------------------------------------
(* The client.                                                             *)

(* XMPPStream.sendElement: without a connection the stanza is dropped.     *)
Send(c, stanzas) ==
    toServer' = IF c \in online THEN [toServer EXCEPT ![c] = @ \o stanzas] ELSE toServer

(* Mutants: the list is published whatever it holds; this device is added  *)
(* to the rows and not published.                                          *)
StoreAndPublish(c, L, changed) ==
    /\ list' = [list EXCEPT ![c] = L \cup {c}]
    /\ unconfirmed' = [unconfirmed EXCEPT ![c] = {}]
    /\ Send(c, <<Publish(L \cup {c}, changed)>>)

StoreOnly(c, L, changed) ==
    /\ list' = [list EXCEPT ![c] = L \cup {c}]
    /\ unconfirmed' = [unconfirmed EXCEPT ![c] = {}]
    /\ UNCHANGED toServer

(* processIncomingDeviceIds: store the list, add this device and publish   *)
(* the result if it was missing. changed: where it differs from the list   *)
(* the server last told.                                                   *)
StoreList(c, L, changed) ==
    /\ list' = [list EXCEPT ![c] = L \cup {c}]
    /\ unconfirmed' = [unconfirmed EXCEPT ![c] = {}]
    /\ Send(c, IF c \in L THEN <<>> ELSE <<Publish(L \cup {c}, changed)>>)

(* The block of a request: an own list that could not be fetched, be it    *)
(* for an error or a timeout, counts as empty; a removal is given up.      *)
Failed(c, r) ==
    \/ r.why = "login" /\ StoreList(c, {}, Devices)
    \/ r.why = "remove" /\ UNCHANGED <<list, unconfirmed, toServer>>

Answered(c, r, L) ==
    \/ r.why = "login" /\ StoreList(c, L, {c})
    \/ /\ r.why = "remove"
       /\ Send(c, <<Publish(L \ {r.device}, {r.device})>>)
       /\ UNCHANGED <<list, unconfirmed>>

(* Mutant: a request takes the identifier of the one before.               *)
TrackSameId(c, why, d) ==
    /\ UNCHANGED asked
    /\ tracked' = [tracked EXCEPT ![c] = @ \cup
         {[id |-> asked[c] + 1, why |-> why, device |-> d, late |-> FALSE]}]

(* fixElementId and XMPPIDTracker.addElement: a new identifier for each.   *)
Track(c, why, d) ==
    /\ asked' = [asked EXCEPT ![c] = @ + 1]
    /\ tracked' = [tracked EXCEPT ![c] = @ \cup
         {[id |-> asked[c] + 1, why |-> why, device |-> d, late |-> FALSE]}]

(* xmppStreamDidAuthenticate fetches the list. The presence that makes the *)
(* server send the list and its changes follows at once: Hello is both.    *)
Login(c) ==
    /\ c \notin online /\ Happens
    /\ online' = online \cup {c}
    /\ Track(c, "login", c)
    /\ toServer' = [toServer EXCEPT ![c] = <<Hello(asked[c] + 1)>>]
    /\ UNCHANGED <<server, interested, toClient, list, unconfirmed>>

(* removeDevice: the row goes at once, the node's entry with the answers.  *)
RemoveDevice(c, d) ==
    /\ d \in list[c] \ {c} /\ Happens
    /\ list' = [list EXCEPT ![c] = @ \ {d}]
    /\ unconfirmed' = [unconfirmed EXCEPT ![c] = @ \cup {d}]
    /\ Track(c, "remove", d)
    /\ Send(c, <<Fetch(asked[c] + 1)>>)
    /\ UNCHANGED <<server, interested, online, toClient>>

(* The timer of XMPPIDTracker runs the block without an answer and leaves  *)
(* the request in the table.                                               *)
Timeout(c) == \E r \in tracked[c] :
    /\ ~r.late /\ Happens
    /\ tracked' = [tracked EXCEPT ![c] = (@ \ {r}) \cup {[r EXCEPT !.late = TRUE]}]
    /\ Failed(c, r)
    /\ UNCHANGED <<server, interested, online, toClient, asked>>

Next1(c) == Head(toClient[c])
Took(c) == toClient' = [toClient EXCEPT ![c] = Tail(@)]

(* didReceiveIQ: the tracker runs the block, also one that has timed out.  *)
ReceiveAnswer(c) ==
    /\ toClient[c] # <<>> /\ Took(c)
    /\ \E r \in tracked[c] :
        /\ r.id = Next1(c).id
        /\ tracked' = [tracked EXCEPT ![c] = @ \ {r}]
        /\ \/ Next1(c).kind = "result" /\ Answered(c, r, Next1(c).list)
           \/ Next1(c).kind = "error" /\ Failed(c, r)
    /\ UNCHANGED <<server, interested, online, asked, events>>

(* didReceiveMessage: the server pushes a list.                            *)
ReceiveEvent(c) ==
    /\ toClient[c] # <<>> /\ Took(c)
    /\ Next1(c).kind = "event"
    /\ StoreList(c, Next1(c).list, {c})
    /\ UNCHANGED <<server, interested, online, tracked, asked, events>>

(* The connection breaks.                                                  *)
Drop(c) ==
    /\ c \in online
    /\ online' = online \ {c}
    /\ interested' = interested \ {c}
    /\ toServer' = [toServer EXCEPT ![c] = <<>>]
    /\ toClient' = [toClient EXCEPT ![c] = <<>>]
    /\ UNCHANGED <<server, tracked, list, asked, events, unconfirmed>>

-----------------------------------------------------------------------------
(* The server: a personal eventing node.                                   *)

Request(c, kind) ==
    /\ toServer[c] # <<>> /\ Head(toServer[c]).kind = kind
    /\ toServer' = [toServer EXCEPT ![c] = Tail(@)]

Reply(c, stanzas) == toClient' = [toClient EXCEPT ![c] = @ \o stanzas]

Answer(c) == IF created THEN Result(Head(toServer[c]).id, node) ELSE Error(Head(toServer[c]).id)
Pushed == IF created THEN <<Event(node)>> ELSE <<>>

ServeFetch(c) ==
    /\ Request(c, "fetch")
    /\ \/ Reply(c, <<Answer(c)>>) /\ UNCHANGED events
       \/ Happens /\ Reply(c, <<Error(Head(toServer[c]).id)>>)
    /\ UNCHANGED <<server, interested, online, tracked, list, asked, unconfirmed>>

ServeHello(c) ==
    /\ Request(c, "hello")
    /\ interested' = interested \cup {c}
    /\ \/ Reply(c, <<Answer(c)>> \o Pushed) /\ UNCHANGED events
       \/ Happens /\ Reply(c, <<Error(Head(toServer[c]).id)>> \o Pushed)
    /\ UNCHANGED <<server, online, tracked, list, asked, unconfirmed>>

ServePublish(c) ==
    /\ Request(c, "publish")
    /\ created' = TRUE
    /\ node' = Head(toServer[c]).list
    /\ toClient' = [i \in Clients |->
         IF i \in interested THEN Append(toClient[i], Event(node')) ELSE toClient[i]]
    /\ UNCHANGED <<interested, online, tracked, list, asked, events, unconfirmed>>

(* failedToPublishDeviceIds only logs.                                     *)
RefusePublish(c) ==
    /\ Request(c, "publish")
    /\ Happens
    /\ unconfirmed' = [unconfirmed EXCEPT ![c] = @ \cup Head(toServer[c]).changed]
    /\ UNCHANGED <<server, interested, online, toClient, tracked, list, asked>>

Serve(c) == ServeFetch(c) \/ ServeHello(c) \/ ServePublish(c) \/ RefusePublish(c)
Receive(c) == ReceiveAnswer(c) \/ ReceiveEvent(c)

Next == \E c \in Clients :
    \/ Login(c) \/ Drop(c) \/ Timeout(c) \/ Serve(c) \/ Receive(c)
    \/ \E d \in Devices : RemoveDevice(c, d)

(* The server works off each connection; the run loop handles what came.   *)
Fairness == \A c \in Clients : WF_vars(Serve(c)) /\ WF_vars(Receive(c))

Spec == Init /\ [][Next]_vars
FairSpec == Spec /\ Fairness

-----------------------------------------------------------------------------
ToServer == [kind : {"fetch", "hello", "publish"}, id : Nat,
             list : SUBSET Devices, changed : SUBSET Devices]
ToClient == [kind : {"result", "error", "event"}, id : Nat, list : SUBSET Devices]

TypeOK ==
    /\ created \in BOOLEAN
    /\ node \subseteq Devices
    /\ interested \subseteq online
    /\ online \subseteq Clients
    /\ toServer \in [Clients -> Seq(ToServer)]
    /\ toClient \in [Clients -> Seq(ToClient)]
    /\ tracked \in [Clients -> SUBSET Requests]
    /\ \A c \in Clients : \A r \in tracked[c] : r.id <= asked[c]
    /\ list \in [Clients -> SUBSET Devices]
    /\ asked \in [Clients -> Nat]
    /\ events \in 0 .. MaxEvents
    /\ unconfirmed \in [Clients -> SUBSET Devices]

Quiet == \A c \in Clients : toServer[c] = <<>> /\ toClient[c] = <<>>

(* Whoever is connected agrees with the server and is on its list once     *)
(* nothing is in flight, whatever was lost, timed out, answered late or    *)
(* overwritten before; only a change that the server refused or never got  *)
(* is missing.                                                             *)
QuietAgreement == Quiet => \A c \in online :
    /\ c \in node \cup unconfirmed[c]
    /\ list[c] \ unconfirmed[c] = node \ unconfirmed[c]

(* The clients do not answer each other's lists for ever: the traffic they *)
(* cause ends.                                                             *)
TrafficEnds == <>[]Quiet
=============================================================================
