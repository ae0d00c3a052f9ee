-------------------------- MODULE DeviceListProofs --------------------------
(***************************************************************************)
(* Proofs about DeviceList, for any clients, unused devices and number of  *)
(* events.                                                                 *)
(***************************************************************************)
EXTENDS DeviceList, SequenceTheorems, TLAPS

(* A sequence and one more element.                                        *)
LEMMA OneMore ==
    ASSUME NEW S, NEW s \in Seq(S), NEW e \in S
    PROVE  /\ s \o <<e>> \in Seq(S) /\ s \o <<e>> = Append(s, e)
           /\ s \o <<>> = s /\ <<e>> \in Seq(S)
           /\ Append(s, e) \in Seq(S)
           /\ Len(s) \in Nat /\ Len(Append(s, e)) = Len(s) + 1
           /\ Append(s, e)[Len(s) + 1] = e
           /\ \A i \in 1 .. Len(s) : Append(s, e)[i] = s[i]
<1>1. /\ Append(s, e) \in Seq(S) /\ Len(s) \in Nat /\ Len(Append(s, e)) = Len(s) + 1
      /\ Append(s, e)[Len(s) + 1] = e
      /\ \A i \in 1 .. Len(s) : Append(s, e)[i] = s[i]
  BY AppendProperties
<1>2. <<e>> \in Seq(S) /\ <<>> \in Seq(S) /\ Len(<<e>>) = 1 /\ <<e>>[1] = e
  OBVIOUS
<1>3. s \o <<e>> = Append(s, e)
  OBVIOUS
<1>4. s \o <<>> = s
  BY ConcatEmptySeq
<1> QED BY <1>1, <1>2, <1>3, <1>4

(* What the head's removal leaves.                                         *)
LEMMA OneLess ==
    ASSUME NEW S, NEW s \in Seq(S), s # <<>>
    PROVE  /\ Head(s) \in S /\ Head(s) = s[1] /\ Tail(s) \in Seq(S)
           /\ Len(s) \in Nat /\ Len(s) > 0 /\ Len(Tail(s)) = Len(s) - 1
           /\ \A i \in 1 .. Len(s) - 1 : Tail(s)[i] = s[i + 1]
BY EmptySeq, HeadTailProperties

LEMMA Stanzas ==
    /\ \A n \in Nat : Fetch(n) \in ToServer /\ Hello(n) \in ToServer
    /\ \A L, C \in SUBSET Devices : Publish(L, C) \in ToServer
    /\ \A n \in Nat, L \in SUBSET Devices : Result(n, L) \in ToClient
    /\ \A n \in Nat : Error(n) \in ToClient
    /\ \A L \in SUBSET Devices : Event(L) \in ToClient
BY DEF Fetch, Hello, Publish, Result, Error, Event, ToServer, ToClient

-----------------------------------------------------------------------------
(* The operations of a client, as the actions use them.                    *)

LEMMA SendTyped ==
    ASSUME TypeOK, NEW c \in Clients, NEW e \in ToServer, NEW s \in {<<>>, <<e>>}, Send(c, s)
    PROVE  /\ toServer' \in [Clients -> Seq(ToServer)]
           /\ \A k \in Clients \ {c} : toServer'[k] = toServer[k]
           /\ toServer'[c] = IF c \in online /\ s # <<>> THEN Append(toServer[c], e)
                             ELSE toServer[c]
<1>1. toServer \in [Clients -> Seq(ToServer)]
  BY DEF TypeOK
<1>2. /\ toServer[c] \in Seq(ToServer)
      /\ toServer[c] \o s \in Seq(ToServer)
      /\ toServer[c] \o s = IF s # <<>> THEN Append(toServer[c], e) ELSE toServer[c]
  <2>1. toServer[c] \in Seq(ToServer) /\ <<e>> # <<>>
    BY <1>1
  <2>2. CASE s = <<>>
    BY <2>1, <2>2, OneMore
  <2>3. CASE s = <<e>>
    BY <2>1, <2>3, OneMore
  <2> QED BY <2>2, <2>3, <2>1
<1> QED BY <1>1, <1>2 DEF Send

LEMMA StoreListTyped ==
    ASSUME TypeOK, NEW c \in Clients, NEW L \in SUBSET Devices, NEW C \in SUBSET Devices,
           StoreList(c, L, C)
    PROVE  /\ list' \in [Clients -> SUBSET Devices]
           /\ unconfirmed' \in [Clients -> SUBSET Devices]
           /\ toServer' \in [Clients -> Seq(ToServer)]
           /\ \A k \in Clients \ {c} : /\ toServer'[k] = toServer[k]
                                       /\ list'[k] = list[k]
                                       /\ unconfirmed'[k] = unconfirmed[k]
           /\ list'[c] = L \cup {c} /\ unconfirmed'[c] = {}
           /\ toServer'[c] = IF c \in online /\ c \notin L
                             THEN Append(toServer[c], Publish(L \cup {c}, C))
                             ELSE toServer[c]
<1>1. c \in Devices /\ Publish(L \cup {c}, C) \in ToServer
  BY Stanzas DEF Devices
<1>2. /\ toServer' \in [Clients -> Seq(ToServer)]
      /\ \A k \in Clients \ {c} : toServer'[k] = toServer[k]
      /\ toServer'[c] = IF c \in online /\ c \notin L
                        THEN Append(toServer[c], Publish(L \cup {c}, C))
                        ELSE toServer[c]
  BY <1>1, SendTyped DEF StoreList
<1> QED BY <1>1, <1>2 DEF StoreList, TypeOK

(* Whatever a client does leaves the others' stanzas and rows alone.       *)
OnlyOf(c) ==
    /\ list' \in [Clients -> SUBSET Devices]
    /\ unconfirmed' \in [Clients -> SUBSET Devices]
    /\ toServer' \in [Clients -> Seq(ToServer)]
    /\ \A k \in Clients \ {c} : /\ toServer'[k] = toServer[k]
                                /\ list'[k] = list[k]
                                /\ unconfirmed'[k] = unconfirmed[k]

LEMMA FailedTyped ==
    ASSUME TypeOK, NEW c \in Clients, NEW r \in Requests, Failed(c, r)
    PROVE  OnlyOf(c)
<1>1. CASE StoreList(c, {}, Devices)
  BY <1>1, StoreListTyped DEF OnlyOf
<1>2. CASE UNCHANGED <<list, unconfirmed, toServer>>
  BY <1>2 DEF OnlyOf, TypeOK
<1> QED BY <1>1, <1>2 DEF Failed

LEMMA AnsweredTyped ==
    ASSUME TypeOK, NEW c \in Clients, NEW r \in Requests, NEW L \in SUBSET Devices,
           Answered(c, r, L)
    PROVE  OnlyOf(c)
<1>1. CASE StoreList(c, L, {c})
  <2>1. {c} \in SUBSET Devices
    BY DEF Devices
  <2> QED BY <1>1, <2>1, StoreListTyped DEF OnlyOf
<1>2. CASE /\ Send(c, <<Publish(L \ {r.device}, {r.device})>>)
           /\ UNCHANGED <<list, unconfirmed>>
  <2>1. Publish(L \ {r.device}, {r.device}) \in ToServer
    BY Stanzas DEF Requests
  <2> QED BY <1>2, <2>1, SendTyped DEF OnlyOf, TypeOK
<1> QED BY <1>1, <1>2 DEF Answered

(* A new request has a number no other request has.                        *)
LEMMA TrackTyped ==
    ASSUME TypeOK, NEW c \in Clients, NEW why \in {"login", "remove"}, NEW d \in Devices,
           Track(c, why, d)
    PROVE  /\ asked' \in [Clients -> Nat] /\ tracked' \in [Clients -> SUBSET Requests]
           /\ \A k \in Clients : \A r \in tracked'[k] : r.id <= asked'[k]
           /\ \A k \in Clients \ {c} : asked'[k] = asked[k] /\ tracked'[k] = tracked[k]
           /\ asked'[c] = asked[c] + 1
           /\ \A r \in tracked'[c] : r \in tracked[c] \/ (r.id = asked'[c] /\ r.why = why)
<1> DEFINE new == [id |-> asked[c] + 1, why |-> why, device |-> d, late |-> FALSE]
<1>1. asked \in [Clients -> Nat] /\ tracked \in [Clients -> SUBSET Requests]
      /\ \A k \in Clients : \A r \in tracked[k] : r.id <= asked[k]
  BY DEF TypeOK
<1>2. new \in Requests /\ new.id = asked[c] + 1 /\ new.why = why
  BY <1>1 DEF Requests
<1>3. asked' = [asked EXCEPT ![c] = @ + 1] /\ tracked' = [tracked EXCEPT ![c] = @ \cup {new}]
  BY DEF Track
<1> HIDE DEF new
<1>4. \A k \in Clients : \A r \in tracked[k] : r \in Requests /\ r.id \in Nat
  BY <1>1 DEF Requests
<1> QED BY <1>1, <1>2, <1>3, <1>4

-----------------------------------------------------------------------------
(* The types.                                                              *)

LEMMA InitTyped == Init => TypeOK
<1> SUFFICES ASSUME Init PROVE TypeOK
  OBVIOUS
<1>1. events \in 0 .. MaxEvents
  BY ListAssumption DEF ListAssumption, Init
<1>2. toServer \in [Clients -> Seq(ToServer)] /\ toClient \in [Clients -> Seq(ToClient)]
  BY DEF Init
<1>3. asked \in [Clients -> Nat]
  BY DEF Init
<1>4. list \in [Clients -> SUBSET Devices] /\ unconfirmed \in [Clients -> SUBSET Devices]
  BY DEF Init, Devices
<1>5. tracked \in [Clients -> SUBSET Requests] /\ \A c \in Clients : tracked[c] = {}
  BY DEF Init
<1>6. created \in BOOLEAN /\ node \subseteq Devices /\ interested \subseteq online
      /\ online \subseteq Clients
  BY DEF Init
<1> QED BY <1>1, <1>2, <1>3, <1>4, <1>5, <1>6 DEF TypeOK

LEMMA EventsCount ==
    ASSUME TypeOK, Happens \/ UNCHANGED events
    PROVE  events' \in 0 .. MaxEvents
BY ListAssumption DEF ListAssumption, TypeOK, Happens

LEMMA LoginTyped ==
    ASSUME TypeOK, NEW c \in Clients, Login(c)
    PROVE  TypeOK'
<1>1. events' \in 0 .. MaxEvents
  BY EventsCount DEF Login
<1>2. c \in Devices
  BY DEF Devices
<1>3. /\ asked' \in [Clients -> Nat] /\ tracked' \in [Clients -> SUBSET Requests]
      /\ \A k \in Clients : \A r \in tracked'[k] : r.id <= asked'[k]
  BY <1>2, TrackTyped DEF Login
<1>4. toServer' \in [Clients -> Seq(ToServer)]
  <2>1. asked[c] + 1 \in Nat /\ toServer \in [Clients -> Seq(ToServer)]
    BY DEF TypeOK
  <2>2. <<Hello(asked[c] + 1)>> \in Seq(ToServer)
    BY <2>1, Stanzas
  <2> QED BY <2>1, <2>2 DEF Login
<1>5. /\ UNCHANGED <<created, node, interested, toClient, list, unconfirmed>>
      /\ online' = online \cup {c}
  BY DEF Login, server
<1> QED BY <1>1, <1>3, <1>4, <1>5 DEF TypeOK

LEMMA RemoveTyped ==
    ASSUME TypeOK, NEW c \in Clients, NEW d \in Devices, RemoveDevice(c, d)
    PROVE  TypeOK'
<1>1. events' \in 0 .. MaxEvents
  BY EventsCount DEF RemoveDevice
<1>2. /\ asked' \in [Clients -> Nat] /\ tracked' \in [Clients -> SUBSET Requests]
      /\ \A k \in Clients : \A r \in tracked'[k] : r.id <= asked'[k]
  BY TrackTyped DEF RemoveDevice
<1>3. toServer' \in [Clients -> Seq(ToServer)]
  <2>1. asked[c] + 1 \in Nat
    BY DEF TypeOK
  <2>2. Fetch(asked[c] + 1) \in ToServer
    BY <2>1, Stanzas
  <2> QED BY <2>2, SendTyped DEF RemoveDevice
<1>4. /\ list' \in [Clients -> SUBSET Devices]
      /\ unconfirmed' \in [Clients -> SUBSET Devices]
  BY DEF RemoveDevice, TypeOK
<1>5. UNCHANGED <<created, node, interested, online, toClient>>
  BY DEF RemoveDevice, server
<1> QED BY <1>1, <1>2, <1>3, <1>4, <1>5 DEF TypeOK

LEMMA TimeoutTyped ==
    ASSUME TypeOK, NEW c \in Clients, Timeout(c)
    PROVE  TypeOK'
<1>1. PICK r \in tracked[c] :
        /\ Happens
        /\ tracked' = [tracked EXCEPT ![c] = (@ \ {r}) \cup {[r EXCEPT !.late = TRUE]}]
        /\ Failed(c, r)
        /\ UNCHANGED <<created, node, interested, online, toClient, asked>>
  BY DEF Timeout, server
<1>2. events' \in 0 .. MaxEvents
  BY <1>1, EventsCount
<1>3. tracked \in [Clients -> SUBSET Requests] /\ r \in Requests
  BY DEF TypeOK
<1>4. OnlyOf(c)
  BY <1>1, <1>3, FailedTyped
<1>5. /\ [r EXCEPT !.late = TRUE] \in Requests
      /\ [r EXCEPT !.late = TRUE].id = r.id
  BY <1>3 DEF Requests
<1>6. /\ tracked' \in [Clients -> SUBSET Requests]
      /\ \A k \in Clients : \A q \in tracked'[k] :
            q \in tracked[k] \/ (k = c /\ q = [r EXCEPT !.late = TRUE])
  BY <1>1, <1>3, <1>5
<1>7. \A k \in Clients : \A q \in tracked'[k] : q.id <= asked'[k]
  BY <1>1, <1>5, <1>6 DEF TypeOK
<1> QED BY <1>1, <1>2, <1>4, <1>6, <1>7 DEF TypeOK, OnlyOf

(* A client takes the next stanza.                                         *)
LEMMA TookTyped ==
    ASSUME TypeOK, NEW c \in Clients, toClient[c] # <<>>, Took(c)
    PROVE  /\ toClient' \in [Clients -> Seq(ToClient)]
           /\ toClient'[c] = Tail(toClient[c])
           /\ \A k \in Clients \ {c} : toClient'[k] = toClient[k]
           /\ Next1(c) \in ToClient /\ Next1(c) = toClient[c][1]
           /\ Next1(c).list \in SUBSET Devices
<1>1. toClient \in [Clients -> Seq(ToClient)] /\ toClient[c] \in Seq(ToClient)
  BY DEF TypeOK
<1>2. /\ Tail(toClient[c]) \in Seq(ToClient) /\ Next1(c) \in ToClient
      /\ Next1(c) = toClient[c][1]
  BY <1>1, OneLess DEF Next1
<1>3. Next1(c).list \in SUBSET Devices
  BY <1>2 DEF ToClient
<1> QED BY <1>1, <1>2, <1>3 DEF Took

LEMMA ReceiveTyped ==
    ASSUME TypeOK, NEW c \in Clients, Receive(c)
    PROVE  TypeOK'
<1>1. /\ toClient[c] # <<>> /\ Took(c)
      /\ UNCHANGED <<created, node, interested, online, asked, events>>
  BY DEF Receive, ReceiveAnswer, ReceiveEvent, server
<1>2. toClient' \in [Clients -> Seq(ToClient)] /\ Next1(c).list \in SUBSET Devices
  BY <1>1, TookTyped
<1>3. tracked \in [Clients -> SUBSET Requests] /\ c \in Devices
  BY DEF TypeOK, Devices
<1>4. CASE ReceiveAnswer(c)
  <2>1. PICK r \in tracked[c] :
          /\ tracked' = [tracked EXCEPT ![c] = @ \ {r}]
          /\ Answered(c, r, Next1(c).list) \/ Failed(c, r)
    BY <1>4 DEF ReceiveAnswer
  <2>2. r \in Requests
    BY <1>3
  <2>3. OnlyOf(c)
    BY <1>2, <2>1, <2>2, AnsweredTyped, FailedTyped
  <2>4. /\ tracked' \in [Clients -> SUBSET Requests]
        /\ \A k \in Clients : tracked'[k] \subseteq tracked[k]
    BY <1>3, <2>1
  <2>5. \A k \in Clients : \A q \in tracked'[k] : q.id <= asked'[k]
    BY <1>1, <2>4 DEF TypeOK
  <2> QED BY <1>1, <1>2, <2>3, <2>4, <2>5 DEF TypeOK, OnlyOf
<1>5. CASE ReceiveEvent(c)
  <2>1. StoreList(c, Next1(c).list, {c}) /\ UNCHANGED tracked
    BY <1>5 DEF ReceiveEvent
  <2>2. {c} \in SUBSET Devices /\ Next1(c).list \in SUBSET Devices
    BY <1>2, <1>3
  <2>3. OnlyOf(c)
    <3> DEFINE L == Next1(c).list
    <3> HIDE DEF L
    <3>1. StoreList(c, L, {c}) /\ L \in SUBSET Devices
      BY <2>1, <2>2 DEF L
    <3> QED BY <2>2, <3>1, StoreListTyped DEF OnlyOf
  <2> QED BY <1>1, <1>2, <2>1, <2>3 DEF TypeOK, OnlyOf
<1> QED BY <1>4, <1>5 DEF Receive

LEMMA DropTyped ==
    ASSUME TypeOK, NEW c \in Clients, Drop(c)
    PROVE  TypeOK'
<1>1. /\ UNCHANGED <<created, node, tracked, list, asked, events, unconfirmed>>
      /\ online' = online \ {c} /\ interested' = interested \ {c}
  BY DEF Drop, server
<1>2. toServer' \in [Clients -> Seq(ToServer)] /\ toClient' \in [Clients -> Seq(ToClient)]
  BY DEF Drop, TypeOK
<1> QED BY <1>1, <1>2 DEF TypeOK

(* The head of what a client has sent, and what the rest is.               *)
LEMMA RequestTyped ==
    ASSUME TypeOK, NEW c \in Clients, NEW kind, Request(c, kind)
    PROVE  /\ toServer[c] # <<>> /\ toServer[c] \in Seq(ToServer)
           /\ toServer' \in [Clients -> Seq(ToServer)]
           /\ toServer'[c] = Tail(toServer[c])
           /\ \A k \in Clients \ {c} : toServer'[k] = toServer[k]
           /\ Head(toServer[c]) \in ToServer /\ Head(toServer[c]) = toServer[c][1]
           /\ Head(toServer[c]).kind = kind
           /\ Head(toServer[c]).list \in SUBSET Devices
           /\ Head(toServer[c]).changed \in SUBSET Devices
<1>1. toServer \in [Clients -> Seq(ToServer)] /\ toServer[c] \in Seq(ToServer)
  BY DEF TypeOK
<1>2. /\ toServer[c] # <<>> /\ Head(toServer[c]).kind = kind
      /\ toServer' = [toServer EXCEPT ![c] = Tail(@)]
  BY DEF Request
<1>3. /\ Tail(toServer[c]) \in Seq(ToServer) /\ Head(toServer[c]) \in ToServer
      /\ Head(toServer[c]) = toServer[c][1]
  BY <1>1, <1>2, OneLess
<1>4. Head(toServer[c]).list \in SUBSET Devices /\ Head(toServer[c]).changed \in SUBSET Devices
  BY <1>3 DEF ToServer
<1> QED BY <1>1, <1>2, <1>3, <1>4

LEMMA AnswerTyped ==
    ASSUME TypeOK, NEW c \in Clients, NEW kind, Request(c, kind)
    PROVE  /\ Answer(c) \in ToClient /\ Error(Head(toServer[c]).id) \in ToClient
           /\ Event(node) \in ToClient
<1>1. Head(toServer[c]) \in ToServer
  BY RequestTyped
<1>2. Head(toServer[c]).id \in Nat /\ node \in SUBSET Devices
  BY <1>1 DEF ToServer, TypeOK
<1> QED BY <1>2, Stanzas DEF Answer

LEMMA ReplyTyped ==
    ASSUME TypeOK, NEW c \in Clients, NEW s \in Seq(ToClient), Reply(c, s)
    PROVE  /\ toClient' \in [Clients -> Seq(ToClient)]
           /\ toClient'[c] = toClient[c] \o s
           /\ \A k \in Clients \ {c} : toClient'[k] = toClient[k]
<1>1. toClient \in [Clients -> Seq(ToClient)] /\ toClient[c] \in Seq(ToClient)
  BY DEF TypeOK
<1>2. toClient[c] \o s \in Seq(ToClient)
  BY <1>1, ConcatProperties
<1> QED BY <1>1, <1>2 DEF Reply

LEMMA ServeFetchTyped ==
    ASSUME TypeOK, NEW c \in Clients, ServeFetch(c)
    PROVE  TypeOK'
<1>1. /\ Request(c, "fetch")
      /\ UNCHANGED <<created, node, interested, online, tracked, list, asked, unconfirmed>>
  BY DEF ServeFetch, server
<1>2. events' \in 0 .. MaxEvents
  BY EventsCount DEF ServeFetch
<1>3. PICK a \in ToClient : Reply(c, <<a>>)
  BY <1>1, AnswerTyped DEF ServeFetch
<1>4. <<a>> \in Seq(ToClient)
  OBVIOUS
<1>5. toClient' \in [Clients -> Seq(ToClient)]
  BY <1>3, <1>4, ReplyTyped
<1>6. toServer' \in [Clients -> Seq(ToServer)]
  BY <1>1, RequestTyped
<1> QED BY <1>1, <1>2, <1>5, <1>6 DEF TypeOK

LEMMA ServeHelloTyped ==
    ASSUME TypeOK, NEW c \in Clients, ServeHello(c), c \in online
    PROVE  TypeOK'
<1>1. /\ Request(c, "hello") /\ interested' = interested \cup {c}
      /\ UNCHANGED <<created, node, online, tracked, list, asked, unconfirmed>>
  BY DEF ServeHello, server
<1>2. events' \in 0 .. MaxEvents
  BY EventsCount DEF ServeHello
<1>3. PICK a \in ToClient : Reply(c, <<a>> \o Pushed)
  BY <1>1, AnswerTyped DEF ServeHello
<1>4. <<a>> \o Pushed \in Seq(ToClient)
  <2>1. <<a>> \in Seq(ToClient) /\ Pushed \in Seq(ToClient)
    BY <1>1, AnswerTyped DEF Pushed
  <2> QED BY <2>1, ConcatProperties
<1>5. toClient' \in [Clients -> Seq(ToClient)]
  BY <1>3, <1>4, ReplyTyped
<1>6. toServer' \in [Clients -> Seq(ToServer)]
  BY <1>1, RequestTyped
<1> QED BY <1>1, <1>2, <1>5, <1>6 DEF TypeOK

LEMMA ServePublishTyped ==
    ASSUME TypeOK, NEW c \in Clients, ServePublish(c)
    PROVE  /\ TypeOK'
           /\ \A k \in Clients : toClient'[k] = IF k \in interested
                                                THEN Append(toClient[k], Event(node'))
                                                ELSE toClient[k]
<1>1. /\ Request(c, "publish") /\ created' = TRUE /\ node' = Head(toServer[c]).list
      /\ UNCHANGED <<interested, online, tracked, list, asked, events, unconfirmed>>
      /\ toClient' = [k \in Clients |-> IF k \in interested
                                        THEN Append(toClient[k], Event(node'))
                                        ELSE toClient[k]]
  BY DEF ServePublish
<1>2. node' \in SUBSET Devices /\ toServer' \in [Clients -> Seq(ToServer)]
  BY <1>1, RequestTyped
<1>3. Event(node') \in ToClient
  BY <1>2, Stanzas
<1>4. \A k \in Clients : /\ toClient[k] \in Seq(ToClient)
                         /\ Append(toClient[k], Event(node')) \in Seq(ToClient)
  <2> SUFFICES ASSUME NEW k \in Clients
               PROVE  /\ toClient[k] \in Seq(ToClient)
                      /\ Append(toClient[k], Event(node')) \in Seq(ToClient)
    OBVIOUS
  <2>1. toClient[k] \in Seq(ToClient)
    BY DEF TypeOK
  <2> QED BY <1>3, <2>1, OneMore
<1>5. toClient' \in [Clients -> Seq(ToClient)]
  BY <1>1, <1>4
<1> QED BY <1>1, <1>2, <1>5 DEF TypeOK

LEMMA RefusePublishTyped ==
    ASSUME TypeOK, NEW c \in Clients, RefusePublish(c)
    PROVE  TypeOK'
<1>1. /\ Request(c, "publish")
      /\ unconfirmed' = [unconfirmed EXCEPT ![c] = @ \cup Head(toServer[c]).changed]
      /\ UNCHANGED <<created, node, interested, online, toClient, tracked, list, asked>>
  BY DEF RefusePublish, server
<1>2. events' \in 0 .. MaxEvents
  BY EventsCount DEF RefusePublish
<1>3. toServer' \in [Clients -> Seq(ToServer)] /\ Head(toServer[c]).changed \in SUBSET Devices
  BY <1>1, RequestTyped
<1>4. unconfirmed' \in [Clients -> SUBSET Devices]
  BY <1>1, <1>3 DEF TypeOK
<1> QED BY <1>1, <1>2, <1>3, <1>4 DEF TypeOK

-----------------------------------------------------------------------------
(* The inductive invariant.                                                *)

(* What the server may not have taken: a refused change, or one on its way.*)
Pending(c) == {d \in Devices :
    d \in unconfirmed[c] \/ \E i \in 1 .. Len(toServer[c]) : d \in toServer[c][i].changed}

Agrees(c) ==
    /\ c \in node \cup Pending(c)
    /\ list[c] \ Pending(c) = node \ Pending(c)

(* An answer with this number belongs to the fetch of a login, if any.     *)
OwnAnswer(c, n) == n <= asked[c] /\ \A r \in tracked[c] : r.id = n => r.why = "login"

(* A client that disagrees will soon store a list: the server's, which it  *)
(* has been sent, or the empty one.                                        *)
Told(c) == \E i \in 1 .. Len(toClient[c]) : toClient[c][i].kind = "event"
Stale(c) == \E i \in 1 .. Len(toClient[c]) :
    toClient[c][i].kind = "error" /\ OwnAnswer(c, toClient[c][i].id)

(* The last list on the way to a client is the server's.                   *)
Current(c) == \A i \in 1 .. Len(toClient[c]) :
    \/ toClient[c][i].kind = "error"
    \/ toClient[c][i].list = node
    \/ \E j \in i + 1 .. Len(toClient[c]) : toClient[c][j].kind = "event"

(* A connection begins with its hello.                                     *)
Greets(c) == \A i \in 1 .. Len(toServer[c]) :
    /\ toServer[c][i].kind = "hello" =>
         i = 1 /\ c \notin interested /\ OwnAnswer(c, toServer[c][i].id)
    /\ toServer[c][i].kind # "publish" => toServer[c][i].changed = {}

Opens(c) ==
    /\ c \notin online => toServer[c] = <<>>
    /\ c \in online \ interested => toServer[c] # <<>> /\ Head(toServer[c]).kind = "hello"

Follows(c) ==
    /\ c \notin interested => toClient[c] = <<>>
    /\ c \in interested => Told(c) \/ Agrees(c) \/ Stale(c)

Connected(c) == Greets(c) /\ Opens(c) /\ Current(c) /\ Follows(c)

IndInv == TypeOK /\ \A c \in Clients : Connected(c)

LEMMA InitInv == Init => IndInv
<1> SUFFICES ASSUME Init PROVE IndInv
  OBVIOUS
<1>1. TypeOK
  BY InitTyped
<1>2. ASSUME NEW c \in Clients PROVE Connected(c)
  <2>1. toServer[c] = <<>> /\ toClient[c] = <<>> /\ c \notin online /\ c \notin interested
    BY <1>2 DEF Init
  <2> QED BY <2>1 DEF Connected, Greets, Opens, Current, Follows
<1> QED BY <1>1, <1>2 DEF IndInv

(* A step that does not touch what a client's part speaks of.              *)
LEMMA Untouched ==
    ASSUME NEW k, Connected(k), node' = node,
           (k \in interested') = (k \in interested), (k \in online') = (k \in online),
           toServer'[k] = toServer[k], toClient'[k] = toClient[k],
           tracked'[k] = tracked[k], list'[k] = list[k], asked'[k] = asked[k],
           unconfirmed'[k] = unconfirmed[k]
    PROVE  Connected(k)'
<1>1. Greets(k)'
  BY DEF Connected, Greets, OwnAnswer
<1>2. Opens(k)'
  BY DEF Connected, Opens
<1>3. Current(k)'
  BY DEF Connected, Current
<1>4. Follows(k)'
  BY DEF Connected, Follows, Told, Agrees, Stale, OwnAnswer, Pending
<1> QED BY <1>1, <1>2, <1>3, <1>4 DEF Connected

(* The requests known before keep their purpose, new ones have new numbers.*)
Older(c) ==
    /\ asked'[c] \in Nat /\ asked'[c] >= asked[c]
    /\ \A r \in tracked'[c] : r.id > asked[c]
                              \/ \E q \in tracked[c] : q.id = r.id /\ q.why = r.why

OwnAnswerNext(c, n) == n <= asked'[c] /\ \A r \in tracked'[c] : r.id = n => r.why = "login"

LEMMA OwnKept ==
    ASSUME TypeOK, NEW c \in Clients, Older(c), NEW n \in Nat, OwnAnswer(c, n)
    PROVE  OwnAnswerNext(c, n)
<1>1. asked[c] \in Nat /\ asked'[c] \in Nat
  BY DEF TypeOK, Older
<1>2. n <= asked'[c]
  BY <1>1 DEF Older, OwnAnswer
<1>3. ASSUME NEW r \in tracked'[c], r.id = n PROVE r.why = "login"
  <2>1. ~(r.id > asked[c])
    BY <1>1, <1>3 DEF OwnAnswer
  <2>2. PICK q \in tracked[c] : q.id = r.id /\ q.why = r.why
    BY <1>3, <2>1 DEF Older
  <2> QED BY <1>3, <2>2 DEF OwnAnswer
<1> QED BY <1>2, <1>3 DEF OwnAnswerNext

(* What a client sends while its part of the server stays as it is.        *)
Says(c) ==
    /\ interested' = interested /\ online' = online /\ node' = node
    /\ \/ toServer'[c] = toServer[c]
       \/ /\ c \in online
          /\ \E e \in ToServer : /\ e.kind # "hello"
                                 /\ e.kind # "publish" => e.changed = {}
                                 /\ toServer'[c] = Append(toServer[c], e)

LEMMA SaysKept ==
    ASSUME TypeOK, NEW c \in Clients, Greets(c), Opens(c), Says(c), Older(c)
    PROVE  Greets(c)' /\ Opens(c)'
<1>1. toServer[c] \in Seq(ToServer)
  BY DEF TypeOK
<1>2. \A i \in 1 .. Len(toServer[c]) : toServer[c][i].id \in Nat
  <2>1. \A i \in 1 .. Len(toServer[c]) : toServer[c][i] \in ToServer
    BY <1>1, ElementOfSeq
  <2> QED BY <2>1 DEF ToServer
<1>3. \A i \in 1 .. Len(toServer[c]) :
        OwnAnswer(c, toServer[c][i].id) => OwnAnswerNext(c, toServer[c][i].id)
  BY <1>2, OwnKept
<1>4. \A i \in 1 .. Len(toServer[c]) :
        /\ toServer[c][i].kind = "hello" =>
             i = 1 /\ c \notin interested' /\ OwnAnswerNext(c, toServer[c][i].id)
        /\ toServer[c][i].kind # "publish" => toServer[c][i].changed = {}
  BY <1>3 DEF Greets, Says
<1>5. CASE toServer'[c] = toServer[c]
  <2>1. Greets(c)'
    BY <1>4, <1>5 DEF Greets, OwnAnswer, OwnAnswerNext
  <2>2. Opens(c)'
    BY <1>5 DEF Opens, Says
  <2> QED BY <2>1, <2>2
<1>6. CASE toServer'[c] # toServer[c]
  <2>1. PICK e \in ToServer : /\ c \in online /\ e.kind # "hello"
                              /\ e.kind # "publish" => e.changed = {}
                              /\ toServer'[c] = Append(toServer[c], e)
    BY <1>6 DEF Says
  <2>2. /\ toServer'[c] \in Seq(ToServer) /\ Len(toServer[c]) \in Nat
        /\ Len(toServer'[c]) = Len(toServer[c]) + 1
        /\ toServer'[c][Len(toServer[c]) + 1] = e
        /\ \A i \in 1 .. Len(toServer[c]) : toServer'[c][i] = toServer[c][i]
    BY <1>1, <2>1, OneMore
  <2>3. Greets(c)'
    <3> SUFFICES ASSUME NEW i \in 1 .. Len(toServer'[c])
                 PROVE  /\ toServer'[c][i].kind = "hello" =>
                            i = 1 /\ c \notin interested' /\ OwnAnswerNext(c, toServer'[c][i].id)
                        /\ toServer'[c][i].kind # "publish" => toServer'[c][i].changed = {}
      BY DEF Greets, OwnAnswer, OwnAnswerNext
    <3>1. i \in 1 .. Len(toServer[c]) \/ i = Len(toServer[c]) + 1
      BY <2>2
    <3>2. CASE i \in 1 .. Len(toServer[c])
      BY <1>4, <2>2, <3>2
    <3>3. CASE i = Len(toServer[c]) + 1
      BY <2>1, <2>2, <3>3
    <3> QED BY <3>1, <3>2, <3>3
  <2>4. toServer'[c] # <<>>
    BY <2>2, EmptySeq
  <2>5. toServer[c] # <<>> => Head(toServer'[c]) = Head(toServer[c])
    <3> HAVE toServer[c] # <<>>
    <3>1. 1 \in 1 .. Len(toServer[c])
      BY <1>1, <2>2, EmptySeq
    <3> QED BY <1>1, <2>2, <2>4, <3>1, HeadTailProperties
  <2>6. Opens(c)'
    BY <2>1, <2>4, <2>5 DEF Opens, Says
  <2> QED BY <2>3, <2>6
<1> QED BY <1>5, <1>6

(* No change is forgotten by sending more.                                 *)
LEMMA PendingGrows ==
    ASSUME TypeOK, NEW c \in Clients, Says(c), unconfirmed[c] \subseteq unconfirmed'[c]
    PROVE  Pending(c) \subseteq Pending(c)'
<1>1. toServer[c] \in Seq(ToServer)
  BY DEF TypeOK
<1>2. CASE toServer'[c] = toServer[c]
  BY <1>2 DEF Pending
<1>3. CASE toServer'[c] # toServer[c]
  <2>1. PICK e \in ToServer : toServer'[c] = Append(toServer[c], e)
    BY <1>3 DEF Says
  <2>2. /\ Len(toServer[c]) \in Nat /\ Len(toServer'[c]) = Len(toServer[c]) + 1
        /\ \A i \in 1 .. Len(toServer[c]) : toServer'[c][i] = toServer[c][i]
    BY <1>1, <2>1, OneMore
  <2>3. \A i \in 1 .. Len(toServer[c]) : i \in 1 .. Len(toServer'[c])
    BY <2>2
  <2> QED BY <2>2, <2>3 DEF Pending
<1> QED BY <1>2, <1>3

LEMMA AgreesKept ==
    ASSUME NEW c \in Clients, node' = node, list'[c] = list[c], Agrees(c),
           Pending(c) \subseteq Pending(c)'
    PROVE  Agrees(c)'
BY DEF Agrees

(* A client that stores a list is told of, or publishes, the difference.   *)
LEMMA Stores ==
    ASSUME TypeOK, NEW c \in online, NEW L \in SUBSET Devices, NEW C \in SUBSET Devices,
           StoreList(c, L, C), node' = node, (L = node /\ C = {c}) \/ (L = {} /\ C = Devices)
    PROVE  Agrees(c)'
<1>1. c \in Clients /\ c \in Devices /\ node \subseteq Devices /\ toServer[c] \in Seq(ToServer)
  BY DEF TypeOK, Devices
<1>2. /\ list'[c] = L \cup {c}
      /\ toServer'[c] = IF c \notin L THEN Append(toServer[c], Publish(L \cup {c}, C))
                        ELSE toServer[c]
  BY <1>1, StoreListTyped
<1>3. CASE c \in L
  BY <1>1, <1>2, <1>3 DEF Agrees
<1>4. CASE c \notin L
  <2>1. Publish(L \cup {c}, C) \in ToServer /\ Publish(L \cup {c}, C).changed = C
    <3>1. L \cup {c} \in SUBSET Devices
      BY <1>1
    <3> QED BY <3>1, Stanzas DEF Publish
  <2>2. /\ Len(toServer'[c]) = Len(toServer[c]) + 1 /\ Len(toServer[c]) \in Nat
        /\ toServer'[c][Len(toServer[c]) + 1].changed = C
    BY <1>1, <1>2, <1>4, <2>1, OneMore
  <2>3. Len(toServer[c]) + 1 \in 1 .. Len(toServer'[c])
    BY <2>2
  <2>4. C \subseteq Pending(c)'
    BY <2>2, <2>3 DEF Pending
  <2> QED BY <1>1, <1>2, <2>4 DEF Agrees
<1> QED BY <1>3, <1>4

(* Storing a list is saying something.                                     *)
LEMMA StoreSays ==
    ASSUME TypeOK, NEW c \in Clients, NEW L \in SUBSET Devices, NEW C \in SUBSET Devices,
           StoreList(c, L, C), UNCHANGED <<interested, online, node>>
    PROVE  Says(c)
<1>1. toServer'[c] = IF c \in online /\ c \notin L
                     THEN Append(toServer[c], Publish(L \cup {c}, C))
                     ELSE toServer[c]
  BY StoreListTyped
<1>2. Publish(L \cup {c}, C) \in ToServer /\ Publish(L \cup {c}, C).kind = "publish"
  <2>1. L \cup {c} \in SUBSET Devices
    BY DEF Devices
  <2> QED BY <2>1, Stanzas DEF Publish
<1>3. CASE c \in online /\ c \notin L
  BY <1>1, <1>2, <1>3 DEF Says
<1>4. CASE ~(c \in online /\ c \notin L)
  BY <1>1, <1>4 DEF Says
<1> QED BY <1>3, <1>4

LEMMA SendSays ==
    ASSUME TypeOK, NEW c \in Clients, NEW e \in ToServer, e.kind # "hello",
           e.kind # "publish" => e.changed = {}, Send(c, <<e>>),
           UNCHANGED <<interested, online, node>>
    PROVE  Says(c)
<1>1. toServer'[c] = IF c \in online THEN Append(toServer[c], e) ELSE toServer[c]
  <2>1. <<e>> # <<>>
    OBVIOUS
  <2> QED BY <2>1, SendTyped
<1>2. CASE c \in online
  BY <1>1, <1>2 DEF Says
<1>3. CASE c \notin online
  BY <1>1, <1>3 DEF Says
<1> QED BY <1>2, <1>3

(* The other clients see only a publication.                               *)
LEMMA OthersKept ==
    ASSUME TypeOK, NEW c \in Clients, NEW k \in Clients, k # c, Connected(k), node' = node,
           (k \in interested') = (k \in interested), (k \in online') = (k \in online),
           OnlyOf(c), toClient'[k] = toClient[k],
           tracked'[k] = tracked[k], asked'[k] = asked[k]
    PROVE  Connected(k)'
BY Untouched DEF OnlyOf

(* What is left to follow when nothing arrived.                            *)
LEMMA FollowsKept ==
    ASSUME TypeOK, NEW c \in Clients, Follows(c), Older(c),
           interested' = interested, toClient'[c] = toClient[c],
           c \in interested /\ Agrees(c) => Agrees(c)'
    PROVE  Follows(c)'
<1>1. toClient[c] \in Seq(ToClient)
  BY DEF TypeOK
<1>2. \A i \in 1 .. Len(toClient[c]) : toClient[c][i].id \in Nat
  <2>1. \A i \in 1 .. Len(toClient[c]) : toClient[c][i] \in ToClient
    BY <1>1, ElementOfSeq
  <2> QED BY <2>1 DEF ToClient
<1>3. \A i \in 1 .. Len(toClient[c]) :
        OwnAnswer(c, toClient[c][i].id) => OwnAnswerNext(c, toClient[c][i].id)
  BY <1>2, OwnKept
<1>4. Stale(c) => Stale(c)'
  BY <1>3 DEF Stale, OwnAnswer, OwnAnswerNext
<1>5. Told(c) => Told(c)'
  BY DEF Told
<1> QED BY <1>4, <1>5 DEF Follows

LEMMA LoginInv ==
    ASSUME IndInv, NEW c \in Clients, Login(c)
    PROVE  IndInv'
<1> USE DEF server
<1>1. TypeOK /\ TypeOK'
  BY LoginTyped DEF IndInv
<1>2. /\ c \in Devices /\ c \notin interested /\ c \notin online
      /\ asked[c] \in Nat /\ toServer \in [Clients -> Seq(ToServer)]
  BY <1>1 DEF TypeOK, Devices, Login
<1>3. /\ asked'[c] = asked[c] + 1
      /\ \A r \in tracked'[c] : r \in tracked[c] \/ (r.id = asked'[c] /\ r.why = "login")
      /\ \A k \in Clients \ {c} : asked'[k] = asked[k] /\ tracked'[k] = tracked[k]
  BY <1>1, <1>2, TrackTyped DEF Login
<1>4. /\ toServer' = [toServer EXCEPT ![c] = <<Hello(asked[c] + 1)>>]
      /\ online' = online \cup {c}
      /\ UNCHANGED <<interested, node, toClient, list, unconfirmed>>
  BY DEF Login
<1>5. ASSUME NEW k \in Clients \ {c} PROVE Connected(k)'
  BY <1>2, <1>3, <1>4, Untouched DEF IndInv
<1>6. Connected(c)'
  <2>1. OwnAnswerNext(c, asked[c] + 1)
    BY <1>1, <1>2, <1>3 DEF OwnAnswerNext, TypeOK, Requests
  <2>2. toServer'[c] = <<Hello(asked[c] + 1)>>
    BY <1>2, <1>4
  <2>3. /\ toServer'[c] # <<>> /\ Len(toServer'[c]) = 1
        /\ toServer'[c][1] = Hello(asked[c] + 1)
        /\ Head(toServer'[c]) = Hello(asked[c] + 1)
    BY <2>2
  <2>4. Greets(c)' /\ Opens(c)'
    BY <1>2, <1>4, <2>1, <2>3 DEF Greets, Opens, Hello, OwnAnswer, OwnAnswerNext
  <2>5. toClient[c] = <<>>
    BY <1>2 DEF IndInv, Connected, Follows
  <2>6. Current(c)' /\ Follows(c)'
    BY <1>2, <1>4, <2>5 DEF Current, Follows
  <2> QED BY <2>4, <2>6 DEF Connected
<1> QED BY <1>1, <1>5, <1>6 DEF IndInv

LEMMA RemoveInv ==
    ASSUME IndInv, NEW c \in Clients, NEW d \in Devices, RemoveDevice(c, d)
    PROVE  IndInv'
<1>1. TypeOK /\ TypeOK'
  BY RemoveTyped DEF IndInv
<1>2. /\ list' = [list EXCEPT ![c] = @ \ {d}]
      /\ unconfirmed' = [unconfirmed EXCEPT ![c] = @ \cup {d}]
      /\ Send(c, <<Fetch(asked[c] + 1)>>)
      /\ UNCHANGED <<node, interested, online, toClient>>
  BY DEF RemoveDevice, server
<1>3. /\ asked'[c] = asked[c] + 1 /\ asked[c] \in Nat
      /\ \A r \in tracked'[c] : r \in tracked[c] \/ (r.id = asked'[c] /\ r.why = "remove")
      /\ \A k \in Clients \ {c} : asked'[k] = asked[k] /\ tracked'[k] = tracked[k]
  BY <1>1, TrackTyped DEF RemoveDevice, TypeOK
<1>4. Fetch(asked[c] + 1) \in ToServer /\ Fetch(asked[c] + 1).kind = "fetch"
      /\ Fetch(asked[c] + 1).changed = {}
  BY <1>3, Stanzas DEF Fetch
<1>5. OnlyOf(c)
  <2>1. \A k \in Clients \ {c} : toServer'[k] = toServer[k]
    BY <1>1, <1>2, <1>4, SendTyped
  <2> QED BY <1>1, <1>2, <2>1 DEF OnlyOf, TypeOK
<1>6. ASSUME NEW k \in Clients \ {c} PROVE Connected(k)'
  BY <1>1, <1>2, <1>3, <1>5, OthersKept DEF IndInv
<1>7. Connected(c)'
  <2>1. Connected(c)
    BY DEF IndInv
  <2>2. Says(c)
    BY <1>1, <1>2, <1>4, SendSays
  <2>3. Older(c)
    BY <1>3 DEF Older
  <2>4. Greets(c)' /\ Opens(c)'
    BY <1>1, <2>1, <2>2, <2>3, SaysKept DEF Connected
  <2>5. Current(c)'
    BY <1>2, <2>1 DEF Connected, Current
  <2>6. /\ list'[c] = list[c] \ {d} /\ unconfirmed'[c] = unconfirmed[c] \cup {d}
    BY <1>1, <1>2 DEF TypeOK
  <2>7. Pending(c) \cup {d} \subseteq Pending(c)'
    <3>1. Pending(c) \subseteq Pending(c)'
      BY <1>1, <2>2, <2>6, PendingGrows
    <3>2. d \in Pending(c)'
      BY <2>6 DEF Pending
    <3> QED BY <3>1, <3>2
  <2>8. Agrees(c) => Agrees(c)'
    BY <1>2, <2>6, <2>7 DEF Agrees
  <2>9. Follows(c)'
    BY <1>1, <1>2, <2>1, <2>3, <2>8, FollowsKept DEF Connected
  <2> QED BY <2>4, <2>5, <2>9 DEF Connected
<1> QED BY <1>1, <1>6, <1>7 DEF IndInv

LEMMA TimeoutInv ==
    ASSUME IndInv, NEW c \in Clients, Timeout(c)
    PROVE  IndInv'
<1>1. TypeOK /\ TypeOK'
  BY TimeoutTyped DEF IndInv
<1>2. PICK r \in tracked[c] :
        /\ tracked' = [tracked EXCEPT ![c] = (@ \ {r}) \cup {[r EXCEPT !.late = TRUE]}]
        /\ Failed(c, r)
        /\ UNCHANGED <<node, interested, online, toClient, asked>>
  BY DEF Timeout, server
<1>3. r \in Requests /\ tracked \in [Clients -> SUBSET Requests] /\ asked[c] \in Nat
  BY <1>1 DEF TypeOK
<1>4. OnlyOf(c)
  BY <1>1, <1>2, <1>3, FailedTyped
<1>5. ASSUME NEW k \in Clients \ {c} PROVE Connected(k)'
  <2>1. tracked'[k] = tracked[k]
    BY <1>2, <1>3
  <2> QED BY <1>1, <1>2, <1>4, <2>1, OthersKept DEF IndInv
<1>6. Connected(c)'
  <2>1. Connected(c)
    BY DEF IndInv
  <2>2. Older(c)
    <3>1. [r EXCEPT !.late = TRUE].id = r.id /\ [r EXCEPT !.late = TRUE].why = r.why
      BY <1>3 DEF Requests
    <3>2. \A q \in tracked'[c] : q \in tracked[c] \/ q = [r EXCEPT !.late = TRUE]
      BY <1>2, <1>3
    <3>3. asked'[c] \in Nat /\ asked'[c] >= asked[c]
      BY <1>2, <1>3
    <3>4. \A q \in tracked'[c] : \E p \in tracked[c] : p.id = q.id /\ p.why = q.why
      <4> HIDE <1>2
      <4> QED BY <3>1, <3>2
    <3> QED BY <3>3, <3>4 DEF Older
  <2>3. CASE StoreList(c, {}, Devices)
    <3>1. Says(c)
      BY <1>1, <1>2, <2>3, StoreSays
    <3>2. c \in interested => Agrees(c)'
      <4> HAVE c \in interested
      <4>1. c \in online
        BY <1>1 DEF TypeOK
      <4> QED BY <1>1, <1>2, <2>3, <4>1, Stores
    <3>3. Greets(c)' /\ Opens(c)'
      BY <1>1, <2>1, <2>2, <3>1, SaysKept DEF Connected
    <3>4. Follows(c)'
      BY <1>1, <1>2, <2>1, <2>2, <3>2, FollowsKept DEF Connected
    <3>5. Current(c)'
      BY <1>2, <2>1 DEF Connected, Current
    <3> QED BY <3>3, <3>4, <3>5 DEF Connected
  <2>4. CASE UNCHANGED <<list, unconfirmed, toServer>>
    <3>1. Says(c) /\ Pending(c) \subseteq Pending(c)'
      BY <1>2, <2>4 DEF Says, Pending
    <3>2. Agrees(c) => Agrees(c)'
      BY <1>2, <2>4, <3>1, AgreesKept
    <3>3. Greets(c)' /\ Opens(c)'
      BY <1>1, <2>1, <2>2, <3>1, SaysKept DEF Connected
    <3>4. Follows(c)'
      BY <1>1, <1>2, <2>1, <2>2, <3>2, FollowsKept DEF Connected
    <3>5. Current(c)'
      BY <1>2, <2>1 DEF Connected, Current
    <3> QED BY <3>3, <3>4, <3>5 DEF Connected
  <2> QED BY <1>2, <2>3, <2>4 DEF Failed
<1> QED BY <1>1, <1>5, <1>6 DEF IndInv

(* The head is taken: what else was on its way is left.                    *)
LEMMA TailLeft ==
    ASSUME TypeOK, NEW c \in Clients, toClient[c] # <<>>, Took(c), node' = node, Current(c)
    PROVE  /\ Current(c)'
           /\ \A i \in 1 .. Len(toClient[c]) : i # 1 =>
                \E j \in 1 .. Len(toClient'[c]) : toClient'[c][j] = toClient[c][i]
           /\ Next1(c).kind # "error" => Next1(c).list = node \/ Told(c)'
           /\ Told(c) /\ Next1(c).kind # "event" => Told(c)'
<1>1. toClient[c] \in Seq(ToClient) /\ toClient'[c] = Tail(toClient[c])
      /\ Next1(c) = toClient[c][1]
  BY TookTyped DEF TypeOK
<1>2. /\ Len(toClient[c]) \in Nat /\ Len(toClient[c]) > 0
      /\ Len(toClient'[c]) = Len(toClient[c]) - 1
      /\ \A i \in 1 .. Len(toClient[c]) - 1 : toClient'[c][i] = toClient[c][i + 1]
  BY <1>1, OneLess
<1>3. ASSUME NEW i \in 1 .. Len(toClient[c]), i # 1
      PROVE  i - 1 \in 1 .. Len(toClient'[c]) /\ toClient'[c][i - 1] = toClient[c][i]
  <2>1. i - 1 \in 1 .. Len(toClient[c]) - 1 /\ (i - 1) + 1 = i
    BY <1>2, <1>3
  <2> QED BY <1>2, <2>1
<1>4. \A i \in 1 .. Len(toClient[c]) : i # 1 =>
        \E j \in 1 .. Len(toClient'[c]) : toClient'[c][j] = toClient[c][i]
  BY <1>3
<1>5. Current(c)'
  <2> SUFFICES ASSUME NEW i \in 1 .. Len(toClient'[c])
               PROVE  \/ toClient'[c][i].kind = "error"
                      \/ toClient'[c][i].list = node
                      \/ \E j \in i + 1 .. Len(toClient'[c]) : toClient'[c][j].kind = "event"
    BY DEF Current
  <2>1. i + 1 \in 1 .. Len(toClient[c]) /\ toClient'[c][i] = toClient[c][i + 1]
    BY <1>2
  <2>2. CASE \E j \in i + 1 + 1 .. Len(toClient[c]) : toClient[c][j].kind = "event"
    <3>1. PICK j \in i + 1 + 1 .. Len(toClient[c]) : toClient[c][j].kind = "event"
      BY <2>2
    <3>2. j \in 1 .. Len(toClient[c]) /\ j # 1 /\ j - 1 \in i + 1 .. Len(toClient'[c])
      BY <1>2
    <3>3. toClient'[c][j - 1].kind = "event"
      BY <1>3, <3>1, <3>2
    <3> QED BY <3>2, <3>3
  <2> QED BY <2>1, <2>2 DEF Current
<1>6. 1 \in 1 .. Len(toClient[c])
  BY <1>2
<1>7. ASSUME Next1(c).kind # "error", Next1(c).list # node PROVE Told(c)'
  <2>1. PICK j \in 1 + 1 .. Len(toClient[c]) : toClient[c][j].kind = "event"
    BY <1>1, <1>6, <1>7 DEF Current
  <2>2. j \in 1 .. Len(toClient[c]) /\ j # 1
    BY <1>2
  <2> QED BY <1>4, <2>1, <2>2 DEF Told
<1>8. ASSUME Told(c), Next1(c).kind # "event" PROVE Told(c)'
  <2>1. PICK j \in 1 .. Len(toClient[c]) : toClient[c][j].kind = "event"
    BY <1>8 DEF Told
  <2> QED BY <1>1, <1>4, <1>8, <2>1 DEF Told
<1> QED BY <1>4, <1>5, <1>7, <1>8

(* A client stores the list it has been sent.                              *)
LEMMA StoresSent ==
    ASSUME TypeOK, NEW c \in online, Connected(c), toClient[c] # <<>>, Took(c),
           node' = node, Next1(c).kind # "error", StoreList(c, Next1(c).list, {c})
    PROVE  Told(c)' \/ Agrees(c)'
<1>1. c \in Clients /\ {c} \in SUBSET Devices
  BY DEF TypeOK, Devices
<1>2. Current(c)
  BY DEF Connected
<1>3. CASE Next1(c).list = node
  <2>1. node \in SUBSET Devices /\ StoreList(c, node, {c})
    BY <1>3 DEF TypeOK
  <2> QED BY <1>1, <2>1, Stores
<1>4. CASE Next1(c).list # node
  BY <1>1, <1>2, <1>4, TailLeft
<1> QED BY <1>3, <1>4

LEMMA ReceiveInv ==
    ASSUME IndInv, NEW c \in Clients, Receive(c)
    PROVE  IndInv'
<1>1. TypeOK /\ TypeOK' /\ Connected(c)
  BY ReceiveTyped DEF IndInv
<1>2. /\ toClient[c] # <<>> /\ Took(c)
      /\ UNCHANGED <<node, interested, online, asked>>
  BY DEF Receive, ReceiveAnswer, ReceiveEvent, server
<1>3. c \in interested /\ c \in online
  BY <1>1, <1>2 DEF Connected, Follows, TypeOK
<1>4. /\ Current(c)'
      /\ \A i \in 1 .. Len(toClient[c]) : i # 1 =>
           \E j \in 1 .. Len(toClient'[c]) : toClient'[c][j] = toClient[c][i]
      /\ Told(c) /\ Next1(c).kind # "event" => Told(c)'
  <2>1. Current(c)
    BY <1>1 DEF Connected
  <2> QED BY <1>1, <1>2, <2>1, TailLeft
<1>5. /\ Next1(c) = toClient[c][1] /\ Next1(c).list \in SUBSET Devices
      /\ \A k \in Clients \ {c} : toClient'[k] = toClient[k]
  BY <1>1, <1>2, TookTyped
<1>6. tracked \in [Clients -> SUBSET Requests] /\ asked \in [Clients -> Nat] /\ c \in Devices
      /\ {c} \in SUBSET Devices
  BY <1>1 DEF TypeOK, Devices
<1>7. SUFFICES /\ OnlyOf(c) /\ Says(c) /\ Older(c)
               /\ \A k \in Clients \ {c} : tracked'[k] = tracked[k]
               /\ Told(c)' \/ Agrees(c)' \/ Stale(c)'
  <2>1. ASSUME NEW k \in Clients \ {c} PROVE Connected(k)'
    BY <1>1, <1>2, <1>5, <1>7, OthersKept DEF IndInv
  <2>2. Connected(c)'
    <3>1. Greets(c)' /\ Opens(c)'
      BY <1>1, <1>7, SaysKept DEF Connected
    <3>2. Follows(c)'
      BY <1>2, <1>3, <1>7 DEF Follows
    <3> QED BY <1>4, <3>1, <3>2 DEF Connected
  <2> QED BY <1>1, <2>1, <2>2 DEF IndInv
<1>8. CASE ReceiveEvent(c)
  <2>1. StoreList(c, Next1(c).list, {c}) /\ tracked' = tracked /\ Next1(c).kind = "event"
    BY <1>8 DEF ReceiveEvent
  <2>2. Told(c)' \/ Agrees(c)'
    BY <1>1, <1>2, <1>3, <2>1, StoresSent
  <2> DEFINE L == Next1(c).list
  <2>3. StoreList(c, L, {c}) /\ L \in SUBSET Devices
    BY <1>5, <2>1
  <2> HIDE DEF L
  <2>4. OnlyOf(c) /\ Says(c)
    BY <1>1, <1>2, <1>6, <2>3, StoreListTyped, StoreSays DEF OnlyOf
  <2>5. Older(c)
    BY <1>2, <1>6, <2>1 DEF Older
  <2> QED BY <2>1, <2>2, <2>4, <2>5
<1>9. CASE ReceiveAnswer(c)
  <2>1. PICK r \in tracked[c] :
          /\ r.id = Next1(c).id
          /\ tracked' = [tracked EXCEPT ![c] = @ \ {r}]
          /\ \/ Next1(c).kind = "result" /\ Answered(c, r, Next1(c).list)
             \/ Next1(c).kind = "error" /\ Failed(c, r)
    BY <1>9 DEF ReceiveAnswer
  <2>2. r \in Requests /\ \A k \in Clients \ {c} : tracked'[k] = tracked[k]
    BY <1>6, <2>1
  <2>3. Older(c)
    BY <1>2, <1>6, <2>1 DEF Older
  <2>4. OnlyOf(c)
    BY <1>1, <1>5, <2>1, <2>2, AnsweredTyped, FailedTyped
  <2>5. CASE r.why = "remove"
    <3>1. list'[c] = list[c] /\ unconfirmed'[c] = unconfirmed[c] /\ Says(c)
      <4>1. CASE Next1(c).kind = "result"
        <5>1. /\ Send(c, <<Publish(Next1(c).list \ {r.device}, {r.device})>>)
              /\ UNCHANGED <<list, unconfirmed>>
          BY <2>1, <2>5, <4>1 DEF Answered
        <5>2. Next1(c).list \ {r.device} \in SUBSET Devices /\ {r.device} \in SUBSET Devices
          BY <1>5, <2>2 DEF Requests
        <5> DEFINE e == Publish(Next1(c).list \ {r.device}, {r.device})
        <5>3. e \in ToServer /\ e.kind = "publish" /\ Send(c, <<e>>)
          BY <5>1, <5>2, Stanzas DEF Publish
        <5> HIDE DEF e
        <5> QED BY <1>1, <1>2, <5>1, <5>3, SendSays
      <4>2. CASE Next1(c).kind = "error"
        BY <1>2, <2>1, <2>5, <4>2 DEF Failed, Says
      <4> QED BY <2>1, <4>1, <4>2
    <3>2. Agrees(c) => Agrees(c)'
      <4>1. Pending(c) \subseteq Pending(c)'
        BY <1>1, <3>1, PendingGrows
      <4> QED BY <1>2, <3>1, <4>1, AgreesKept
    <3>3. Stale(c) => Stale(c)'
      <4> SUFFICES ASSUME Stale(c) PROVE Stale(c)'
        OBVIOUS
      <4>1. PICK i \in 1 .. Len(toClient[c]) :
              toClient[c][i].kind = "error" /\ OwnAnswer(c, toClient[c][i].id)
        BY DEF Stale
      <4>2. i # 1
        BY <1>5, <2>1, <2>5, <4>1 DEF OwnAnswer
      <4>3. PICK j \in 1 .. Len(toClient'[c]) : toClient'[c][j] = toClient[c][i]
        BY <1>4, <4>2
      <4>4. toClient[c][i].id \in Nat
        <5>1. toClient[c] \in Seq(ToClient)
          BY <1>1 DEF TypeOK
        <5>2. toClient[c][i] \in ToClient
          BY <5>1, ElementOfSeq
        <5> QED BY <5>2 DEF ToClient
      <4>5. OwnAnswerNext(c, toClient[c][i].id)
        BY <1>1, <2>3, <4>1, <4>4, OwnKept
      <4> QED BY <4>1, <4>3, <4>5 DEF Stale, OwnAnswer, OwnAnswerNext
    <3>4. Told(c) => Told(c)'
      BY <1>4, <2>1
    <3>5. Told(c) \/ Agrees(c) \/ Stale(c)
      BY <1>1, <1>3 DEF Connected, Follows
    <3> QED BY <2>2, <2>3, <2>4, <3>1, <3>2, <3>3, <3>4, <3>5
  <2>6. CASE r.why = "login"
    <3>1. CASE Next1(c).kind = "error"
      <4>1. StoreList(c, {}, Devices)
        BY <2>1, <2>6, <3>1 DEF Failed
      <4>2. Agrees(c)' /\ Says(c)
        BY <1>1, <1>2, <1>3, <4>1, Stores, StoreSays
      <4> QED BY <2>2, <2>3, <2>4, <4>2
    <3>2. CASE Next1(c).kind = "result"
      <4>1. StoreList(c, Next1(c).list, {c}) /\ Next1(c).kind # "error"
        BY <2>1, <2>6, <3>2 DEF Answered
      <4>2. Told(c)' \/ Agrees(c)'
        BY <1>1, <1>2, <1>3, <4>1, StoresSent
      <4> DEFINE L == Next1(c).list
      <4>3. StoreList(c, L, {c}) /\ L \in SUBSET Devices
        BY <1>5, <4>1
      <4> HIDE DEF L
      <4>4. Says(c)
        BY <1>1, <1>2, <1>6, <4>3, StoreSays
      <4> QED BY <2>2, <2>3, <2>4, <4>2, <4>4
    <3> QED BY <2>1, <3>1, <3>2
  <2> QED BY <2>2, <2>5, <2>6 DEF Requests
<1> QED BY <1>8, <1>9 DEF Receive

LEMMA DropInv ==
    ASSUME IndInv, NEW c \in Clients, Drop(c)
    PROVE  IndInv'
<1>1. TypeOK /\ TypeOK'
  BY DropTyped DEF IndInv
<1>2. /\ online' = online \ {c} /\ interested' = interested \ {c}
      /\ toServer' = [toServer EXCEPT ![c] = <<>>]
      /\ toClient' = [toClient EXCEPT ![c] = <<>>]
      /\ UNCHANGED <<node, tracked, list, asked, unconfirmed>>
  BY DEF Drop, server
<1>3. \A k \in Clients \ {c} : toServer'[k] = toServer[k] /\ toClient'[k] = toClient[k]
  BY <1>1, <1>2 DEF TypeOK
<1>4. ASSUME NEW k \in Clients \ {c} PROVE Connected(k)'
  BY <1>2, <1>3, <1>4, Untouched DEF IndInv
<1>5. Connected(c)'
  <2>1. toServer'[c] = <<>> /\ toClient'[c] = <<>> /\ c \notin online' /\ c \notin interested'
    BY <1>1, <1>2 DEF TypeOK
  <2> QED BY <2>1 DEF Connected, Greets, Opens, Current, Follows
<1> QED BY <1>1, <1>4, <1>5 DEF IndInv

(* The server takes a request that does not open the connection.           *)
LEMMA Taken ==
    ASSUME TypeOK, NEW c \in Clients, Connected(c), NEW kind \in {"fetch", "publish"},
           Request(c, kind), UNCHANGED <<interested, online, node, tracked, asked>>
    PROVE  /\ c \in interested /\ c \in online
           /\ Greets(c)' /\ Opens(c)'
           /\ \A i \in 1 .. Len(toServer[c]) : i # 1 =>
                \E j \in 1 .. Len(toServer'[c]) : toServer'[c][j] = toServer[c][i]
           /\ toServer[c][1] = Head(toServer[c])
           /\ kind = "fetch" => Head(toServer[c]).changed = {}
<1>1. /\ toServer[c] # <<>> /\ toServer[c] \in Seq(ToServer)
      /\ toServer'[c] = Tail(toServer[c])
      /\ Head(toServer[c]) = toServer[c][1] /\ Head(toServer[c]).kind = kind
  BY RequestTyped
<1>2. /\ Len(toServer[c]) \in Nat /\ Len(toServer[c]) > 0
      /\ Len(toServer'[c]) = Len(toServer[c]) - 1
      /\ \A i \in 1 .. Len(toServer[c]) - 1 : toServer'[c][i] = toServer[c][i + 1]
  BY <1>1, OneLess
<1>3. c \in online /\ c \in interested
  BY <1>1 DEF Connected, Opens
<1>4. Opens(c)'
  BY <1>3 DEF Opens
<1>5. ASSUME NEW i \in 1 .. Len(toServer'[c])
      PROVE  /\ toServer'[c][i].kind # "hello"
             /\ toServer'[c][i].kind # "publish" => toServer'[c][i].changed = {}
  <2>1. i + 1 \in 1 .. Len(toServer[c]) /\ i + 1 # 1
        /\ toServer'[c][i] = toServer[c][i + 1]
    BY <1>2
  <2> QED BY <2>1 DEF Connected, Greets
<1>6. Greets(c)'
  BY <1>5 DEF Greets
<1>7. ASSUME NEW i \in 1 .. Len(toServer[c]), i # 1
      PROVE  i - 1 \in 1 .. Len(toServer'[c]) /\ toServer'[c][i - 1] = toServer[c][i]
  <2>1. i - 1 \in 1 .. Len(toServer[c]) - 1 /\ (i - 1) + 1 = i
    BY <1>2, <1>7
  <2> QED BY <1>2, <2>1
<1>8. 1 \in 1 .. Len(toServer[c])
  BY <1>2
<1>9. kind = "fetch" => Head(toServer[c]).changed = {}
  BY <1>1, <1>8 DEF Connected, Greets
<1> QED BY <1>1, <1>3, <1>4, <1>6, <1>7, <1>9

(* A change that was on its way is still pending, or was the one taken.    *)
LEMMA StillPending ==
    ASSUME NEW c \in Clients,
           \A i \in 1 .. Len(toServer[c]) : i # 1 =>
                \E j \in 1 .. Len(toServer'[c]) : toServer'[c][j] = toServer[c][i],
           unconfirmed'[c] = unconfirmed[c] \cup toServer[c][1].changed
    PROVE  Pending(c) \subseteq Pending(c)'
<1> SUFFICES ASSUME NEW d \in Pending(c) PROVE d \in Pending(c)'
  OBVIOUS
<1>1. CASE d \in unconfirmed[c] \/ d \in toServer[c][1].changed
  BY <1>1 DEF Pending
<1>2. CASE \E i \in 1 .. Len(toServer[c]) : i # 1 /\ d \in toServer[c][i].changed
  BY <1>2 DEF Pending
<1> QED BY <1>1, <1>2 DEF Pending

(* The server answers: what was on its way before still is.                *)
LEMMA OneArrives ==
    ASSUME TypeOK, NEW c \in Clients, NEW a \in ToClient,
           toClient'[c] = Append(toClient[c], a), node' = node,
           tracked' = tracked, asked' = asked, Current(c),
           a.kind = "error" \/ a.list = node
    PROVE  Current(c)' /\ (Told(c) => Told(c)') /\ (Stale(c) => Stale(c)')
<1>1. /\ toClient[c] \in Seq(ToClient) /\ Len(toClient[c]) \in Nat
      /\ Len(toClient'[c]) = Len(toClient[c]) + 1
      /\ toClient'[c][Len(toClient[c]) + 1] = a
      /\ \A i \in 1 .. Len(toClient[c]) : toClient'[c][i] = toClient[c][i]
  BY OneMore DEF TypeOK
<1>2. \A i \in 1 .. Len(toClient[c]) : i \in 1 .. Len(toClient'[c])
  BY <1>1
<1>3. Told(c) => Told(c)'
  BY <1>1, <1>2 DEF Told
<1>4. Stale(c) => Stale(c)'
  BY <1>1, <1>2 DEF Stale, OwnAnswer
<1>5. Current(c)'
  <2> SUFFICES ASSUME NEW i \in 1 .. Len(toClient'[c])
               PROVE  \/ toClient'[c][i].kind = "error"
                      \/ toClient'[c][i].list = node
                      \/ \E j \in i + 1 .. Len(toClient'[c]) : toClient'[c][j].kind = "event"
    BY DEF Current
  <2>1. i \in 1 .. Len(toClient[c]) \/ i = Len(toClient[c]) + 1
    BY <1>1
  <2>2. CASE i = Len(toClient[c]) + 1
    BY <1>1, <2>2
  <2>3. CASE i \in 1 .. Len(toClient[c])
    <3>1. ASSUME NEW j \in i + 1 .. Len(toClient[c]), toClient[c][j].kind = "event"
          PROVE  j \in i + 1 .. Len(toClient'[c]) /\ toClient'[c][j].kind = "event"
      BY <1>1, <2>3, <3>1
    <3> QED BY <1>1, <2>3, <3>1 DEF Current
  <2> QED BY <2>1, <2>2, <2>3
<1> QED BY <1>3, <1>4, <1>5

LEMMA ServeFetchInv ==
    ASSUME IndInv, NEW c \in Clients, ServeFetch(c)
    PROVE  IndInv'
<1>1. TypeOK /\ TypeOK' /\ Connected(c)
  BY ServeFetchTyped DEF IndInv
<1>2. /\ Request(c, "fetch")
      /\ UNCHANGED <<node, interested, online, tracked, list, asked, unconfirmed>>
  BY DEF ServeFetch, server
<1>3. PICK a \in ToClient : Reply(c, <<a>>) /\ (a.kind = "error" \/ a.list = node)
  <2>1. Answer(c).kind = "error" \/ Answer(c).list = node
    BY DEF Answer, Result, Error
  <2>2. Error(Head(toServer[c]).id).kind = "error"
    BY DEF Error
  <2> QED BY <1>1, <1>2, <2>1, <2>2, AnswerTyped DEF ServeFetch
<1>4. /\ toClient'[c] = Append(toClient[c], a)
      /\ \A k \in Clients \ {c} : toClient'[k] = toClient[k] /\ toServer'[k] = toServer[k]
  <2>1. toClient[c] \o <<a>> = Append(toClient[c], a) /\ <<a>> \in Seq(ToClient)
    BY <1>1, OneMore DEF TypeOK
  <2> QED BY <1>1, <1>2, <1>3, <2>1, ReplyTyped, RequestTyped
<1>5. ASSUME NEW k \in Clients \ {c} PROVE Connected(k)'
  BY <1>2, <1>4, Untouched DEF IndInv
<1>6. Connected(c)'
  <2>1. /\ c \in interested /\ Greets(c)' /\ Opens(c)'
        /\ \A i \in 1 .. Len(toServer[c]) : i # 1 =>
             \E j \in 1 .. Len(toServer'[c]) : toServer'[c][j] = toServer[c][i]
        /\ toServer[c][1].changed = {}
    BY <1>1, <1>2, Taken
  <2>2. Pending(c) \subseteq Pending(c)'
    BY <1>2, <2>1, StillPending
  <2>3. Agrees(c) => Agrees(c)'
    BY <1>2, <2>2, AgreesKept
  <2>4. Current(c)' /\ (Told(c) => Told(c)') /\ (Stale(c) => Stale(c)')
    BY <1>1, <1>2, <1>3, <1>4, OneArrives DEF Connected
  <2>5. Follows(c)'
    BY <1>1, <1>2, <2>1, <2>3, <2>4 DEF Connected, Follows
  <2> QED BY <2>1, <2>4, <2>5 DEF Connected
<1> QED BY <1>1, <1>5, <1>6 DEF IndInv

LEMMA RefusePublishInv ==
    ASSUME IndInv, NEW c \in Clients, RefusePublish(c)
    PROVE  IndInv'
<1>1. TypeOK /\ TypeOK' /\ Connected(c)
  BY RefusePublishTyped DEF IndInv
<1>2. /\ Request(c, "publish")
      /\ unconfirmed' = [unconfirmed EXCEPT ![c] = @ \cup Head(toServer[c]).changed]
      /\ UNCHANGED <<node, interested, online, toClient, tracked, list, asked>>
  BY DEF RefusePublish, server
<1>3. \A k \in Clients \ {c} : toServer'[k] = toServer[k] /\ unconfirmed'[k] = unconfirmed[k]
  BY <1>1, <1>2, RequestTyped DEF TypeOK
<1>4. ASSUME NEW k \in Clients \ {c} PROVE Connected(k)'
  BY <1>2, <1>3, Untouched DEF IndInv
<1>5. Connected(c)'
  <2>1. /\ c \in interested /\ Greets(c)' /\ Opens(c)'
        /\ \A i \in 1 .. Len(toServer[c]) : i # 1 =>
             \E j \in 1 .. Len(toServer'[c]) : toServer'[c][j] = toServer[c][i]
        /\ toServer[c][1] = Head(toServer[c])
    BY <1>1, <1>2, Taken
  <2>2. unconfirmed'[c] = unconfirmed[c] \cup toServer[c][1].changed
    BY <1>1, <1>2, <2>1 DEF TypeOK
  <2>3. Pending(c) \subseteq Pending(c)'
    BY <2>1, <2>2, StillPending
  <2>4. Agrees(c) => Agrees(c)'
    BY <1>2, <2>3, AgreesKept
  <2>5. Current(c)' /\ (Told(c) => Told(c)') /\ (Stale(c) => Stale(c)')
    BY <1>1, <1>2 DEF Connected, Current, Told, Stale, OwnAnswer
  <2>6. Follows(c)'
    BY <1>1, <1>2, <2>1, <2>4, <2>5 DEF Connected, Follows
  <2> QED BY <2>1, <2>5, <2>6 DEF Connected
<1> QED BY <1>1, <1>4, <1>5 DEF IndInv

LEMMA ServePublishInv ==
    ASSUME IndInv, NEW c \in Clients, ServePublish(c)
    PROVE  IndInv'
<1>1. /\ TypeOK /\ TypeOK' /\ Connected(c)
      /\ \A k \in Clients : toClient'[k] = IF k \in interested
                                           THEN Append(toClient[k], Event(node'))
                                           ELSE toClient[k]
  BY ServePublishTyped DEF IndInv
<1>2. /\ Request(c, "publish")
      /\ UNCHANGED <<interested, online, tracked, list, asked, unconfirmed>>
  BY DEF ServePublish
<1>3. /\ toServer[c] # <<>> /\ toServer[c] \in Seq(ToServer)
      /\ toServer'[c] = Tail(toServer[c])
      /\ Head(toServer[c]) = toServer[c][1] /\ Head(toServer[c]).kind = "publish"
      /\ \A k \in Clients \ {c} : toServer'[k] = toServer[k]
  BY <1>1, <1>2, RequestTyped
<1>4. c \in online /\ c \in interested
  BY <1>1, <1>3 DEF Connected, Opens
<1>5. ASSUME NEW k \in Clients PROVE Connected(k) /\ (Current(k) /\ Follows(k))'
  <2>1. Connected(k)
    BY DEF IndInv
  <2>2. CASE k \notin interested
    BY <1>1, <1>2, <2>1, <2>2 DEF Connected, Follows, Current
  <2>3. CASE k \in interested
    <3>1. toClient[k] \in Seq(ToClient) /\ toClient'[k] = Append(toClient[k], Event(node'))
          /\ Event(node') \in ToClient
      <4>1. node' \in SUBSET Devices
        BY <1>1 DEF TypeOK
      <4> QED BY <1>1, <2>3, <4>1, Stanzas DEF TypeOK
    <3>2. /\ Len(toClient[k]) \in Nat /\ Len(toClient'[k]) = Len(toClient[k]) + 1
          /\ toClient'[k][Len(toClient[k]) + 1] = Event(node')
      BY <3>1, OneMore
    <3>3. Len(toClient[k]) + 1 \in 1 .. Len(toClient'[k])
      BY <3>2
    <3>4. Event(node').kind = "event" /\ Event(node').list = node'
      BY DEF Event
    <3>5. Told(k)'
      BY <3>2, <3>3, <3>4 DEF Told
    <3>6. Current(k)'
      <4> SUFFICES ASSUME NEW i \in 1 .. Len(toClient'[k])
                   PROVE  \/ toClient'[k][i].list = node'
                          \/ \E j \in i + 1 .. Len(toClient'[k]) : toClient'[k][j].kind = "event"
        BY DEF Current
      <4>1. i = Len(toClient[k]) + 1 \/ Len(toClient[k]) + 1 \in i + 1 .. Len(toClient'[k])
        BY <3>2
      <4> QED BY <3>2, <3>4, <4>1
    <3> QED BY <1>2, <2>1, <2>3, <3>5, <3>6 DEF Follows
  <2> QED BY <2>2, <2>3
<1>6. ASSUME NEW k \in Clients \ {c} PROVE (Greets(k) /\ Opens(k))'
  BY <1>2, <1>3, <1>5 DEF Connected, Greets, Opens, OwnAnswer
<1>7. (Greets(c) /\ Opens(c))'
  <2>1. /\ Len(toServer[c]) \in Nat /\ Len(toServer'[c]) = Len(toServer[c]) - 1
        /\ \A i \in 1 .. Len(toServer[c]) - 1 : toServer'[c][i] = toServer[c][i + 1]
    BY <1>3, OneLess
  <2>2. ASSUME NEW i \in 1 .. Len(toServer'[c])
        PROVE  /\ toServer'[c][i].kind # "hello"
               /\ toServer'[c][i].kind # "publish" => toServer'[c][i].changed = {}
    <3>1. i + 1 \in 1 .. Len(toServer[c]) /\ i + 1 # 1
          /\ toServer'[c][i] = toServer[c][i + 1]
      BY <2>1
    <3> QED BY <1>1, <3>1 DEF Connected, Greets
  <2> QED BY <1>2, <1>4, <2>2 DEF Greets, Opens
<1>8. \A k \in Clients : Connected(k)'
  BY <1>5, <1>6, <1>7 DEF Connected
<1> QED BY <1>1, <1>8 DEF IndInv

LEMMA ServeHelloInv ==
    ASSUME IndInv, NEW c \in Clients, ServeHello(c)
    PROVE  IndInv'
<1>1. TypeOK /\ Connected(c)
  BY DEF IndInv
<1>2. /\ Request(c, "hello") /\ interested' = interested \cup {c}
      /\ UNCHANGED <<created, node, online, tracked, list, asked, unconfirmed>>
  BY DEF ServeHello, server
<1>3. /\ toServer[c] # <<>> /\ toServer[c] \in Seq(ToServer)
      /\ toServer'[c] = Tail(toServer[c])
      /\ Head(toServer[c]) = toServer[c][1] /\ Head(toServer[c]).kind = "hello"
      /\ \A k \in Clients \ {c} : toServer'[k] = toServer[k]
  BY <1>1, <1>2, RequestTyped
<1>4. /\ Len(toServer[c]) \in Nat /\ Len(toServer[c]) > 0
      /\ Len(toServer'[c]) = Len(toServer[c]) - 1
      /\ \A i \in 1 .. Len(toServer[c]) - 1 : toServer'[c][i] = toServer[c][i + 1]
  BY <1>3, OneLess
<1>5. c \in online /\ c \notin interested /\ OwnAnswer(c, Head(toServer[c]).id)
  <2>1. 1 \in 1 .. Len(toServer[c])
    BY <1>4
  <2> QED BY <1>1, <1>3, <2>1 DEF Connected, Greets, Opens
<1>6. TypeOK'
  BY <1>1, <1>5, ServeHelloTyped
<1>7. toClient[c] = <<>>
  BY <1>1, <1>5 DEF Connected, Follows
<1>8. PICK a \in ToClient :
        /\ Reply(c, <<a>> \o Pushed)
        /\ a.kind = "error" \/ a.list = node
        /\ ~created => a = Error(Head(toServer[c]).id)
  <2>1. Answer(c).kind = "error" \/ Answer(c).list = node
    BY DEF Answer, Result, Error
  <2>2. Error(Head(toServer[c]).id).kind = "error"
    BY DEF Error
  <2>3. ~created => Answer(c) = Error(Head(toServer[c]).id)
    BY DEF Answer
  <2> QED BY <1>1, <1>2, <2>1, <2>2, <2>3, AnswerTyped DEF ServeHello
<1>9. /\ toClient'[c] = <<a>> \o Pushed
      /\ \A k \in Clients \ {c} : toClient'[k] = toClient[k]
  <2>1. <<a>> \in Seq(ToClient) /\ Pushed \in Seq(ToClient)
    BY <1>1, <1>2, AnswerTyped DEF Pushed
  <2>2. <<a>> \o Pushed \in Seq(ToClient) /\ <<>> \o (<<a>> \o Pushed) = <<a>> \o Pushed
    BY <2>1, ConcatProperties, ConcatEmptySeq
  <2> QED BY <1>1, <1>7, <1>8, <2>2, ReplyTyped
<1>10. ASSUME NEW k \in Clients \ {c} PROVE Connected(k)'
  BY <1>2, <1>3, <1>9, Untouched DEF IndInv
<1>11. (Greets(c) /\ Opens(c))'
  <2>1. ASSUME NEW i \in 1 .. Len(toServer'[c])
        PROVE  /\ toServer'[c][i].kind # "hello"
               /\ toServer'[c][i].kind # "publish" => toServer'[c][i].changed = {}
    <3>1. i + 1 \in 1 .. Len(toServer[c]) /\ i + 1 # 1
          /\ toServer'[c][i] = toServer[c][i + 1]
      BY <1>4
    <3> QED BY <1>1, <3>1 DEF Connected, Greets
  <2> QED BY <1>2, <1>5, <2>1 DEF Greets, Opens
<1>12. (Current(c) /\ Follows(c))'
  <2>1. CASE created
    <3>1. toClient'[c] = Append(<<a>>, Event(node)) /\ <<a>> \in Seq(ToClient)
          /\ Event(node) \in ToClient
      BY <1>1, <1>2, <1>9, <2>1, AnswerTyped, OneMore DEF Pushed
    <3>2. /\ Len(toClient'[c]) = 2 /\ toClient'[c][1] = a
          /\ toClient'[c][2].kind = "event" /\ toClient'[c][2].list = node
      <4>1. Len(<<a>>) = 1 /\ <<a>>[1] = a
        OBVIOUS
      <4>2. /\ Len(toClient'[c]) = 2 /\ toClient'[c][1] = a
            /\ toClient'[c][2] = Event(node)
        BY <3>1, <4>1, OneMore
      <4> QED BY <4>2 DEF Event
    <3>3. Told(c)'
      BY <3>2 DEF Told
    <3>4. Current(c)'
      BY <1>2, <1>8, <3>2 DEF Current
    <3> QED BY <1>2, <3>3, <3>4 DEF Follows
  <2>2. CASE ~created
    <3>1. toClient'[c] = <<Error(Head(toServer[c]).id)>>
      BY <1>8, <1>9, <2>2 DEF Pushed
    <3>2. /\ Len(toClient'[c]) = 1 /\ toClient'[c][1].kind = "error"
          /\ toClient'[c][1].id = Head(toServer[c]).id
      BY <3>1 DEF Error
    <3>3. Stale(c)'
      BY <1>2, <1>5, <3>2 DEF Stale, OwnAnswer
    <3>4. Current(c)'
      BY <3>2 DEF Current
    <3> QED BY <1>2, <3>3, <3>4 DEF Follows
  <2> QED BY <1>1, <2>1, <2>2 DEF TypeOK
<1> QED BY <1>6, <1>10, <1>11, <1>12 DEF IndInv, Connected

LEMMA StepInv == IndInv /\ [Next]_vars => IndInv'
<1> SUFFICES ASSUME IndInv, [Next]_vars PROVE IndInv'
  OBVIOUS
<1>1. CASE UNCHANGED vars
  <2>1. UNCHANGED <<created, node, interested, online, toServer, toClient, tracked, list,
                    asked, events, unconfirmed>>
    BY <1>1 DEF vars, server, wire
  <2>2. TypeOK'
    BY <2>1 DEF IndInv, TypeOK
  <2>3. ASSUME NEW k \in Clients PROVE Connected(k)'
    BY <2>1, Untouched DEF IndInv
  <2> QED BY <2>2, <2>3 DEF IndInv
<1>2. CASE Next
  <2>1. PICK c \in Clients :
          \/ Login(c) \/ Drop(c) \/ Timeout(c) \/ Serve(c) \/ Receive(c)
          \/ \E d \in Devices : RemoveDevice(c, d)
    BY <1>2 DEF Next
  <2>2. CASE Serve(c)
    BY <2>2, ServeFetchInv, ServeHelloInv, ServePublishInv, RefusePublishInv DEF Serve
  <2>3. CASE \E d \in Devices : RemoveDevice(c, d)
    BY <2>3, RemoveInv
  <2> QED BY <2>1, <2>2, <2>3, LoginInv, DropInv, TimeoutInv, ReceiveInv
<1> QED BY <1>1, <1>2

-----------------------------------------------------------------------------
(* The inductive invariant holds in every behaviour.                       *)
THEOREM IndInvHolds == Spec => []IndInv
BY InitInv, StepInv, PTL DEF Spec

(* The variables keep their types: no request gets the number of another.  *)
THEOREM TypeCorrect == Spec => []TypeOK
<1>1. IndInv => TypeOK
  BY DEF IndInv
<1> QED BY <1>1, IndInvHolds, PTL

(* With nothing in flight, whoever is connected agrees with the server and *)
(* is on its list, but for changes the server refused or never got.        *)
THEOREM QuietCorrect == Spec => []QuietAgreement
<1>1. ASSUME IndInv PROVE QuietAgreement
  <2> SUFFICES ASSUME Quiet, NEW c \in online
               PROVE  /\ c \in node \cup unconfirmed[c]
                      /\ list[c] \ unconfirmed[c] = node \ unconfirmed[c]
    BY DEF QuietAgreement
  <2>1. c \in Clients /\ TypeOK /\ Connected(c)
    BY <1>1 DEF IndInv, TypeOK
  <2>2. toServer[c] = <<>> /\ toClient[c] = <<>> /\ Len(<<>>) = 0
    BY <2>1 DEF Quiet
  <2>3. c \in interested
    BY <2>1, <2>2 DEF Connected, Opens
  <2>4. ~Told(c) /\ ~Stale(c)
    BY <2>2 DEF Told, Stale
  <2>5. Agrees(c)
    BY <2>1, <2>3, <2>4 DEF Connected, Follows
  <2>6. Pending(c) = unconfirmed[c]
    BY <2>1, <2>2 DEF Pending, TypeOK
  <2> QED BY <2>5, <2>6 DEF Agrees
<1> QED BY <1>1, IndInvHolds, PTL
=============================================================================
