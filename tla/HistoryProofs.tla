--------------------------- MODULE HistoryProofs ---------------------------
(***************************************************************************)
(* Proofs about History, for any messages and any number of drops,         *)
(* restarts, failed queries and calls of the room manager.                 *)
(***************************************************************************)
EXTENDS History, SequenceTheorems, FiniteSetTheorems, TLAPS

(* What is in a sequence, and: only elements of Q come before one of P.    *)
Items(s) == {s[i] : i \in DOMAIN s}
Behind(s, P, Q) == \A i, j \in DOMAIN s : i < j /\ s[j] \in P => s[i] \in Q

LEMMA Added ==
    ASSUME NEW S, NEW s \in Seq(S), NEW e \in S
    PROVE  /\ Append(s, e) \in Seq(S) /\ Append(s, e) # <<>>
           /\ s # <<>> => Head(Append(s, e)) = Head(s)
           /\ Items(Append(s, e)) = Items(s) \cup {e}
           /\ \A P, Q : Behind(s, P, Q) /\ (e \in P => Items(s) \subseteq Q)
                        => Behind(Append(s, e), P, Q)
<1>1. /\ Append(s, e) \in Seq(S) /\ Len(s) \in Nat /\ Len(Append(s, e)) = Len(s) + 1
      /\ Append(s, e)[Len(s) + 1] = e
      /\ \A i \in 1 .. Len(s) : Append(s, e)[i] = s[i]
  BY AppendProperties
<1>2. DOMAIN s = 1 .. Len(s) /\ DOMAIN Append(s, e) = 1 .. Len(s) + 1
  BY <1>1
<1>3. Append(s, e) # <<>> /\ (s # <<>> => Head(Append(s, e)) = Head(s))
  <2>1. CASE s = <<>>
    BY <2>1, <1>1
  <2>2. CASE s # <<>>
    <3>1. 1 \in 1 .. Len(s)
      BY <2>2, <1>1, EmptySeq
    <3> QED BY <3>1, <1>1, <2>2
  <2> QED BY <2>1, <2>2
<1>4. Items(Append(s, e)) = Items(s) \cup {e}
  BY <1>1, <1>2 DEF Items
<1>5. ASSUME NEW P, NEW Q, Behind(s, P, Q), e \in P => Items(s) \subseteq Q
      PROVE  Behind(Append(s, e), P, Q)
  <2> SUFFICES ASSUME NEW i \in 1 .. Len(s) + 1, NEW j \in 1 .. Len(s) + 1,
                      i < j, Append(s, e)[j] \in P
               PROVE  Append(s, e)[i] \in Q
    BY <1>2 DEF Behind
  <2>1. i \in 1 .. Len(s) /\ Append(s, e)[i] = s[i]
    BY <1>1
  <2>2. CASE j = Len(s) + 1
    BY <2>1, <2>2, <1>1, <1>2, <1>5 DEF Items
  <2>3. CASE j \in 1 .. Len(s)
    BY <2>1, <2>3, <1>1, <1>2, <1>5 DEF Behind
  <2> QED BY <2>2, <2>3, <1>1
<1> QED BY <1>1, <1>3, <1>4, <1>5

LEMMA Removed ==
    ASSUME NEW S, NEW s \in Seq(S), s # <<>>
    PROVE  /\ Head(s) \in S /\ Tail(s) \in Seq(S)
           /\ Items(s) = {Head(s)} \cup Items(Tail(s))
           /\ \A P, Q : Behind(s, P, Q)
                        => /\ Behind(Tail(s), P, Q)
                           /\ Items(Tail(s)) \cap P # {} => Head(s) \in Q
<1>1. /\ Head(s) \in S /\ Head(s) = s[1] /\ Tail(s) \in Seq(S)
      /\ Len(s) \in Nat /\ Len(s) > 0 /\ Len(Tail(s)) = Len(s) - 1
      /\ \A i \in 1 .. Len(s) - 1 : Tail(s)[i] = s[i + 1]
  BY EmptySeq, HeadTailProperties
<1>2. DOMAIN s = 1 .. Len(s) /\ DOMAIN Tail(s) = 1 .. Len(s) - 1
  BY <1>1
<1>3. Items(s) = {Head(s)} \cup Items(Tail(s))
  <2>1. ASSUME NEW i \in 1 .. Len(s) PROVE s[i] \in {Head(s)} \cup Items(Tail(s))
    <3>1. CASE i = 1
      BY <3>1, <1>1
    <3>2. CASE i # 1
      <4>1. i - 1 \in 1 .. Len(s) - 1 /\ s[i] = Tail(s)[i - 1]
        BY <3>2, <1>1
      <4> QED BY <4>1, <1>2 DEF Items
    <3> QED BY <3>1, <3>2
  <2>2. ASSUME NEW i \in 1 .. Len(s) - 1 PROVE Tail(s)[i] \in Items(s)
    BY <1>1, <1>2 DEF Items
  <2>3. Head(s) \in Items(s)
    BY <1>1, <1>2 DEF Items
  <2> QED BY <2>1, <2>2, <2>3, <1>2 DEF Items
<1>4. ASSUME NEW P, NEW Q, Behind(s, P, Q)
      PROVE  /\ Behind(Tail(s), P, Q)
             /\ Items(Tail(s)) \cap P # {} => Head(s) \in Q
  <2>1. Behind(Tail(s), P, Q)
    <3> SUFFICES ASSUME NEW i \in 1 .. Len(s) - 1, NEW j \in 1 .. Len(s) - 1,
                        i < j, Tail(s)[j] \in P
                 PROVE  Tail(s)[i] \in Q
      BY <1>2 DEF Behind
    <3>1. /\ i + 1 \in DOMAIN s /\ j + 1 \in DOMAIN s /\ i + 1 < j + 1
          /\ s[j + 1] \in P /\ Tail(s)[i] = s[i + 1]
      BY <1>1, <1>2
    <3> QED BY <3>1, <1>4 DEF Behind
  <2>2. ASSUME NEW j \in 1 .. Len(s) - 1, Tail(s)[j] \in P PROVE Head(s) \in Q
    <3>1. 1 \in DOMAIN s /\ j + 1 \in DOMAIN s /\ 1 < j + 1 /\ s[j + 1] \in P
      BY <1>1, <1>2, <2>2
    <3> QED BY <3>1, <1>1, <1>4 DEF Behind
  <2> QED BY <2>1, <2>2, <1>2 DEF Items
<1> QED BY <1>1, <1>3, <1>4

LEMMA Joined ==
    ASSUME NEW S, NEW s \in Seq(S), NEW t \in Seq(S)
    PROVE  /\ s \o t \in Seq(S)
           /\ s # <<>> => s \o t # <<>> /\ Head(s \o t) = Head(s)
           /\ Items(s \o t) = Items(s) \cup Items(t)
           /\ \A P, Q : Behind(s, P, Q) /\ Items(t) \cap P = {}
                        => Behind(s \o t, P, Q)
<1>1. /\ s \o t \in Seq(S) /\ Len(s) \in Nat /\ Len(t) \in Nat
      /\ Len(s \o t) = Len(s) + Len(t)
      /\ \A i \in 1 .. Len(s) : (s \o t)[i] = s[i]
      /\ \A i \in Len(s) + 1 .. Len(s) + Len(t) : (s \o t)[i] = t[i - Len(s)]
  BY ConcatProperties
<1>2. DOMAIN s = 1 .. Len(s) /\ DOMAIN t = 1 .. Len(t)
      /\ DOMAIN (s \o t) = 1 .. Len(s) + Len(t)
  BY <1>1
<1>3. s # <<>> => s \o t # <<>> /\ Head(s \o t) = Head(s)
  <2> SUFFICES ASSUME s # <<>> PROVE s \o t # <<>> /\ Head(s \o t) = Head(s)
    OBVIOUS
  <2>1. Len(s) > 0 /\ Len(s \o t) > 0
    BY <1>1, EmptySeq
  <2>2. s \o t # <<>>
    BY <2>1, <1>1
  <2>3. (s \o t)[1] = s[1]
    BY <2>1, <1>1
  <2> QED BY <2>2, <2>3, <1>1
<1>4. Items(s \o t) = Items(s) \cup Items(t)
  <2>1. ASSUME NEW i \in 1 .. Len(s) + Len(t)
        PROVE  (s \o t)[i] \in Items(s) \cup Items(t)
    <3>1. CASE i <= Len(s)
      BY <3>1, <1>1, <1>2 DEF Items
    <3>2. CASE i > Len(s)
      <4>1. i - Len(s) \in DOMAIN t /\ (s \o t)[i] = t[i - Len(s)]
        BY <3>2, <1>1, <1>2
      <4> QED BY <4>1 DEF Items
    <3> QED BY <3>1, <3>2, <1>1
  <2>2. ASSUME NEW i \in 1 .. Len(s) PROVE s[i] \in Items(s \o t)
    BY <1>1, <1>2 DEF Items
  <2>3. ASSUME NEW i \in 1 .. Len(t) PROVE t[i] \in Items(s \o t)
    <3>1. Len(s) + i \in DOMAIN (s \o t) /\ (s \o t)[Len(s) + i] = t[i]
      BY <1>1, <1>2
    <3> QED BY <3>1 DEF Items
  <2> QED BY <2>1, <2>2, <2>3, <1>2 DEF Items
<1>5. ASSUME NEW P, NEW Q, Behind(s, P, Q), Items(t) \cap P = {}
      PROVE  Behind(s \o t, P, Q)
  <2> SUFFICES ASSUME NEW i \in 1 .. Len(s) + Len(t), NEW j \in 1 .. Len(s) + Len(t),
                      i < j, (s \o t)[j] \in P
               PROVE  (s \o t)[i] \in Q
    BY <1>2 DEF Behind
  <2>1. j <= Len(s)
    <3> SUFFICES ASSUME j > Len(s) PROVE FALSE
      BY <1>1
    <3>1. j - Len(s) \in DOMAIN t /\ (s \o t)[j] = t[j - Len(s)]
      BY <1>1, <1>2
    <3> QED BY <3>1, <1>5 DEF Items
  <2> QED BY <2>1, <1>1, <1>2, <1>5 DEF Behind
<1> QED BY <1>1, <1>3, <1>4, <1>5

LEMMA None ==
    ASSUME NEW s, NEW P, NEW Q, Items(s) \cap P = {}
    PROVE  Behind(s, P, Q)
BY DEF Items, Behind

LEMMA Empty == \A S : <<>> \in Seq(S) /\ Items(<<>>) = {}
BY DEF Items

(* A prefix, marked as of a connection that is gone.                       *)
LEMMA AgedPrefix ==
    ASSUME NEW R \in {Stanzas, Blocks},
           NEW s \in Seq(R), NEW n \in 0 .. Len(s), NEW t, t = Aged(SubSeq(s, 1, n))
    PROVE  /\ t \in Seq(R)
           /\ n > 0 => s # <<>> /\ t # <<>> /\ Head(t).kind = Head(s).kind
           /\ \A x \in Items(t) : x.old /\ \E y \in Items(s) : y.kind = x.kind /\ y.m = x.m
<1> DEFINE u == SubSeq(s, 1, n)
<1>1. Len(s) \in Nat /\ DOMAIN s = 1 .. Len(s) /\ \A i \in 1 .. Len(s) : s[i] \in R
  BY LenProperties, ElementOfSeq
<1>2. u \in Seq(R) /\ Len(u) = n /\ \A i \in 1 .. n : u[i] = s[i]
  BY <1>1, SubSeqProperties
<1>3. DOMAIN u = 1 .. n
  BY <1>2
<1>4. t = [i \in 1 .. n |-> [u[i] EXCEPT !.old = TRUE]]
  BY <1>3 DEF Aged
<1>5. \A i \in 1 .. n : /\ u[i] \in R /\ t[i] \in R /\ t[i].old
                        /\ t[i].kind = s[i].kind /\ t[i].m = s[i].m
  <2> SUFFICES ASSUME NEW i \in 1 .. n
               PROVE  /\ u[i] \in R /\ t[i] \in R /\ t[i].old
                      /\ t[i].kind = s[i].kind /\ t[i].m = s[i].m
    OBVIOUS
  <2>1. u[i] \in R /\ u[i] = s[i]
    BY <1>1, <1>2
  <2>2. t[i] = [u[i] EXCEPT !.old = TRUE]
    BY <1>4
  <2>3. CASE R = Stanzas
    <3>1. u[i] \in Stanzas
      BY <2>1, <2>3
    <3>2. t[i] \in Stanzas /\ t[i].old /\ t[i].kind = u[i].kind /\ t[i].m = u[i].m
      BY <3>1, <2>2 DEF Stanzas
    <3> QED BY <3>2, <2>1, <2>3
  <2>4. CASE R = Blocks
    <3>1. u[i] \in Blocks
      BY <2>1, <2>4
    <3>2. t[i] \in Blocks /\ t[i].old /\ t[i].kind = u[i].kind /\ t[i].m = u[i].m
      BY <3>1, <2>2 DEF Blocks
    <3> QED BY <3>2, <2>1, <2>4
  <2> QED BY <2>3, <2>4
<1>6. t \in Seq(R) /\ Len(t) = n /\ DOMAIN t = 1 .. n
  <2> HIDE DEF u
  <2>1. t \in [1 .. n -> R] /\ n \in Nat
    BY <1>4, <1>5
  <2> QED BY <2>1
<1>7. n > 0 => s # <<>> /\ t # <<>> /\ Head(t).kind = Head(s).kind
  <2> SUFFICES ASSUME n > 0 PROVE s # <<>> /\ t # <<>> /\ Head(t).kind = Head(s).kind
    OBVIOUS
  <2>1. 1 \in 1 .. n /\ 1 \in 1 .. Len(s) /\ s # <<>> /\ t # <<>>
    BY <1>1, <1>6
  <2>2. Head(t) = t[1] /\ Head(s) = s[1]
    BY <2>1, <1>1, <1>6
  <2> QED BY <2>1, <2>2, <1>5
<1>8. \A x \in Items(t) : x.old /\ \E y \in Items(s) : y.kind = x.kind /\ y.m = x.m
  <2> SUFFICES ASSUME NEW i \in 1 .. n
               PROVE  t[i].old /\ \E y \in Items(s) : y.kind = t[i].kind /\ y.m = t[i].m
    <3>1. \A x \in Items(t) : \E i \in 1 .. n : x = t[i]
      BY <1>6 DEF Items
    <3> QED BY <3>1
  <2>1. s[i] \in Items(s)
    BY <1>1 DEF Items
  <2> QED BY <2>1, <1>5
<1> QED BY <1>6, <1>7, <1>8

-----------------------------------------------------------------------------
(* The inductive invariant.                                                *)

Login == {x \in Stanzas : x.kind = "auth" /\ ~x.old}
Read  == {x \in Blocks : x.kind = "read" /\ ~x.old}
Stale == {x \in Stanzas : x.old}
Idle  == {x \in Blocks : x.old \/ x.kind \in {"room"}}

Has(m) == (\E x \in Items(inbox) : x.m = m) \/ (\E x \in Items(blocks) : x.m = m)
WillRead == Items(inbox) \cap Login # {} \/ Items(blocks) \cap Read # {}
WillAsk(m) == WillRead \/ \E i \in DOMAIN asked : asked[i] <= m

(* Stanzas and blocks are about archived messages; those that are not      *)
(* about a message carry none.                                             *)
Bare ==
    /\ \A x \in Items(inbox) \cup Items(blocks) : x.m <= sent
    /\ \A x \in Items(inbox) : x.kind \in {"auth", "fin", "roomMam"} => x.m = 0
    /\ \A x \in Items(blocks) : x.kind \in {"read", "fin", "room"} => x.m = 0

(* MessageStorage's queue waits in the callback for a room's message.      *)
WaitFits == msWaits => inbox # <<>> /\ Head(inbox).kind = "roomMam"

(* Nothing of the present connection is there before it is.                *)
FreshIsUp == ~up => Items(inbox) \subseteq Stale /\ Items(blocks) \subseteq Idle

(* The login comes first of all that a connection brings, on each queue.   *)
LoginFirst ==
    /\ Behind(inbox, Login, Stale)
    /\ Behind(blocks, Read, Idle)
    /\ Items(inbox) \cap Login # {} => Items(blocks) \subseteq Idle

(* A message that is in the database, or was passed over.                  *)
Settled(m) == copies[m] > 0 \/ m \in passed

(* What the server may deliver again has been delivered on this connection *)
(* too.                                                                    *)
Redelivered == up => \A m \in unacked : Has(m) \/ Settled(m)

(* Unless carbons are off or a query failed, a message is settled, here,   *)
(* behind the date, or will be asked for.                                  *)
Covered ==
    up /\ carbons \in {"asked", "on"} /\ ~failed =>
       \A m \in 1 .. sent : Settled(m) \/ Has(m) \/ m <= lastFetch \/ WillAsk(m)

(* Until carbons are answered, the archive will be asked for what comes    *)
(* next.                                                                   *)
CarbonsFit == up /\ carbons = "asked" => WillAsk(sent + 1)

IndInv == /\ Bare /\ WaitFits /\ FreshIsUp /\ LoginFirst
          /\ Redelivered /\ Covered /\ CarbonsFit

LEMMA ItemFacts ==
    /\ \A k \in StanzaKinds, m \in 0 .. MaxMessages : Item(k, m) \in Stanzas
    /\ \A k \in BlockKinds, m \in 0 .. MaxMessages : Item(k, m) \in Blocks
    /\ \A k, m : Item(k, m).kind = k /\ Item(k, m).m = m /\ Item(k, m).old = FALSE
BY DEF Item, Stanzas, Blocks

LEMMA TypeFacts ==
    ASSUME TypeOK
    PROVE  /\ sent \in Nat /\ MaxMessages \in Nat /\ sent <= MaxMessages /\ 0 <= sent
           /\ unacked \subseteq 1 .. sent /\ 1 .. sent \subseteq Messages
           /\ Items(inbox) \subseteq Stanzas /\ Items(blocks) \subseteq Blocks
           /\ \A x \in Items(inbox) \cup Items(blocks) : x.m \in Nat
           /\ lastFetch \in Int
<1>1. /\ sent \in Nat /\ MaxMessages \in Nat /\ sent <= MaxMessages /\ 0 <= sent
      /\ unacked \subseteq 1 .. sent /\ 1 .. sent \subseteq Messages
      /\ lastFetch \in Int
  BY HistoryAssumption DEF TypeOK, Messages, Never
<1>2. Items(inbox) \subseteq Stanzas /\ Items(blocks) \subseteq Blocks
  BY DEF TypeOK, Items
<1>3. \A x \in Stanzas \cup Blocks : x.m \in Nat
  BY <1>1 DEF Stanzas, Blocks
<1> QED BY <1>1, <1>2, <1>3

LEMMA CallDatabaseStep ==
    ASSUME TypeOK, IndInv, CallDatabase
    PROVE  TypeOK' /\ IndInv'
<1> DEFINE e == Item("room", 0)
<1>1. e \in Blocks /\ e.kind = "room" /\ e.m = 0
  BY ItemFacts, HistoryAssumption DEF BlockKinds
<1> HIDE DEF e
<1>2. /\ blocks' \in Seq(Blocks)
      /\ Items(blocks') = Items(blocks) \cup {e}
      /\ \A P, Q : Behind(blocks, P, Q) /\ (e \in P => Items(blocks) \subseteq Q)
                   => Behind(blocks', P, Q)
  BY <1>1, Added DEF TypeOK, CallDatabase, e
<1>3. e \notin Read /\ e \in Idle
  BY <1>1 DEF Read, Idle
<1>4. TypeOK'
  BY <1>2, HistoryAssumption DEF TypeOK, CallDatabase, server, client, stored
<1>5. IndInv'
  <2>1. Bare'
    BY <1>1, <1>2, TypeFacts DEF IndInv, Bare, CallDatabase, server
  <2> QED BY <1>1, <1>2, <1>3, <2>1 DEF IndInv, WaitFits, FreshIsUp, LoginFirst, Redelivered,
       Covered, Settled, CarbonsFit, Has, WillRead, WillAsk, CallDatabase, server, client, stored
<1> QED BY <1>4, <1>5

LEMMA ArchiveStep ==
    ASSUME TypeOK, IndInv, Archive
    PROVE  TypeOK' /\ IndInv'
<1>1. /\ sent \in Nat /\ sent' = sent + 1 /\ sent' \in 1 .. MaxMessages
      /\ unacked' = unacked \cup (Direct \cap {sent'})
      /\ up' = up /\ carbons' = carbons /\ asked' = asked /\ blocks' = blocks
      /\ lastFetch' = lastFetch /\ copies' = copies /\ passed' = passed /\ msWaits' = msWaits
      /\ failed' = failed /\ strangers' = strangers
      /\ lastFetch \in {Never} \cup 0 .. sent
  BY HistoryAssumption DEF Archive, TypeOK, client, stored
<1>2. CASE inbox' = inbox
  <2>1. TypeOK'
    BY <1>1, <1>2, HistoryAssumption DEF TypeOK, Archive, client, stored, Never
  <2>2. ~up \/ (sent' \notin Direct /\ carbons # "on")
    <3>1. inbox \in Seq(Stanzas) /\ \A k \in StanzaKinds : Item(k, sent') \in Stanzas
      BY <1>1, ItemFacts DEF TypeOK
    <3>2. \A k \in StanzaKinds : Append(inbox, Item(k, sent')) # inbox
      BY <3>1, AppendProperties
    <3> QED BY <1>2, <3>2 DEF Archive, StanzaKinds
  <2>3. Redelivered'
    BY <1>1, <1>2, <2>2 DEF IndInv, Redelivered, Settled, Has
  <2>4. Covered'
    <3> SUFFICES ASSUME up, carbons \in {"asked", "on"}, ~failed
                 PROVE  \A m \in 1 .. sent + 1 : Settled(m) \/ Has(m) \/ m <= lastFetch \/ WillAsk(m)
      BY <1>1, <1>2 DEF Covered, Settled, Has, WillAsk, WillRead
    <3>1. WillAsk(sent + 1)
      BY <2>2 DEF IndInv, CarbonsFit, TypeOK
    <3> QED BY <1>1, <3>1 DEF IndInv, Covered
  <2>5. CarbonsFit'
    <3>1. WillAsk(sent + 1) => WillAsk(sent + 1)'
      <4>1. \A i \in DOMAIN asked : asked[i] \in Int
        BY HistoryAssumption DEF TypeOK
      <4> QED BY <4>1, <1>1, <1>2 DEF WillAsk, WillRead
    <3> QED BY <1>1, <3>1 DEF IndInv, CarbonsFit
  <2>6. Bare'
    BY <1>1, <1>2, TypeFacts DEF IndInv, Bare
  <2> QED BY <1>1, <1>2, <2>1, <2>3, <2>4, <2>5, <2>6
         DEF IndInv, WaitFits, FreshIsUp, LoginFirst
<1>3. ASSUME NEW k \in {"live", "carbon"}, up, inbox' = Append(inbox, Item(k, sent'))
      PROVE  TypeOK' /\ IndInv'
  <2> DEFINE e == Item(k, sent')
  <2>1. e \in Stanzas /\ e.kind = k /\ e.m = sent'
    BY <1>1, ItemFacts DEF StanzaKinds
  <2> HIDE DEF e
  <2>2. /\ inbox' \in Seq(Stanzas) /\ inbox' # <<>>
        /\ inbox # <<>> => Head(inbox') = Head(inbox)
        /\ Items(inbox') = Items(inbox) \cup {e}
        /\ \A P, Q : Behind(inbox, P, Q) /\ (e \in P => Items(inbox) \subseteq Q)
                     => Behind(inbox', P, Q)
    BY <1>3, <2>1, Added DEF TypeOK, e
  <2>3. e \notin Login
    BY <2>1 DEF Login
  <2>4. TypeOK'
    BY <1>1, <2>2, HistoryAssumption DEF TypeOK, Archive, client, stored, Never
  <2>5. Bare' /\ WaitFits' /\ FreshIsUp' /\ LoginFirst'
    <3>1. Bare'
      <4>1. \A x \in Items(inbox) \cup Items(blocks) : x.m <= sent'
        BY <1>1, TypeFacts DEF IndInv, Bare
      <4>2. e.m <= sent' /\ e.kind \notin {"auth", "fin", "roomMam"}
        BY <1>1, <2>1
      <4> QED BY <1>1, <2>2, <4>1, <4>2 DEF IndInv, Bare
    <3> QED BY <1>1, <1>3, <2>2, <2>3, <3>1 DEF IndInv, WaitFits, FreshIsUp, LoginFirst
  <2>6. \A m : (Has(m) => Has(m)') /\ (m = sent' => Has(m)')
    BY <1>1, <2>1, <2>2 DEF Has
  <2>7. \A m : WillAsk(m) => WillAsk(m)'
    BY <1>1, <2>2 DEF WillAsk, WillRead
  <2>8. Redelivered'
    BY <1>1, <2>6 DEF IndInv, Redelivered, Settled
  <2>9. Covered'
    <3>1. \A m \in 1 .. sent + 1 : m = sent' \/ m \in 1 .. sent
      BY <1>1
    <3> QED BY <1>1, <3>1, <2>6, <2>7 DEF IndInv, Covered, Settled
  <2>10. CarbonsFit'
    <3>1. WillAsk(sent + 1) => WillAsk(sent + 1)'
      <4>1. \A i \in DOMAIN asked : asked[i] \in Int
        BY HistoryAssumption DEF TypeOK
      <4> QED BY <4>1, <1>1, <2>2 DEF WillAsk, WillRead
    <3> QED BY <1>1, <3>1 DEF IndInv, CarbonsFit
  <2> QED BY <2>4, <2>5, <2>8, <2>9, <2>10 DEF IndInv
<1> QED BY <1>2, <1>3 DEF Archive

LEMMA AcknowledgeStep ==
    ASSUME TypeOK, IndInv, Acknowledge
    PROVE  TypeOK' /\ IndInv'
<1>1. TypeOK'
  BY DEF TypeOK, Acknowledge, client, stored
<1>2. IndInv'
  BY DEF IndInv, Bare, WaitFits, FreshIsUp, LoginFirst, Redelivered, Covered, Settled,
       CarbonsFit, Has, WillRead, WillAsk, Acknowledge, client, stored
<1> QED BY <1>1, <1>2

LEMMA CarbonsAnsweredStep ==
    ASSUME TypeOK, IndInv, CarbonsAnswered
    PROVE  TypeOK' /\ IndInv'
<1>1. /\ up /\ carbons = "asked" /\ carbons' \in {"on", "off"}
      /\ UNCHANGED <<server, fetching, lastFetch, stored, up, inbox, blocks, msWaits,
                     rmWaits, cuts, fetches>>
  BY DEF CarbonsAnswered
<1>2. TypeOK'
  BY <1>1 DEF TypeOK, server, stored
<1>3. Bare' /\ WaitFits' /\ FreshIsUp' /\ LoginFirst' /\ CarbonsFit'
  BY <1>1 DEF IndInv, Bare, WaitFits, FreshIsUp, LoginFirst, CarbonsFit, server
<1>4. Redelivered' /\ Covered'
  BY <1>1 DEF IndInv, Redelivered, Covered, Settled, Has, WillRead, WillAsk, server, stored
<1> QED BY <1>2, <1>3, <1>4 DEF IndInv

LEMMA AuthenticateStep ==
    ASSUME TypeOK, IndInv, Authenticate
    PROVE  TypeOK' /\ IndInv'
<1>1. PICK again \in [1 .. Cardinality(unacked) -> unacked] :
        /\ \A i, j \in DOMAIN again : i < j => again[i] < again[j]
        /\ inbox' = Append(inbox, Item("auth", 0))
                      \o [i \in DOMAIN again |-> Item("late", again[i])]
  BY DEF Authenticate
<1> DEFINE n == Cardinality(unacked)
           e == Item("auth", 0)
           s == Append(inbox, e)
           t == [i \in 1 .. n |-> Item("late", again[i])]
<1>2. /\ ~up /\ up' /\ carbons' = (IF carbons = "off" THEN "asked" ELSE carbons)
      /\ UNCHANGED <<server, fetching, lastFetch, stored, blocks, msWaits, rmWaits,
                     cuts, fetches>>
      /\ inbox' = s \o t /\ DOMAIN again = 1 .. n
  BY <1>1 DEF Authenticate
<1>3. n \in Nat /\ IsFiniteSet(unacked) /\ unacked \subseteq 1 .. MaxMessages
  <2>1. unacked \subseteq 1 .. MaxMessages /\ MaxMessages \in Nat
    BY HistoryAssumption DEF TypeOK
  <2>2. IsFiniteSet(1 .. MaxMessages)
    BY <2>1, FS_Interval
  <2>3. IsFiniteSet(unacked)
    BY <2>1, <2>2, FS_Subset
  <2> QED BY <2>1, <2>3, FS_CardinalityType
<1>a. \A i \in 1 .. n : again[i] \in 0 .. MaxMessages /\ again[i] \in Int
  <2>1. \A m \in unacked : m \in 0 .. MaxMessages /\ m \in Int
    BY <1>3, HistoryAssumption
  <2>2. \A i \in 1 .. n : again[i] \in unacked
    BY <1>1
  <2> QED BY <2>1, <2>2
<1>4. \A m \in unacked : \E i \in 1 .. n : again[i] = m
  <2>1. \A i, j \in 1 .. n : again[i] = again[j] => i = j
    <3> SUFFICES ASSUME NEW i \in 1 .. n, NEW j \in 1 .. n, again[i] = again[j], i # j
                 PROVE  FALSE
      OBVIOUS
    <3>1. i < j \/ j < i
      BY <1>3
    <3> QED BY <3>1, <1>a, <1>1, <1>2
  <2>2. again \in Injection(1 .. n, unacked)
    BY <2>1, <1>1 DEF Injection, IsInjective
  <2>3. Cardinality(1 .. n) = n
    BY <1>3, FS_Interval
  <2>4. again \in Surjection(1 .. n, unacked)
    BY <2>2, <2>3, <1>3, FS_Injection
  <2> QED BY <2>4 DEF Surjection
<1>5. e \in Stanzas /\ e.kind = "auth" /\ e.m = 0 /\ e \in Login
  BY ItemFacts, HistoryAssumption DEF StanzaKinds, Login
<1>6. /\ t \in Seq(Stanzas)
      /\ \A x \in Items(t) : x.kind = "late" /\ x \in Stanzas /\ x.m \in unacked
      /\ \A m \in unacked : \E x \in Items(t) : x.m = m
  <2>1. \A i \in 1 .. n : t[i] \in Stanzas /\ t[i].kind = "late" /\ t[i].m = again[i]
    BY <1>a, ItemFacts DEF StanzaKinds
  <2>2. DOMAIN t = 1 .. n /\ t \in [1 .. n -> Stanzas]
    BY <2>1
  <2> HIDE DEF t
  <2>3. t \in Seq(Stanzas)
    BY <2>2, <1>3
  <2>4. \A m \in unacked : \E x \in Items(t) : x.m = m
    BY <2>1, <2>2, <1>4 DEF Items
  <2>5. \A i \in 1 .. n : again[i] \in unacked
    BY <1>1
  <2> QED BY <2>1, <2>2, <2>3, <2>4, <2>5 DEF Items
<1> HIDE DEF e, t, s, n
<1>7. /\ s \in Seq(Stanzas) /\ s # <<>> /\ (inbox # <<>> => Head(s) = Head(inbox))
      /\ Items(s) = Items(inbox) \cup {e}
      /\ Behind(s, Login, Stale)
  <2>1. Items(inbox) \subseteq Stale /\ Behind(inbox, Login, Stale) /\ inbox \in Seq(Stanzas)
    BY <1>2 DEF IndInv, FreshIsUp, LoginFirst, TypeOK
  <2> QED BY <2>1, <1>5, Added DEF s
<1>8. /\ inbox' \in Seq(Stanzas) /\ inbox' # <<>> /\ Head(inbox') = Head(s)
      /\ Items(inbox') = Items(inbox) \cup {e} \cup Items(t)
      /\ Behind(inbox', Login, Stale)
  <2>1. Items(t) \cap Login = {}
    BY <1>6 DEF Login
  <2> QED BY <2>1, <1>2, <1>6, <1>7, Joined
<1>9. TypeOK'
  BY <1>2, <1>8 DEF TypeOK, server, stored
<1>10. WillRead'
  BY <1>5, <1>8 DEF WillRead
<1>11. IndInv'
  <2>1. Bare' /\ WaitFits' /\ FreshIsUp'
    <3>1. Bare'
      <4>1. \A x \in Items(t) : x.m <= sent /\ x.kind = "late"
        BY <1>6, TypeFacts
      <4> QED BY <1>2, <1>5, <1>7, <1>8, <4>1, TypeFacts DEF IndInv, Bare, server
    <3> QED BY <1>2, <1>7, <1>8, <3>1 DEF IndInv, WaitFits, FreshIsUp
  <2>2. LoginFirst'
    BY <1>2, <1>8 DEF IndInv, FreshIsUp, LoginFirst
  <2>3. Redelivered'
    BY <1>2, <1>6, <1>8 DEF Redelivered, Has, server, stored
  <2>4. Covered' /\ CarbonsFit'
    BY <1>2, <1>10 DEF Covered, CarbonsFit, WillAsk
  <2> QED BY <2>1, <2>2, <2>3, <2>4 DEF IndInv
<1> QED BY <1>9, <1>11

LEMMA DropStep ==
    ASSUME TypeOK, IndInv, NEW n \in 0 .. Len(inbox), Drop(n)
    PROVE  TypeOK' /\ IndInv'
<1>1. inbox \in Seq(Stanzas) /\ blocks \in Seq(Blocks)
  BY DEF TypeOK
<1>2. /\ inbox' \in Seq(Stanzas)
      /\ n > 0 => inbox # <<>> /\ inbox' # <<>> /\ Head(inbox').kind = Head(inbox).kind
      /\ \A x \in Items(inbox') : /\ x.old
                                  /\ \E y \in Items(inbox) : y.kind = x.kind /\ y.m = x.m
  <2>1. inbox' = Aged(SubSeq(inbox, 1, n))
    BY DEF Drop
  <2> QED BY <1>1, <2>1, AgedPrefix
<1>3. /\ blocks' \in Seq(Blocks)
      /\ \A x \in Items(blocks') : /\ x.old
                                   /\ \E y \in Items(blocks) : y.kind = x.kind /\ y.m = x.m
  <2>1. Len(blocks) \in 0 .. Len(blocks) /\ SubSeq(blocks, 1, Len(blocks)) = blocks
    BY <1>1, SubSeqFull
  <2>2. blocks' = Aged(SubSeq(blocks, 1, Len(blocks)))
    BY <2>1 DEF Drop
  <2> QED BY <1>1, <2>1, <2>2, AgedPrefix
<1>4. /\ \A x \in Items(inbox') : x \in Stanzas /\ x \notin Login /\ x \in Stale
      /\ \A x \in Items(blocks') : x \in Blocks /\ x \notin Read /\ x \in Idle
  BY <1>2, <1>3 DEF Items, Login, Read, Stale, Idle
<1>5. TypeOK'
  <2>1. asked' = <<>> /\ <<>> \in Seq(1 .. MaxMessages + 1)
    BY Empty DEF Drop
  <2>2. /\ carbons' \in {"off", "lost"} /\ cuts' \in 0 .. MaxEvents
        /\ roomAsked' = 0 /\ failed' = FALSE /\ up' = FALSE
    BY HistoryAssumption DEF TypeOK, Drop
  <2>3. UNCHANGED <<sent, unacked, fetching, lastFetch, stored, msWaits, rmWaits, fetches>>
    BY DEF Drop
  <2> QED BY <2>1, <2>2, <2>3, <1>2, <1>3 DEF TypeOK, stored
<1>6. IndInv'
  <2>1. Bare'
    BY <1>2, <1>3 DEF IndInv, Bare, Drop
  <2>2. WaitFits'
    BY <1>2 DEF IndInv, WaitFits, Drop
  <2>3. LoginFirst'
    BY <1>4, None DEF LoginFirst
  <2> QED BY <2>1, <2>2, <2>3, <1>4
         DEF IndInv, FreshIsUp, Redelivered, Covered, Settled, CarbonsFit, Drop
<1> QED BY <1>5, <1>6

LEMMA RestartStep ==
    ASSUME TypeOK, IndInv, Restart
    PROVE  TypeOK' /\ IndInv'
<1>1. /\ inbox' = <<>> /\ blocks' = <<>> /\ asked' = <<>> /\ ~up' /\ ~msWaits'
      /\ Items(inbox') = {} /\ Items(blocks') = {}
  BY Empty DEF Restart
<1>2. TypeOK'
  <2>1. /\ inbox' \in Seq(Stanzas) /\ blocks' \in Seq(Blocks)
        /\ asked' \in Seq(1 .. MaxMessages + 1)
    BY <1>1, Empty
  <2>2. cuts' \in 0 .. MaxEvents /\ roomAsked' = 0
    BY HistoryAssumption DEF TypeOK, Restart
  <2>3. /\ up' = FALSE /\ carbons' = "off" /\ msWaits' = FALSE /\ rmWaits' = FALSE
        /\ fetching' = FALSE /\ failed' = FALSE
        /\ UNCHANGED <<sent, unacked, lastFetch, stored, fetches>>
    BY DEF Restart
  <2>4. asked' = <<>>
    BY <1>1
  <2> QED BY <2>1, <2>2, <2>3, <2>4 DEF TypeOK, stored
<1>3. LoginFirst'
  BY <1>1, None DEF LoginFirst
<1> QED BY <1>1, <1>2, <1>3
       DEF IndInv, Bare, WaitFits, FreshIsUp, Redelivered, Covered, Settled, CarbonsFit

LEMMA AnswerQueryStep ==
    ASSUME TypeOK, IndInv, AnswerQuery
    PROVE  TypeOK' /\ IndInv'
<1>1. /\ up /\ carbons # "asked" /\ asked \in Seq(1 .. MaxMessages + 1) /\ asked # <<>>
      /\ inbox \in Seq(Stanzas) /\ sent \in 0 .. MaxMessages /\ MaxMessages \in Nat
      /\ UNCHANGED <<client, up, sent, unacked, roomAsked, failed, blocks, msWaits, rmWaits,
                     cuts, fetches>>
  BY HistoryAssumption DEF AnswerQuery, TypeOK
<1>2. /\ Len(asked) \in Nat /\ Len(asked) > 0 /\ DOMAIN asked = 1 .. Len(asked)
      /\ Head(asked) = asked[1] /\ \A i \in 1 .. Len(asked) : asked[i] \in 1 .. MaxMessages + 1
  BY <1>1, EmptySeq
<1>3. PICK e \in Stanzas : /\ inbox' = Append(inbox, e) /\ e \notin Login
                           /\ e.kind = "mam" \/ (e.kind = "fin" /\ e.m = 0)
                           /\ Head(asked) <= sent => e.m = Head(asked)
                           /\ e.m <= sent
  <2>1. CASE Head(asked) <= sent
    <3>1. Item("mam", Head(asked)) \in Stanzas
      BY <1>1, <1>2, <2>1, ItemFacts DEF StanzaKinds
    <3> QED BY <3>1, <2>1, ItemFacts DEF AnswerQuery, Login
  <2>2. CASE ~(Head(asked) <= sent)
    <3>1. Item("fin", 0) \in Stanzas
      BY <1>1, ItemFacts DEF StanzaKinds
    <3> QED BY <1>1, <3>1, <2>2, ItemFacts DEF AnswerQuery, Login
  <2> QED BY <2>1, <2>2
<1>4. /\ inbox' \in Seq(Stanzas) /\ inbox' # <<>>
      /\ inbox # <<>> => Head(inbox') = Head(inbox)
      /\ Items(inbox') = Items(inbox) \cup {e}
      /\ Behind(inbox, Login, Stale) => Behind(inbox', Login, Stale)
  BY <1>1, <1>3, Added
<1>5. /\ asked' \in Seq(1 .. MaxMessages + 1)
      /\ \A m \in 1 .. sent : (\E i \in DOMAIN asked : asked[i] <= m)
            => e.m = m \/ \E i \in DOMAIN asked' : asked'[i] <= m
  <2>1. CASE Head(asked) <= sent
    <3>1. asked' = [asked EXCEPT ![1] = @ + 1] /\ 1 \in 1 .. Len(asked)
      BY <2>1, <1>2 DEF AnswerQuery
    <3>2. asked[1] + 1 \in 1 .. MaxMessages + 1
      BY <1>1, <1>2, <2>1
    <3>3. asked' \in Seq(1 .. MaxMessages + 1) /\ Len(asked') = Len(asked)
      BY <3>1, <3>2, <1>1, ExceptSeq
    <3>4. DOMAIN asked' = 1 .. Len(asked)
      BY <3>1, <1>2
    <3>5. ASSUME NEW m \in 1 .. sent, NEW i \in 1 .. Len(asked), asked[i] <= m
          PROVE  e.m = m \/ \E j \in 1 .. Len(asked) : asked'[j] <= m
      <4>1. CASE i = 1 /\ asked[1] = m
        <5>1. e.m = asked[1]
          BY <1>2, <1>3, <2>1
        <5> QED BY <4>1, <5>1
      <4>2. CASE i = 1 /\ asked[1] # m
        <5>1. asked'[1] = asked[1] + 1
          BY <3>1, <1>2
        <5>2. asked[1] \in Int /\ asked[1] <= m /\ m \in Int
          BY <4>2, <3>5, <1>2
        <5>3. asked[1] + 1 <= m
          BY <5>2, <4>2
        <5> QED BY <5>1, <5>3, <3>1
      <4>3. CASE i # 1
        BY <4>3, <3>1, <3>5, <1>2
      <4> QED BY <4>1, <4>2, <4>3
    <3> QED BY <3>3, <3>4, <3>5, <1>2
  <2>2. CASE ~(Head(asked) <= sent)
    <3>1. asked' = Tail(asked)
      BY <2>2 DEF AnswerQuery
    <3>2. /\ asked' \in Seq(1 .. MaxMessages + 1) /\ Len(asked') = Len(asked) - 1
          /\ \A i \in 1 .. Len(asked) - 1 : asked'[i] = asked[i + 1]
      BY <3>1, <1>1, <1>2, HeadTailProperties
    <3>3. DOMAIN asked' = 1 .. Len(asked) - 1
      BY <3>2, <1>2
    <3>4. ASSUME NEW m \in 1 .. sent, NEW i \in 1 .. Len(asked), asked[i] <= m
          PROVE  \E j \in 1 .. Len(asked) - 1 : asked'[j] <= m
      <4>1. i # 1
        <5>1. asked[1] \in Int /\ sent \in Int /\ m \in Int /\ m <= sent
          BY <1>1, <1>2
        <5> QED BY <5>1, <2>2, <3>4, <1>2
      <4>2. i - 1 \in 1 .. Len(asked) - 1 /\ asked'[i - 1] = asked[i]
        BY <4>1, <3>2, <1>2
      <4> QED BY <4>2, <3>4
    <3> QED BY <3>2, <3>3, <3>4, <1>2
  <2> QED BY <2>1, <2>2
<1>6. TypeOK'
  BY <1>1, <1>4, <1>5 DEF TypeOK, client, stored
<1>7. IndInv'
  <2>1. Bare' /\ WaitFits' /\ FreshIsUp' /\ LoginFirst'
    <3>1. Bare'
      BY <1>1, <1>3, <1>4 DEF IndInv, Bare
    <3>2. WaitFits' /\ FreshIsUp'
      BY <1>1, <1>4 DEF IndInv, WaitFits, FreshIsUp
    <3>3. LoginFirst'
      BY <1>1, <1>3, <1>4 DEF IndInv, LoginFirst
    <3> QED BY <3>1, <3>2, <3>3
  <2>2. \A m : (Has(m) => Has(m)') /\ (m = e.m => Has(m)')
    BY <1>1, <1>4 DEF Has
  <2>3. WillRead => WillRead'
    BY <1>1, <1>4 DEF WillRead
  <2>4. \A m \in 1 .. sent : WillAsk(m) => WillAsk(m)' \/ Has(m)'
    BY <1>5, <2>2, <2>3 DEF WillAsk
  <2>5. Redelivered' /\ Covered' /\ CarbonsFit'
    BY <1>1, <2>2, <2>4 DEF IndInv, Redelivered, Covered, Settled, CarbonsFit, client, stored
  <2> QED BY <2>1, <2>5 DEF IndInv
<1> QED BY <1>6, <1>7

LEMMA AnswerRoomStep ==
    ASSUME TypeOK, IndInv, AnswerRoom
    PROVE  TypeOK' /\ IndInv'
<1> DEFINE d == Item("roomMam", 0)
           e == Item("fin", 0)
<1>1. /\ d \in Stanzas /\ d.kind = "roomMam" /\ d.m = 0 /\ d \notin Login
      /\ e \in Stanzas /\ e.kind = "fin" /\ e.m = 0 /\ e \notin Login
  BY ItemFacts, HistoryAssumption DEF StanzaKinds, Login
<1>2. /\ up /\ roomAsked > 0 /\ roomAsked' = roomAsked - 1
      /\ inbox' = inbox \o <<d, e>> \/ inbox' = inbox
      /\ UNCHANGED <<client, up, sent, unacked, asked, failed, blocks, msWaits, rmWaits,
                     cuts, fetches>>
  BY DEF AnswerRoom
<1>9. roomAsked' \in Nat
  BY <1>2 DEF TypeOK
<1> HIDE DEF d, e
<1>7. CASE inbox' = inbox
  <2>1. TypeOK'
    BY <1>2, <1>7, <1>9 DEF TypeOK, client, stored
  <2>2. IndInv'
    BY <1>2, <1>7 DEF IndInv, Bare, WaitFits, FreshIsUp, LoginFirst, Redelivered, Covered,
       Settled, CarbonsFit, Has, WillRead, WillAsk, client, stored
  <2> QED BY <2>1, <2>2
<1>8. CASE inbox' = inbox \o <<d, e>>
  <2>3. <<d, e>> \in Seq(Stanzas) /\ Items(<<d, e>>) = {d, e}
    <3>1. <<d, e>> \in Seq(Stanzas) /\ DOMAIN <<d, e>> = 1 .. 2
          /\ <<d, e>>[1] = d /\ <<d, e>>[2] = e
      BY <1>1
    <3>2. 1 .. 2 = {1, 2}
      OBVIOUS
    <3> QED BY <3>1, <3>2 DEF Items
  <2>4. /\ inbox' \in Seq(Stanzas)
        /\ inbox # <<>> => inbox' # <<>> /\ Head(inbox') = Head(inbox)
        /\ Items(inbox') = Items(inbox) \cup {d, e}
        /\ Behind(inbox, Login, Stale) => Behind(inbox', Login, Stale)
    <3> DEFINE s == <<d, e>>
    <3>1. /\ s \in Seq(Stanzas) /\ inbox \in Seq(Stanzas) /\ inbox' = inbox \o s
          /\ Items(s) = {d, e} /\ Items(s) \cap Login = {}
      BY <1>1, <1>8, <2>3 DEF TypeOK
    <3> HIDE DEF s
    <3>2. /\ inbox \o s \in Seq(Stanzas)
          /\ inbox # <<>> => inbox \o s # <<>> /\ Head(inbox \o s) = Head(inbox)
          /\ Items(inbox \o s) = Items(inbox) \cup Items(s)
          /\ \A P, Q : Behind(inbox, P, Q) /\ Items(s) \cap P = {}
                      => Behind(inbox \o s, P, Q)
      BY <3>1, Joined
    <3>3. Behind(inbox, Login, Stale) => Behind(inbox', Login, Stale)
      BY <3>1, <3>2
    <3> QED BY <3>1, <3>2, <3>3
  <2>5. TypeOK'
    BY <1>2, <1>9, <2>4 DEF TypeOK, client, stored
  <2>6. IndInv'
    <3>1. Bare'
      BY <1>1, <1>2, <2>4, TypeFacts DEF IndInv, Bare
    <3> QED BY <1>1, <1>2, <2>4, <3>1 DEF IndInv, WaitFits, FreshIsUp, LoginFirst,
         Redelivered, Covered, Settled, CarbonsFit, Has, WillRead, WillAsk, client, stored
  <2> QED BY <2>5, <2>6
<1> QED BY <1>2, <1>7, <1>8

(* A query that fails.                                                     *)
LEMMA QueryFailsStep ==
    ASSUME TypeOK, IndInv, QueryFails
    PROVE  TypeOK' /\ IndInv'
<1>1. /\ asked \in Seq(1 .. MaxMessages + 1) /\ asked # <<>> /\ asked' = Tail(asked)
      /\ up /\ carbons # "asked" /\ failed'
      /\ UNCHANGED <<client, up, sent, unacked, roomAsked, inbox, blocks, msWaits,
                     rmWaits, cuts, fetches>>
  BY DEF QueryFails, TypeOK
<1>2. asked' \in Seq(1 .. MaxMessages + 1)
  BY <1>1, HeadTailProperties
<1>3. failed' \in BOOLEAN
  BY DEF QueryFails
<1>4. TypeOK'
  BY <1>1, <1>2, <1>3 DEF TypeOK, client, stored
<1>5. Bare' /\ WaitFits' /\ FreshIsUp' /\ LoginFirst'
  BY <1>1 DEF IndInv, Bare, WaitFits, FreshIsUp, LoginFirst
<1>6. Redelivered'
  BY <1>1 DEF IndInv, Redelivered, Has, Settled, client, stored
<1>7. Covered' /\ CarbonsFit'
  BY <1>1 DEF Covered, CarbonsFit, client
<1> QED BY <1>4, <1>5, <1>6, <1>7 DEF IndInv

(* The buddy of a message gets into the database.                          *)
LEMMA BuddyStoredStep ==
    ASSUME TypeOK, IndInv, BuddyStored
    PROVE  TypeOK' /\ IndInv'
<1>1. strangers' \subseteq strangers
  BY DEF BuddyStored
<1>2. TypeOK'
  BY <1>1 DEF TypeOK, BuddyStored, server
<1>3. IndInv'
  BY DEF IndInv, Bare, WaitFits, FreshIsUp, LoginFirst, Redelivered, Covered, Settled,
       CarbonsFit, Has, WillRead, WillAsk, BuddyStored, server
<1> QED BY <1>2, <1>3

(* A room's archive is asked for.                                          *)
LEMMA FetchRoomHistoryStep ==
    ASSUME TypeOK, IndInv, FetchRoomHistory
    PROVE  TypeOK' /\ IndInv'
<1>1. roomAsked' \in Nat /\ fetches' \in 0 .. MaxEvents
  BY HistoryAssumption DEF TypeOK, FetchRoomHistory
<1>2. TypeOK'
  BY <1>1 DEF TypeOK, FetchRoomHistory, client, stored
<1>3. IndInv'
  BY DEF IndInv, Bare, WaitFits, FreshIsUp, LoginFirst, Redelivered, Covered, Settled,
       CarbonsFit, Has, WillRead, WillAsk, FetchRoomHistory, client, stored
<1> QED BY <1>2, <1>3

LEMMA AskForRoomStep ==
    ASSUME TypeOK, IndInv, AskForRoom
    PROVE  TypeOK' /\ IndInv'
<1>1. TypeOK'
  BY DEF TypeOK, AskForRoom, client, stored, server
<1>2. IndInv'
  BY DEF IndInv, Bare, WaitFits, FreshIsUp, LoginFirst, Redelivered, Covered, Settled,
       CarbonsFit, Has, WillRead, WillAsk, AskForRoom, client, stored, server
<1> QED BY <1>1, <1>2

LEMMA AnswerRoomForJIDStep ==
    ASSUME TypeOK, IndInv, AnswerRoomForJID
    PROVE  TypeOK' /\ IndInv'
<1> DEFINE h == Head(inbox)
<1>1. /\ inbox \in Seq(Stanzas) /\ inbox # <<>> /\ inbox' = Tail(inbox)
      /\ h.kind = "roomMam" /\ msWaits' = FALSE
      /\ UNCHANGED <<server, client, up, blocks, rmWaits, fetches, cuts>>
  BY DEF TypeOK, IndInv, WaitFits, AnswerRoomForJID
<1>2. /\ inbox' \in Seq(Stanzas) /\ Items(inbox) = {h} \cup Items(inbox')
      /\ Behind(inbox, Login, Stale) => Behind(inbox', Login, Stale)
  BY <1>1, Removed
<1>3. h.m = 0 /\ h \notin Login
  BY <1>1, <1>2 DEF IndInv, Bare, Login
<1> HIDE DEF h
<1>4. TypeOK'
  BY <1>1, <1>2 DEF TypeOK, client, stored, server
<1>5. \A m \in 1 .. sent : Has(m) => Has(m)'
  BY <1>1, <1>2, <1>3 DEF Has
<1>6. unacked \subseteq 1 .. sent
  BY DEF TypeOK
<1>7. IndInv'
  BY <1>1, <1>2, <1>3, <1>5, <1>6 DEF IndInv, Bare, WaitFits, FreshIsUp, LoginFirst,
     Redelivered, Covered, Settled, CarbonsFit, WillRead, WillAsk, client, stored, server
<1> QED BY <1>4, <1>7

(* A stanza that becomes a block.                                          *)
LEMMA ReceiveStep ==
    ASSUME TypeOK, IndInv,
           NEW k \in BlockKinds \ {"room"},
           Receives(StanzaKinds \ {"roomMam"}), Queues(k),
           k = "read" <=> Head(inbox).kind = "auth",
           k = "fin" <=> Head(inbox).kind = "fin",
           fetching' \in BOOLEAN,
           UNCHANGED <<server, up, carbons, lastFetch, stored, msWaits, rmWaits, cuts, fetches>>
    PROVE  TypeOK' /\ IndInv'
<1> DEFINE h == Head(inbox)
           b == [h EXCEPT !.kind = k]
<1>1. /\ inbox \in Seq(Stanzas) /\ inbox # <<>> /\ inbox' = Tail(inbox) /\ ~msWaits
      /\ blocks \in Seq(Blocks) /\ blocks' = Append(blocks, b) /\ h.kind # "roomMam"
  BY DEF TypeOK, Receives, Queues
<1>2. /\ inbox' \in Seq(Stanzas) /\ Items(inbox) = {h} \cup Items(inbox') /\ h \in Stanzas
      /\ Behind(inbox, Login, Stale) =>
           /\ Behind(inbox', Login, Stale)
           /\ Items(inbox') \cap Login # {} => h \in Stale
  BY <1>1, Removed
<1>3. b \in Blocks /\ b.kind = k /\ b.m = h.m /\ b.old = h.old
  BY <1>2 DEF Stanzas, Blocks
<1>b. /\ k = "read" <=> h.kind = "auth"
      /\ k = "fin" <=> h.kind = "fin"
      /\ k \notin {"room"}
  OBVIOUS
<1> HIDE DEF b, h
<1>4. /\ h.kind \in {"auth", "fin"} <=> b.kind \in {"read", "fin"}
      /\ b.kind \notin {"room"}
      /\ h \in Login <=> b \in Read
      /\ h \in Stale <=> b \in Idle
  BY <1>2, <1>3, <1>b DEF Login, Read, Stale, Idle
<1>5. /\ blocks' \in Seq(Blocks) /\ Items(blocks') = Items(blocks) \cup {b}
      /\ Behind(blocks, Read, Idle) /\ (b \in Read => Items(blocks) \subseteq Idle)
           => Behind(blocks', Read, Idle)
  BY <1>1, <1>3, Added
<1>6. TypeOK'
  BY <1>2, <1>5 DEF TypeOK, server, stored
<1>7. Bare' /\ WaitFits' /\ FreshIsUp'
  <2>1. Bare'
    BY <1>2, <1>3, <1>4, <1>5 DEF IndInv, Bare, server
  <2>2. WaitFits'
    BY <1>1 DEF WaitFits
  <2>3. FreshIsUp'
    BY <1>2, <1>4, <1>5 DEF IndInv, FreshIsUp
  <2> QED BY <2>1, <2>2, <2>3
<1>8. LoginFirst'
  <2>1. h \in Login => h \notin Stale
    BY DEF Login, Stale
  <2> QED BY <2>1, <1>2, <1>4, <1>5 DEF IndInv, LoginFirst
<1>9. \A m : Has(m) => Has(m)'
  BY <1>2, <1>3, <1>5 DEF Has
<1>10. WillRead => WillRead'
  BY <1>2, <1>4, <1>5 DEF WillRead
<1>11. Redelivered' /\ Covered' /\ CarbonsFit'
  BY <1>9, <1>10 DEF IndInv, Redelivered, Covered, Settled, CarbonsFit, WillAsk, server,
     stored
<1> QED BY <1>6, <1>7, <1>8, <1>11 DEF IndInv

LEMMA DidAuthenticateStep ==
    ASSUME TypeOK, IndInv, DidAuthenticate
    PROVE  TypeOK' /\ IndInv'
BY ReceiveStep DEF DidAuthenticate, Receives, StanzaKinds, BlockKinds

LEMMA ReceiveMessageStep ==
    ASSUME TypeOK, IndInv, ReceiveMessage
    PROVE  TypeOK' /\ IndInv'
<1>1. fetching' \in BOOLEAN
  BY DEF ReceiveMessage, TypeOK, client, stored
<1> QED BY <1>1, ReceiveStep DEF ReceiveMessage, Receives, StanzaKinds, BlockKinds, client, stored

LEMMA DidFinishReceivingStep ==
    ASSUME TypeOK, IndInv, DidFinishReceiving
    PROVE  TypeOK' /\ IndInv'
BY ReceiveStep DEF DidFinishReceiving, Receives, StanzaKinds, BlockKinds

(* The first block is gone.                                                *)
LEMMA BlockRuns ==
    ASSUME TypeOK, IndInv, blocks # <<>>, blocks' = Tail(blocks)
    PROVE  /\ blocks' \in Seq(Blocks) /\ Head(blocks) \in Blocks
           /\ Items(blocks) = {Head(blocks)} \cup Items(blocks')
           /\ Behind(blocks', Read, Idle)
           /\ Items(blocks') \cap Read # {} => Head(blocks) \in Idle
BY Removed DEF TypeOK, IndInv, LoginFirst

(* One that is not of a login, and whose message is settled, may go; the   *)
(* date, the rows and what was passed over only grow.                      *)
LEMMA SaveStep ==
    ASSUME TypeOK, IndInv, blocks # <<>>, blocks' = Tail(blocks),
           Head(blocks).kind # "read",
           \/ Head(blocks).m = 0
           \/ copies'[Head(blocks).m] > 0 \/ Head(blocks).m \in passed',
           \A m \in Messages : copies[m] > 0 => copies'[m] > 0,
           copies' \in [Messages -> Nat],
           passed \subseteq passed', passed' \subseteq Messages,
           lastFetch' \in {Never} \cup 0 .. sent, lastFetch' >= lastFetch,
           rmWaits' \in BOOLEAN,
           UNCHANGED <<server, up, inbox, carbons, fetching, strangers, msWaits, cuts, fetches>>
    PROVE  TypeOK' /\ IndInv'
<1> DEFINE h == Head(blocks)
<1>1. /\ blocks' \in Seq(Blocks) /\ h \in Blocks
      /\ Items(blocks) = {h} \cup Items(blocks')
      /\ Behind(blocks', Read, Idle)
  BY BlockRuns
<1>2. h \notin Read /\ (h.m = 0 \/ copies'[h.m] > 0 \/ h.m \in passed')
  BY DEF Read
<1> HIDE DEF h
<1>3. TypeOK'
  BY <1>1 DEF TypeOK, server
<1>4. /\ sent \in Nat /\ unacked \subseteq 1 .. sent /\ 1 .. sent \subseteq Messages
      /\ lastFetch \in Int /\ lastFetch' \in Int
  BY HistoryAssumption DEF TypeOK, Messages, Never
<1>5. \A m \in 1 .. sent : Settled(m) \/ Has(m) => Settled(m)' \/ Has(m)'
  BY <1>1, <1>2, <1>4 DEF Has, Settled
<1>6. WillRead => WillRead'
  BY <1>1, <1>2 DEF WillRead
<1>7. Bare' /\ WaitFits' /\ FreshIsUp' /\ LoginFirst'
  BY <1>1 DEF IndInv, Bare, WaitFits, FreshIsUp, LoginFirst, server
<1>8. Redelivered'
  BY <1>4, <1>5 DEF IndInv, Redelivered, server
<1>9. Covered'
  BY <1>4, <1>5, <1>6 DEF IndInv, Covered, WillAsk, server
<1>10. CarbonsFit'
  BY <1>6 DEF IndInv, CarbonsFit, WillAsk, server
<1> QED BY <1>3, <1>7, <1>8, <1>9, <1>10 DEF IndInv

LEMMA DiscardMessageStep ==
    ASSUME TypeOK, IndInv, DiscardMessage
    PROVE  TypeOK' /\ IndInv'
<1> DEFINE h == Head(blocks)
<1>1. /\ blocks # <<>> /\ blocks' = Tail(blocks) /\ h.kind \in {"live", "late", "carbon", "mam"}
      /\ h.m \in strangers /\ passed' = passed \cup {h.m}
      /\ UNCHANGED <<server, up, inbox, carbons, fetching, lastFetch, copies, strangers,
                     msWaits, rmWaits, cuts, fetches>>
  BY DEF DiscardMessage, Runs
<1>2. strangers \subseteq Messages
  BY HistoryAssumption DEF TypeOK, Messages
<1>3. /\ passed \subseteq Messages /\ copies \in [Messages -> Nat] /\ rmWaits \in BOOLEAN
      /\ lastFetch \in {Never} \cup 0 .. sent /\ lastFetch >= lastFetch
  BY TypeFacts DEF TypeOK
<1>4. /\ passed \subseteq passed' /\ passed' \subseteq Messages
      /\ copies' \in [Messages -> Nat] /\ rmWaits' \in BOOLEAN
      /\ lastFetch' \in {Never} \cup 0 .. sent /\ lastFetch' >= lastFetch
  BY <1>1, <1>2, <1>3
<1> QED BY <1>1, <1>4, SaveStep

LEMMA SaveMessageStep ==
    ASSUME TypeOK, IndInv, SaveMessage
    PROVE  TypeOK' /\ IndInv'
<1> DEFINE h == Head(blocks)
           date == IF h.kind = "late" THEN h.m ELSE sent
<1>1. /\ blocks # <<>> /\ blocks' = Tail(blocks) /\ h.kind \in {"live", "late", "carbon"}
      /\ UNCHANGED <<server, up, inbox, carbons, fetching, strangers, passed, msWaits, rmWaits,
                     cuts, fetches>>
  BY DEF SaveMessage, Runs
<1>2. h \in Blocks /\ h.m <= sent /\ h.m \in 0 .. MaxMessages
  <2>1. h \in Blocks /\ h \in Items(blocks)
    BY <1>1, BlockRuns
  <2> QED BY <2>1 DEF IndInv, Bare, Blocks
<1>3. date \in 0 .. sent
  BY <1>2 DEF TypeOK
<1> HIDE DEF h, date
<1>4. /\ copies \in [Messages -> Nat] /\ sent \in Int
      /\ lastFetch \in {Never} \cup 0 .. sent
      /\ h.m = 0 \/ h.m \in Messages
  BY <1>2, HistoryAssumption DEF TypeOK, Messages
<1>7. lastFetch \in Int /\ (lastFetch = Never \/ lastFetch >= 0) /\ sent \in Nat
  BY <1>4, HistoryAssumption DEF Never, TypeOK
<1>5. /\ copies' \in [Messages -> Nat]
      /\ h.m = 0 \/ copies'[h.m] > 0
      /\ \A m \in Messages : copies[m] > 0 => copies'[m] > 0
      /\ lastFetch' \in {Never} \cup 0 .. sent /\ lastFetch' >= lastFetch
  <2>1. CASE IsDuplicate(h.m) /\ UNCHANGED <<copies, lastFetch>>
    BY <2>1, <1>4, <1>7 DEF IsDuplicate
  <2>2. CASE copies' = [copies EXCEPT ![h.m] = @ + 1] /\ UpdateLastFetch(date)
    <3>1. /\ copies' \in [Messages -> Nat]
          /\ h.m = 0 \/ copies'[h.m] > 0
          /\ \A m \in Messages : copies[m] > 0 => copies'[m] > 0
      <4>1. CASE h.m \in Messages
        BY <2>2, <1>4, <4>1
      <4>2. CASE h.m = 0
        <5>1. h.m \notin Messages
          BY <4>2, <1>4 DEF Messages
        <5>2. copies' = copies
          BY <2>2, <1>4, <5>1
        <5> QED BY <4>2, <5>2, <1>4
      <4> QED BY <1>4, <4>1, <4>2
    <3>2. lastFetch' \in {Never} \cup 0 .. sent /\ lastFetch' >= lastFetch
      BY <2>2, <1>3, <1>4, <1>7 DEF UpdateLastFetch
    <3> QED BY <3>1, <3>2
  <2> QED BY <2>1, <2>2 DEF SaveMessage, h, date
<1>6. rmWaits' \in BOOLEAN /\ passed' \subseteq Messages
  BY <1>1 DEF TypeOK
<1> QED BY <1>1, <1>5, <1>6, SaveStep DEF h

LEMMA SaveArchivedStep ==
    ASSUME TypeOK, IndInv, SaveArchived
    PROVE  TypeOK' /\ IndInv'
<1> DEFINE h == Head(blocks)
<1>1. /\ blocks # <<>> /\ blocks' = Tail(blocks) /\ h.kind = "mam"
      /\ UNCHANGED <<server, up, inbox, carbons, fetching, lastFetch, strangers, passed,
                     msWaits, rmWaits, cuts, fetches>>
      /\ copies' = IF IsDuplicate(h.m) THEN copies ELSE [copies EXCEPT ![h.m] = @ + 1]
  BY DEF SaveArchived, Runs
<1>2. h.m \in 0 .. MaxMessages
  <2>1. h \in Blocks
    BY <1>1, BlockRuns
  <2> QED BY <2>1 DEF Blocks
<1> HIDE DEF h
<1>3. copies \in [Messages -> Nat] /\ (h.m = 0 \/ h.m \in Messages) /\ 0 \notin Messages
  BY <1>2, HistoryAssumption DEF TypeOK, Messages
<1>4. /\ copies' \in [Messages -> Nat]
      /\ h.m = 0 \/ copies'[h.m] > 0
      /\ \A m \in Messages : copies[m] > 0 => copies'[m] > 0
  <2>1. CASE IsDuplicate(h.m)
    BY <1>1, <1>3, <2>1 DEF IsDuplicate
  <2>2. CASE ~IsDuplicate(h.m) /\ h.m \in Messages
    BY <1>1, <1>3, <2>2
  <2>3. CASE ~IsDuplicate(h.m) /\ h.m = 0
    <3>1. copies' = copies
      BY <1>1, <1>3, <2>3
    <3> QED BY <1>3, <2>3, <3>1
  <2> QED BY <1>3, <2>1, <2>2, <2>3
<1>5. /\ lastFetch' \in {Never} \cup 0 .. sent /\ lastFetch' >= lastFetch
      /\ rmWaits' \in BOOLEAN /\ passed' \subseteq Messages
  BY <1>1, TypeFacts DEF TypeOK
<1> QED BY <1>1, <1>4, <1>5, SaveStep DEF h

LEMMA SaveFetchDateStep ==
    ASSUME TypeOK, IndInv, SaveFetchDate
    PROVE  TypeOK' /\ IndInv'
<1> DEFINE h == Head(blocks)
<1>1. /\ blocks # <<>> /\ blocks' = Tail(blocks) /\ h.kind = "fin"
      /\ UNCHANGED <<server, up, inbox, carbons, fetching, stored, msWaits, rmWaits, cuts, fetches>>
      /\ lastFetch' = sent
  BY DEF SaveFetchDate, Runs
<1>2. h.m = 0
  <2>1. h \in Items(blocks)
    BY <1>1, BlockRuns
  <2> QED BY <1>1, <2>1 DEF IndInv, Bare
<1>3. /\ lastFetch' \in {Never} \cup 0 .. sent /\ lastFetch' >= lastFetch
      /\ rmWaits' \in BOOLEAN /\ copies' \in [Messages -> Nat] /\ passed' \subseteq Messages
  BY <1>1, TypeFacts DEF TypeOK, Never, stored
<1> QED BY <1>1, <1>2, <1>3, SaveStep DEF stored

LEMMA RoomCallReturnsStep ==
    ASSUME TypeOK, IndInv, RoomCallReturns
    PROVE  TypeOK' /\ IndInv'
<1>1. /\ blocks # <<>> /\ blocks' = Tail(blocks) /\ Head(blocks).kind = "room"
      /\ rmWaits' = FALSE
      /\ UNCHANGED <<server, client, up, inbox, msWaits, cuts, fetches>>
  BY DEF RoomCallReturns, Runs
<1>2. Head(blocks).m = 0
  <2>1. Head(blocks) \in Items(blocks)
    BY <1>1, BlockRuns
  <2> QED BY <1>1, <2>1 DEF IndInv, Bare
<1>3. UNCHANGED <<lastFetch, copies, strangers, passed, fetching, carbons>>
  BY <1>1 DEF client, stored
<1>4. /\ lastFetch \in {Never} \cup 0 .. sent /\ lastFetch >= lastFetch
      /\ copies \in [Messages -> Nat] /\ passed \subseteq Messages
  BY TypeFacts DEF TypeOK
<1>5. rmWaits' \in BOOLEAN
  BY <1>1
<1> QED BY <1>1, <1>2, <1>3, <1>4, <1>5, SaveStep

LEMMA FetchHistoryStep ==
    ASSUME TypeOK, IndInv, FetchHistory
    PROVE  TypeOK' /\ IndInv'
<1> DEFINE h == Head(blocks)
<1>1. /\ blocks # <<>> /\ blocks' = Tail(blocks) /\ h.kind = "read" /\ fetching' = TRUE
      /\ IF up THEN \E old \in 0 .. sent : Ask(old) ELSE UNCHANGED <<asked, passed>>
      /\ UNCHANGED <<sent, up, unacked, roomAsked, failed, inbox, carbons, lastFetch, copies,
                     strangers, msWaits, rmWaits, cuts, fetches>>
  BY DEF FetchHistory, Runs
<1>2. /\ blocks' \in Seq(Blocks) /\ Items(blocks) = {h} \cup Items(blocks')
      /\ Behind(blocks', Read, Idle)
  BY <1>1, BlockRuns
<1>3. h.m = 0
  BY <1>1, <1>2 DEF IndInv, Bare
<1> HIDE DEF h
<1>4. asked \in Seq(1 .. MaxMessages + 1) /\ passed \subseteq Messages
  BY DEF TypeOK
<1>5. /\ asked' \in Seq(1 .. MaxMessages + 1)
      /\ passed \subseteq passed' /\ passed' \subseteq Messages
      /\ up => \A m \in 1 .. sent + 1 : m \in passed' \/ m <= lastFetch
                                       \/ \E i \in DOMAIN asked' : asked'[i] <= m
      /\ up => \E i \in DOMAIN asked' : asked'[i] <= sent + 1
  <2>1. CASE ~up
    BY <1>1, <1>4, <2>1
  <2>2. ASSUME NEW old \in 0 .. sent, Ask(old)
        PROVE  /\ asked' \in Seq(1 .. MaxMessages + 1)
               /\ passed \subseteq passed' /\ passed' \subseteq Messages
               /\ \A m \in 1 .. sent + 1 : m \in passed' \/ m <= lastFetch
                                          \/ \E i \in DOMAIN asked' : asked'[i] <= m
               /\ \E i \in DOMAIN asked' : asked'[i] <= sent + 1
    <3>1. asked' = Append(asked, old + 1) /\ old + 1 \in 1 .. MaxMessages + 1
      BY <2>2, TypeFacts DEF Ask
    <3>2. /\ asked' \in Seq(1 .. MaxMessages + 1) /\ Len(asked) \in Nat
          /\ Len(asked') = Len(asked) + 1 /\ asked'[Len(asked) + 1] = old + 1
      BY <3>1, <1>4, AppendProperties
    <3>3. Len(asked) + 1 \in DOMAIN asked'
      BY <3>2
    <3>4. /\ passed' = passed \/ passed' = passed \cup 1 .. old
          /\ old = lastFetch \/ 1 .. old \subseteq passed'
      BY <2>2 DEF Ask
    <3>5. 1 .. old \subseteq Messages
      BY TypeFacts DEF Messages
    <3>7. passed \subseteq passed' /\ passed' \subseteq Messages
      BY <3>4, <3>5, <1>4
    <3>8. \A m \in 1 .. sent + 1 : m \in 1 .. old \/ old + 1 <= m
      BY TypeFacts
    <3>9. \A m \in 1 .. old : m <= old
      OBVIOUS
    <3>10. \A m \in 1 .. sent + 1 : m \in passed' \/ m <= lastFetch \/ old + 1 <= m
      BY <3>4, <3>8, <3>9
    <3>6. old + 1 <= sent + 1
      BY TypeFacts
    <3> QED BY <3>2, <3>3, <3>10, <3>6, <3>7
  <2> QED BY <1>1, <2>1, <2>2
<1>6. TypeOK'
  <2>1. ~up => asked' = asked
    BY <1>1
  <2> QED BY <1>1, <1>2, <1>5, <2>1 DEF TypeOK
<1>7. Bare' /\ WaitFits' /\ FreshIsUp' /\ LoginFirst'
  BY <1>1, <1>2 DEF IndInv, Bare, WaitFits, FreshIsUp, LoginFirst
<1>8. \A m \in 1 .. sent : Has(m) \/ Settled(m) => Has(m)' \/ Settled(m)'
  BY <1>1, <1>2, <1>3, <1>5 DEF Has, Settled
<1>9. unacked \subseteq 1 .. sent
  BY TypeFacts
<1>10. Redelivered'
  BY <1>1, <1>8, <1>9 DEF IndInv, Redelivered
<1>11. Covered'
  <2> SUFFICES ASSUME up, NEW m \in 1 .. sent
               PROVE  Settled(m)' \/ m <= lastFetch \/ WillAsk(m)'
    BY <1>1 DEF Covered
  <2>1. m \in 1 .. sent + 1
    BY TypeFacts
  <2> QED BY <2>1, <1>5 DEF WillAsk, Settled
<1>12. CarbonsFit'
  BY <1>1, <1>5 DEF CarbonsFit, WillAsk
<1> QED BY <1>6, <1>7, <1>10, <1>11, <1>12 DEF IndInv

-----------------------------------------------------------------------------
THEOREM IndInvHolds == Spec => [](TypeOK /\ IndInv)
<1>1. Init => TypeOK /\ IndInv
  <2> SUFFICES ASSUME Init PROVE TypeOK /\ IndInv
    OBVIOUS
  <2>1. /\ inbox \in Seq(Stanzas) /\ blocks \in Seq(Blocks) /\ asked \in Seq(1 .. MaxMessages + 1)
        /\ Items(inbox) = {} /\ Items(blocks) = {}
    BY Empty DEF Init
  <2>2. TypeOK
    <3>1. /\ sent = 0 /\ up = FALSE /\ unacked = {} /\ asked = <<>> /\ roomAsked = 0
          /\ carbons = "off" /\ msWaits = FALSE /\ rmWaits = FALSE /\ fetching = FALSE
          /\ lastFetch \in {Never, 0} /\ copies = [m \in Messages |-> 0]
          /\ failed = FALSE /\ strangers = Strangers /\ passed = {}
          /\ cuts = 0 /\ fetches = 0
      BY DEF Init
    <3>2. /\ copies \in [Messages -> Nat] /\ unacked \subseteq Direct \cap 1 .. sent
          /\ lastFetch \in {Never} \cup 0 .. sent
      BY <3>1
    <3>3. sent \in 0 .. MaxMessages /\ cuts \in 0 .. MaxEvents /\ fetches \in 0 .. MaxEvents
      BY <3>1, HistoryAssumption
    <3> QED BY <2>1, <3>1, <3>2, <3>3 DEF TypeOK
  <2>3. Behind(inbox, Login, Stale) /\ Behind(blocks, Read, Idle)
    BY <2>1, None
  <2>4. ~up /\ ~msWaits
    BY DEF Init
  <2> QED BY <2>1, <2>2, <2>3, <2>4 DEF IndInv, Bare, WaitFits, FreshIsUp, LoginFirst,
           Redelivered, Covered, Settled, CarbonsFit
<1>2. TypeOK /\ IndInv /\ [Next]_vars => (TypeOK /\ IndInv)'
  <2> SUFFICES ASSUME TypeOK, IndInv, [Next]_vars PROVE TypeOK' /\ IndInv'
    OBVIOUS
  <2>1. CASE Archive \/ Acknowledge \/ Authenticate \/ Restart
    BY <2>1, ArchiveStep, AcknowledgeStep, AuthenticateStep, RestartStep
  <2>2. CASE \E n \in 0 .. Len(inbox) : Drop(n)
    BY <2>2, DropStep
  <2>3. CASE Answers
    BY <2>3, CarbonsAnsweredStep, AnswerQueryStep, QueryFailsStep, AnswerRoomStep DEF Answers
  <2>4. CASE Storage
    BY <2>4, DidAuthenticateStep, ReceiveMessageStep, DidFinishReceivingStep, AskForRoomStep
       DEF Storage
  <2>5. CASE Rooms
    BY <2>5, CallDatabaseStep, AnswerRoomForJIDStep, FetchRoomHistoryStep DEF Rooms
  <2>6. CASE Database
    BY <2>6, DiscardMessageStep, SaveMessageStep, SaveArchivedStep, SaveFetchDateStep,
       FetchHistoryStep, RoomCallReturnsStep DEF Database
  <2>7. CASE BuddyStored
    BY <2>7, BuddyStoredStep
  <2>8. CASE UNCHANGED vars
    <3>1. TypeOK'
      BY <2>8 DEF vars, server, client, stored, TypeOK
    <3>2. Bare' /\ WaitFits' /\ FreshIsUp' /\ LoginFirst'
      BY <2>8 DEF vars, server, IndInv, Bare, WaitFits, FreshIsUp, LoginFirst
    <3>3. Redelivered' /\ Covered' /\ CarbonsFit'
      BY <2>8 DEF vars, server, client, stored, IndInv, Redelivered, Covered, Settled,
         CarbonsFit, Has, WillRead, WillAsk
    <3> QED BY <3>1, <3>2, <3>3 DEF IndInv
  <2> QED BY <2>1, <2>2, <2>3, <2>4, <2>5, <2>6, <2>7, <2>8 DEF Next
<1> QED BY <1>1, <1>2, PTL DEF Spec

(* The types of all variables, in every behaviour.                         *)
THEOREM TypeCorrect == Spec => []TypeOK
<1>1. TypeOK /\ IndInv => TypeOK
  OBVIOUS
<1> QED BY <1>1, IndInvHolds, PTL

-----------------------------------------------------------------------------
(* StoredOnce.                                                             *)

LEMMA SavesOnce ==
    ASSUME TypeOK, StoredOnce, NEW m,
           copies' = IF IsDuplicate(m) THEN copies ELSE [copies EXCEPT ![m] = @ + 1]
    PROVE  StoredOnce'
<1>1. copies \in [Messages -> Nat] /\ Identified \subseteq Messages
  BY HistoryAssumption DEF TypeOK, Messages
<1> SUFFICES ASSUME NEW i \in Identified PROVE copies'[i] <= 1
  BY DEF StoredOnce
<1>2. copies[i] <= 1 /\ copies[i] \in Nat
  BY <1>1 DEF StoredOnce
<1>3. CASE i = m /\ ~IsDuplicate(m)
  <2>1. copies[i] = 0
    BY <1>2, <1>3 DEF IsDuplicate
  <2>2. copies'[i] = copies[i] + 1
    BY <1>1, <1>3
  <2> QED BY <2>1, <2>2
<1>4. CASE i # m \/ IsDuplicate(m)
  BY <1>1, <1>2, <1>4
<1> QED BY <1>3, <1>4

(* A message with an id has one row at most, however it arrives.           *)
THEOREM StoredOnceCorrect == Spec => []StoredOnce
<1>1. Init => StoredOnce
  BY HistoryAssumption DEF Init, StoredOnce, Messages
<1>2. TypeOK /\ StoredOnce /\ [Next]_vars => StoredOnce'
  <2> SUFFICES ASSUME TypeOK, StoredOnce, [Next]_vars PROVE StoredOnce'
    OBVIOUS
  <2>1. CASE SaveMessage
    <3>1. CASE IsDuplicate(Head(blocks).m)
      BY <2>1, <3>1, SavesOnce DEF SaveMessage
    <3>2. CASE ~IsDuplicate(Head(blocks).m)
      BY <2>1, <3>2, SavesOnce DEF SaveMessage
    <3> QED BY <3>1, <3>2
  <2>2. CASE SaveArchived
    BY <2>2, SavesOnce DEF SaveArchived
  <2>3. CASE UNCHANGED copies
    BY <2>3 DEF StoredOnce
  <2>4. CASE Archive \/ Acknowledge \/ Authenticate \/ Restart \/ Answers \/ Storage \/ Rooms
             \/ BuddyStored
    BY <2>4, <2>3 DEF Archive, Acknowledge, Authenticate, Restart, Answers, Storage, Rooms,
       CarbonsAnswered, AnswerQuery, QueryFails, AnswerRoom, DidAuthenticate, ReceiveMessage,
       DidFinishReceiving, AskForRoom, CallDatabase, AnswerRoomForJID, FetchRoomHistory,
       BuddyStored, client, stored
  <2>5. CASE \E n \in 0 .. Len(inbox) : Drop(n)
    BY <2>5, <2>3 DEF Drop, stored
  <2>6. CASE Database
    BY <2>6, <2>1, <2>2, <2>3 DEF Database, DiscardMessage, SaveFetchDate, FetchHistory,
       RoomCallReturns, client, stored
  <2>7. CASE UNCHANGED vars
    BY <2>7, <2>3 DEF vars, client, stored
  <2> QED BY <2>4, <2>5, <2>6, <2>7 DEF Next
<1> QED BY <1>1, <1>2, TypeCorrect, PTL DEF Spec

-----------------------------------------------------------------------------
(* GapHasCause.                                                            *)

Reached(m) == copies[m] > 0 \/ m \in unacked \/ Has(m)
Kept == \A m \in 1 .. sent : Reached(m) \/ m \in passed => Reached(m)' \/ m \in passed'

LEMMA GapIs ==
    ASSUME TypeOK, NEW m
    PROVE  m \in Gap <=> m \in 1 .. sent /\ m <= lastFetch /\ ~Reached(m)
<1>1. OnItsWay(m) <=> m \in unacked \/ Has(m)
  BY DEF OnItsWay, Has, Items
<1>2. ASSUME m \in 1 .. sent
      PROVE  /\ copies[m] = 0 <=> ~(copies[m] > 0)
             /\ lastFetch >= m <=> m <= lastFetch
  <2>1. copies[m] \in Nat /\ m \in Int /\ lastFetch \in Int
    BY <1>2, TypeFacts DEF TypeOK
  <2> QED BY <2>1
<1> QED BY <1>1, <1>2 DEF Gap, Reached

LEMMA Grows ==
    ASSUME NEW S, NEW s \in Seq(S)
    PROVE  /\ \A e \in S : Append(s, e) \in Seq(S) /\ Items(Append(s, e)) = Items(s) \cup {e}
           /\ \A t \in Seq(S) : Items(s) \subseteq Items(s \o t)
<1>1. ASSUME NEW e \in S
      PROVE  Append(s, e) \in Seq(S) /\ Items(Append(s, e)) = Items(s) \cup {e}
  BY Added
<1>2. ASSUME NEW t \in Seq(S) PROVE Items(s) \subseteq Items(s \o t)
  <2>1. Items(s \o t) = Items(s) \cup Items(t)
    BY Joined
  <2> QED BY <2>1
<1> QED BY <1>1, <1>2

(* What leaves one queue has come to the next, or into the database, or    *)
(* been passed over.                                                       *)
LEMMA KeptStep ==
    ASSUME TypeOK, IndInv, Next, cuts' = cuts
    PROVE  Kept
<1>1. CASE Archive
  <2>1. Items(inbox) \subseteq Items(inbox')
    <3>1. CASE inbox' = inbox
      BY <3>1
    <3>2. ASSUME NEW k \in {"live", "carbon"}, inbox' = Append(inbox, Item(k, sent'))
          PROVE  Items(inbox) \subseteq Items(inbox')
      <4>1. sent' \in 0 .. MaxMessages
        BY <1>1, HistoryAssumption DEF TypeOK, Archive
      <4>2. Item(k, sent') \in Stanzas /\ inbox \in Seq(Stanzas)
        BY <4>1, ItemFacts DEF TypeOK, StanzaKinds
      <4> QED BY <3>2, <4>2, Grows
    <3> QED BY <1>1, <3>1, <3>2 DEF Archive
  <2> QED BY <1>1, <2>1 DEF Archive, Kept, Reached, Has, client, stored
<1>2. CASE Acknowledge
  <2>1. \A m \in unacked : Has(m) \/ copies[m] > 0 \/ m \in passed
    BY <1>2 DEF Acknowledge, IndInv, Redelivered, Settled
  <2>2. \A m : Has(m) <=> Has(m)'
    BY <1>2 DEF Acknowledge, Has
  <2> QED BY <1>2, <2>1, <2>2 DEF Acknowledge, Kept, Reached, client, stored
<1>3. CASE Authenticate
  <2>1. Items(inbox) \subseteq Items(inbox')
    <3>1. PICK t \in Seq(Stanzas) : inbox' = Append(inbox, Item("auth", 0)) \o t
      <4>1. PICK again \in [1 .. Cardinality(unacked) -> unacked] :
              inbox' = Append(inbox, Item("auth", 0))
                         \o [i \in DOMAIN again |-> Item("late", again[i])]
        BY <1>3 DEF Authenticate
      <4> DEFINE n == Cardinality(unacked)
                 t == [i \in DOMAIN again |-> Item("late", again[i])]
      <4>2. unacked \subseteq 0 .. MaxMessages /\ n \in Nat
        <5>1. unacked \subseteq 1 .. MaxMessages /\ MaxMessages \in Nat
          BY TypeFacts
        <5>2. IsFiniteSet(unacked)
          <6>1. IsFiniteSet(1 .. MaxMessages)
            BY <5>1, FS_Interval
          <6> QED BY <5>1, <6>1, FS_Subset
        <5> QED BY <5>1, <5>2, FS_CardinalityType
      <4>3. \A i \in 1 .. n : again[i] \in 0 .. MaxMessages
        BY <4>2
      <4>4. t \in [1 .. n -> Stanzas]
        BY <4>3, ItemFacts DEF StanzaKinds
      <4> HIDE DEF t, n
      <4>5. t \in Seq(Stanzas)
        BY <4>2, <4>4
      <4> QED BY <4>1, <4>5 DEF t
    <3>2. Item("auth", 0) \in Stanzas /\ inbox \in Seq(Stanzas)
      BY ItemFacts, HistoryAssumption DEF TypeOK, StanzaKinds
    <3>3. /\ Append(inbox, Item("auth", 0)) \in Seq(Stanzas)
          /\ Items(inbox) \subseteq Items(Append(inbox, Item("auth", 0)))
      BY <3>2, Grows
    <3> QED BY <3>1, <3>3, Grows
  <2> QED BY <1>3, <2>1 DEF Authenticate, Kept, Reached, Has, server, stored
<1>4. CASE Answers
  <2>1. Items(inbox) \subseteq Items(inbox')
    <3>1. CASE CarbonsAnswered \/ QueryFails
      BY <3>1 DEF CarbonsAnswered, QueryFails
    <3>2. CASE AnswerQuery
      <4>1. Item("fin", 0) \in Stanzas /\ inbox \in Seq(Stanzas)
        BY ItemFacts, HistoryAssumption DEF TypeOK, StanzaKinds
      <4>2. Head(asked) <= sent => Item("mam", Head(asked)) \in Stanzas
        <5>1. Head(asked) \in 1 .. MaxMessages + 1
          BY <3>2, HeadTailProperties DEF AnswerQuery, TypeOK
        <5>2. Head(asked) <= sent => Head(asked) \in 0 .. MaxMessages
          BY <5>1, TypeFacts
        <5> QED BY <5>2, ItemFacts DEF StanzaKinds
      <4>3. \/ inbox' = Append(inbox, Item("fin", 0))
            \/ Head(asked) <= sent /\ inbox' = Append(inbox, Item("mam", Head(asked)))
        BY <3>2 DEF AnswerQuery
      <4>4. \A x \in Stanzas : Items(inbox) \subseteq Items(Append(inbox, x))
        BY <4>1, Grows
      <4> QED BY <4>1, <4>2, <4>3, <4>4
    <3>3. CASE AnswerRoom
      <4>1. /\ Item("fin", 0) \in Stanzas /\ Item("roomMam", 0) \in Stanzas
            /\ inbox \in Seq(Stanzas)
        BY ItemFacts, HistoryAssumption DEF TypeOK, StanzaKinds
      <4>2. <<Item("roomMam", 0), Item("fin", 0)>> \in Seq(Stanzas)
        BY <4>1
      <4>3. inbox' = inbox \o <<Item("roomMam", 0), Item("fin", 0)>> \/ inbox' = inbox
        BY <3>3 DEF AnswerRoom
      <4> DEFINE two == <<Item("roomMam", 0), Item("fin", 0)>>
      <4>4. CASE inbox' = inbox \o two
        <5> HIDE DEF two
        <5> QED BY <4>1, <4>2, <4>4, Grows DEF two
      <4>5. CASE inbox' = inbox
        BY <4>5
      <4> QED BY <4>3, <4>4, <4>5
    <3> QED BY <1>4, <3>1, <3>2, <3>3 DEF Answers
  <2>2. UNCHANGED <<sent, unacked, copies, passed, blocks>>
    BY <1>4 DEF Answers, CarbonsAnswered, AnswerQuery, QueryFails, AnswerRoom, client, stored,
       server
  <2> QED BY <2>1, <2>2 DEF Kept, Reached, Has
<1>5. ASSUME NEW k \in BlockKinds, inbox # <<>>, inbox' = Tail(inbox),
             blocks' = Append(blocks, [Head(inbox) EXCEPT !.kind = k]),
             UNCHANGED <<sent, unacked, copies, passed>>
      PROVE  Kept
  <2> DEFINE h == Head(inbox)
             b == [h EXCEPT !.kind = k]
  <2>1. h \in Stanzas /\ Items(inbox) = {h} \cup Items(inbox')
    BY <1>5, Removed DEF TypeOK
  <2>2. b \in Blocks /\ b.m = h.m
    BY <2>1 DEF Stanzas, Blocks
  <2>4. blocks' = Append(blocks, b) /\ blocks \in Seq(Blocks)
    BY <1>5 DEF TypeOK
  <2> HIDE DEF h, b
  <2>3. Items(blocks') = Items(blocks) \cup {b}
    BY <2>2, <2>4, Grows
  <2> QED BY <1>5, <2>1, <2>2, <2>3 DEF Kept, Reached, Has
<1>6. CASE Storage
  <2>1. CASE DidAuthenticate
    BY <2>1, <1>5 DEF DidAuthenticate, Receives, Queues, BlockKinds, server, stored
  <2>2. CASE ReceiveMessage
    BY <2>2, <1>5 DEF ReceiveMessage, Receives, Queues, BlockKinds, server, client, stored
  <2>3. CASE DidFinishReceiving
    BY <2>3, <1>5 DEF DidFinishReceiving, Receives, Queues, BlockKinds, server, stored
  <2>4. CASE AskForRoom
    BY <2>4 DEF AskForRoom, Kept, Reached, Has, server, client, stored
  <2> QED BY <1>6, <2>1, <2>2, <2>3, <2>4 DEF Storage
<1>7. CASE CallDatabase
  <2>1. Item("room", 0) \in Blocks /\ blocks \in Seq(Blocks)
    BY ItemFacts, HistoryAssumption DEF TypeOK, BlockKinds
  <2>2. Items(blocks) \subseteq Items(blocks')
    BY <1>7, <2>1, Grows DEF CallDatabase
  <2> QED BY <1>7, <2>2 DEF CallDatabase, Kept, Reached, Has, server, client, stored
<1>8. CASE AnswerRoomForJID
  <2>1. inbox # <<>> /\ inbox' = Tail(inbox) /\ Head(inbox).kind = "roomMam"
    BY <1>8 DEF AnswerRoomForJID, IndInv, WaitFits
  <2>2. Items(inbox) = {Head(inbox)} \cup Items(inbox')
    BY <2>1, Removed DEF TypeOK
  <2>3. Head(inbox).m = 0
    BY <2>1, <2>2 DEF IndInv, Bare
  <2>4. UNCHANGED <<sent, unacked, copies, passed, blocks>>
    BY <1>8 DEF AnswerRoomForJID, server, client, stored
  <2>5. \A m \in 1 .. sent : m # 0
    BY TypeFacts
  <2> QED BY <2>2, <2>3, <2>4, <2>5 DEF Kept, Reached, Has
<1>9. CASE Database
  <2> DEFINE h == Head(blocks)
  <2>1. blocks # <<>> /\ blocks' = Tail(blocks) /\ UNCHANGED <<sent, unacked, inbox>>
    BY <1>9 DEF Database, DiscardMessage, SaveMessage, SaveArchived, SaveFetchDate,
       FetchHistory, RoomCallReturns, Runs, server, client
  <2>2. Items(blocks) = {h} \cup Items(blocks')
    BY <2>1, Removed DEF TypeOK
  <2>3. copies \in [Messages -> Nat] /\ \A m \in 1 .. sent : m \in Messages /\ m # 0
    BY TypeFacts DEF TypeOK
  <2>4. /\ passed \subseteq passed'
        /\ \A m \in 1 .. sent : /\ copies[m] > 0 => copies'[m] > 0
                                /\ m = h.m => copies'[m] > 0 \/ m \in passed'
    <3>1. CASE SaveMessage \/ SaveArchived
      <4>1. /\ copies' = IF IsDuplicate(h.m) THEN copies ELSE [copies EXCEPT ![h.m] = @ + 1]
            /\ passed' = passed
        BY <3>1 DEF SaveMessage, SaveArchived
      <4> HIDE DEF h
      <4>2. CASE IsDuplicate(h.m)
        BY <4>1, <4>2, <2>3 DEF IsDuplicate
      <4>3. CASE ~IsDuplicate(h.m)
        BY <4>1, <4>3, <2>3
      <4> QED BY <4>2, <4>3
    <3>2. CASE DiscardMessage
      BY <3>2 DEF DiscardMessage
    <3>3. CASE SaveFetchDate \/ FetchHistory \/ RoomCallReturns
      <4>1. h.kind \in {"fin", "read", "room"} /\ copies' = copies /\ passed \subseteq passed'
        BY <3>3 DEF SaveFetchDate, FetchHistory, Ask, RoomCallReturns, Runs, client, stored
      <4>2. h.m = 0
        BY <2>2, <4>1 DEF IndInv, Bare
      <4> QED BY <4>1, <4>2, <2>3
    <3> QED BY <1>9, <3>1, <3>2, <3>3 DEF Database
  <2> HIDE DEF h
  <2> QED BY <2>1, <2>2, <2>4 DEF Kept, Reached, Has
<1>10. CASE Restart \/ \E n \in 0 .. Len(inbox) : Drop(n)
  <2>1. cuts \in Nat /\ cuts' = cuts + 1
    BY <1>10, HistoryAssumption DEF TypeOK, Restart, Drop
  <2> QED BY <2>1
<1>11. CASE BuddyStored \/ FetchRoomHistory
  BY <1>11 DEF BuddyStored, FetchRoomHistory, Kept, Reached, Has, server, client, stored
<1> QED BY <1>1, <1>2, <1>3, <1>4, <1>6, <1>7, <1>8, <1>9, <1>10, <1>11 DEF Next, Rooms

(* Without one of the causes, the date moves only when all up to it is     *)
(* reached, or was passed over.                                            *)
LEMMA DateStep ==
    ASSUME TypeOK, IndInv, Next, ~KnownCause, lastFetch' # lastFetch
    PROVE  /\ copies' \in [Messages -> Nat] /\ sent' = sent
           /\ \A m \in 1 .. sent : m <= lastFetch \/ Reached(m) \/ m \in passed
<1> DEFINE h == Head(blocks)
<1>1. SaveMessage \/ SaveFetchDate
  <2>1. ~(Restart \/ \E n \in 0 .. Len(inbox) : Drop(n))
    BY DEF Restart, Drop
  <2>2. ~(Archive \/ Acknowledge \/ Authenticate)
    BY DEF Archive, Acknowledge, Authenticate, client, stored
  <2>3. ~Answers /\ ~Rooms
    BY DEF Answers, CarbonsAnswered, AnswerQuery, QueryFails, AnswerRoom, Rooms, CallDatabase,
       AnswerRoomForJID, FetchRoomHistory, client
  <2>4. ~Storage
    BY DEF Storage, DidAuthenticate, ReceiveMessage, DidFinishReceiving, AskForRoom, client, stored
  <2>5. ~(DiscardMessage \/ SaveArchived \/ FetchHistory \/ RoomCallReturns \/ BuddyStored)
    BY DEF DiscardMessage, SaveArchived, FetchHistory, RoomCallReturns, BuddyStored, client
  <2> QED BY <2>1, <2>2, <2>3, <2>4, <2>5 DEF Next, Database
<1>2. /\ blocks # <<>> /\ h.kind \in {"live", "late", "carbon", "fin"}
      /\ sent' = sent
  BY <1>1 DEF SaveMessage, SaveFetchDate, Runs, server
<1>3. /\ ~h.old /\ carbons # "lost" /\ (up => carbons # "off")
      /\ asked # <<>> \/ failed => fetching /\ h.kind # "fin"
  BY <1>2 DEF KnownCause
<1>4. /\ h \in Blocks /\ Items(blocks) = {h} \cup Items(Tail(blocks))
      /\ Behind(blocks, Read, Idle) => (Items(Tail(blocks)) \cap Read # {} => h \in Idle)
  BY <1>2, Removed DEF TypeOK
<1>5. h \notin Idle /\ h \notin Read
  BY <1>2, <1>3 DEF Idle, Read
<1>6. up
  BY <1>4, <1>5 DEF IndInv, FreshIsUp
<1>7. ~WillRead
  BY <1>4, <1>5 DEF IndInv, LoginFirst, WillRead
<1>8. asked = <<>> /\ ~failed
  <2>1. CASE SaveMessage
    <3>1. ~fetching
      BY <2>1 DEF SaveMessage, UpdateLastFetch
    <3> QED BY <3>1, <1>3
  <2>2. CASE SaveFetchDate
    BY <2>2, <1>3 DEF SaveFetchDate, Runs
  <2> QED BY <1>1, <2>1, <2>2
<1>9. \A m : ~WillAsk(m)
  BY <1>7, <1>8 DEF WillAsk
<1>10. copies' \in [Messages -> Nat]
  <2>1. CASE SaveMessage
    <3>1. copies' = copies \/ copies' = [copies EXCEPT ![h.m] = @ + 1]
      BY <2>1 DEF SaveMessage
    <3>2. copies \in [Messages -> Nat]
      BY DEF TypeOK
    <3> HIDE DEF h
    <3> QED BY <3>1, <3>2
  <2>2. CASE SaveFetchDate
    <3>1. copies' = copies
      BY <2>2 DEF SaveFetchDate, stored
    <3> QED BY <3>1 DEF TypeOK
  <2> QED BY <1>1, <2>1, <2>2
<1>11. \A m \in 1 .. sent : m <= lastFetch \/ Reached(m) \/ m \in passed
  <2>1. carbons \in {"asked", "on"}
    BY <1>3, <1>6 DEF TypeOK
  <2> QED BY <1>6, <1>8, <1>9, <2>1 DEF IndInv, Covered, Settled, Reached
<1> QED BY <1>2, <1>10, <1>11

(* A message that no later fetch asks for, that is not stored and not on   *)
(* its way, has become so in a step of a known cause, or was passed over:  *)
(* its buddy was not in the database, or it was older than a week when the *)
(* archive was first asked.                                                *)
THEOREM GapCorrect == Spec => GapHasCause
<1>1. TypeOK /\ IndInv /\ TypeOK' /\ [Next]_vars => [Gap' \subseteq Gap \cup passed' \/ KnownCause]_vars
  <2> SUFFICES ASSUME TypeOK, IndInv, TypeOK', Next, ~KnownCause
               PROVE  Gap' \subseteq Gap \cup passed'
    OBVIOUS
  <2> SUFFICES ASSUME NEW m \in Gap', m \notin passed' PROVE m \in Gap
    OBVIOUS
  <2>1. m \in 1 .. sent' /\ m <= lastFetch' /\ ~Reached(m)'
    <3>1. m \in 1 .. sent' /\ lastFetch' >= m /\ copies'[m] = 0 /\ ~OnItsWay(m)'
      BY DEF Gap
    <3>2. OnItsWay(m)' <=> m \in unacked' \/ Has(m)'
      BY DEF OnItsWay, Has, Items
    <3>3. m \in Int /\ lastFetch' \in Int
      BY <3>1, HistoryAssumption DEF TypeOK, Never
    <3> QED BY <3>1, <3>2, <3>3 DEF Reached
  <2>2. Kept
    BY KeptStep DEF KnownCause
  <2>3. CASE lastFetch' # lastFetch
    <3>1. m \in 1 .. sent /\ (m <= lastFetch \/ Reached(m) \/ m \in passed)
      BY <2>1, <2>3, DateStep
    <3>2. ~Reached(m) /\ m \notin passed
      BY <2>1, <2>2, <3>1 DEF Kept
    <3>3. m \in Gap <=> m \in 1 .. sent /\ m <= lastFetch /\ ~Reached(m)
      BY GapIs
    <3>4. m <= lastFetch
      BY <3>1, <3>2
    <3> QED BY <3>1, <3>2, <3>3, <3>4
  <2>4. CASE lastFetch' = lastFetch
    <3>1. m \in 1 .. sent
      <4>1. sent \in Nat /\ lastFetch \in {Never} \cup 0 .. sent
        BY TypeFacts DEF TypeOK
      <4>2. m \in Nat /\ 1 <= m /\ m <= lastFetch
        <5>1. m \in 1 .. sent' /\ sent' \in Nat
          BY <2>1, HistoryAssumption DEF TypeOK
        <5> QED BY <5>1, <2>1, <2>4
      <4> QED BY <4>1, <4>2 DEF Never
    <3>2. ~Reached(m)
      BY <2>1, <2>2, <3>1 DEF Kept
    <3>3. m \in Gap <=> m \in 1 .. sent /\ m <= lastFetch /\ ~Reached(m)
      BY GapIs
    <3> QED BY <2>1, <2>4, <3>1, <3>2, <3>3
  <2> QED BY <2>3, <2>4
<1> QED BY <1>1, IndInvHolds, PTL DEF Spec, GapHasCause

-----------------------------------------------------------------------------
(* The three queues that wait for each other.                              *)

Holds(s, K) == \E x \in Items(s) : x.kind \in K

(* The room manager waits for a block that is still to run.                *)
WaitsForBlock == rmWaits => Holds(blocks, {"room"})

LEMMA Longer ==
    ASSUME NEW S, NEW s \in Seq(S), NEW e \in S, NEW K
    PROVE  /\ Holds(s, K) => Holds(Append(s, e), K)
           /\ e.kind \in K => Holds(Append(s, e), K)
BY Added DEF Holds

LEMMA Shorter ==
    ASSUME NEW S, NEW s \in Seq(S), s # <<>>, NEW K, Head(s).kind \notin K, Holds(s, K)
    PROVE  Holds(Tail(s), K)
BY Removed DEF Holds

LEMMA AgedKinds ==
    ASSUME NEW s \in Seq(Blocks), NEW K, Holds(s, K)
    PROVE  Holds(Aged(s), K)
<1>1. PICK i \in DOMAIN s : s[i].kind \in K
  BY DEF Holds, Items
<1>2. s[i] \in Blocks
  BY <1>1, ElementOfSeq
<1>3. i \in DOMAIN Aged(s) /\ Aged(s)[i] = [s[i] EXCEPT !.old = TRUE]
  BY DEF Aged
<1>4. Aged(s)[i].kind = s[i].kind
  BY <1>2, <1>3 DEF Blocks
<1> QED BY <1>1, <1>3, <1>4 DEF Holds, Items

LEMMA WaitsForBlockStep ==
    ASSUME TypeOK, TypeOK', WaitsForBlock, [Next]_vars
    PROVE  WaitsForBlock'
<1>1. blocks \in Seq(Blocks) /\ blocks' \in Seq(Blocks)
  BY DEF TypeOK
<1>2. ASSUME UNCHANGED <<blocks, rmWaits>> PROVE WaitsForBlock'
  BY <1>2 DEF WaitsForBlock
<1>3. ASSUME NEW e \in Blocks, blocks' = Append(blocks, e),
             rmWaits' = rmWaits \/ e.kind = "room"
      PROVE  WaitsForBlock'
  BY <1>1, <1>3, Longer DEF WaitsForBlock
<1>4. ASSUME blocks # <<>>, Head(blocks).kind # "room", blocks' = Tail(blocks),
             rmWaits' = rmWaits
      PROVE  WaitsForBlock'
  BY <1>1, <1>4, Shorter DEF WaitsForBlock
<1>5. CASE Archive \/ Acknowledge \/ Authenticate \/ Answers \/ AskForRoom \/ AnswerRoomForJID
           \/ FetchRoomHistory \/ BuddyStored \/ UNCHANGED vars
  BY <1>2, <1>5 DEF Archive, Acknowledge, Authenticate, Answers, CarbonsAnswered, AnswerQuery,
     QueryFails, AnswerRoom, AskForRoom, AnswerRoomForJID, FetchRoomHistory, BuddyStored, vars
<1>6. CASE Restart
  BY <1>6 DEF Restart, WaitsForBlock
<1>7. CASE \E n \in 0 .. Len(inbox) : Drop(n)
  <2>1. blocks' = Aged(blocks) /\ rmWaits' = rmWaits
    BY <1>7 DEF Drop
  <2> QED BY <1>1, <2>1, AgedKinds DEF WaitsForBlock
<1>8. CASE DidAuthenticate \/ ReceiveMessage \/ DidFinishReceiving
  <2>1. PICK k \in BlockKinds : Queues(k)
    BY <1>8 DEF DidAuthenticate, ReceiveMessage, DidFinishReceiving, Receives, BlockKinds
  <2>2. rmWaits' = rmWaits /\ inbox # <<>>
    BY <1>8 DEF DidAuthenticate, ReceiveMessage, DidFinishReceiving, Receives
  <2>3. Head(inbox) \in Stanzas
    BY <2>2, Removed DEF TypeOK
  <2>4. [Head(inbox) EXCEPT !.kind = k] \in Blocks
    BY <2>3 DEF Stanzas, Blocks
  <2>5. rmWaits => WaitsForBlock'
    BY <1>1, <2>1, <2>2, <2>4, Longer DEF Queues, WaitsForBlock
  <2> QED BY <2>2, <2>5 DEF WaitsForBlock
<1>9. CASE CallDatabase
  <2>1. Item("room", 0) \in Blocks /\ Item("room", 0).kind = "room"
    BY ItemFacts, TypeFacts DEF BlockKinds
  <2>2. rmWaits' = TRUE /\ blocks' = Append(blocks, Item("room", 0))
    BY <1>9 DEF CallDatabase
  <2> QED BY <1>1, <2>1, <2>2, Longer DEF WaitsForBlock
<1>10. CASE RoomCallReturns
  BY <1>10 DEF RoomCallReturns, WaitsForBlock
<1>11. CASE DiscardMessage \/ SaveMessage \/ SaveArchived \/ SaveFetchDate \/ FetchHistory
  BY <1>4, <1>11 DEF DiscardMessage, SaveMessage, SaveArchived, SaveFetchDate, FetchHistory, Runs
<1> QED BY <1>5, <1>6, <1>7, <1>8, <1>9, <1>10, <1>11 DEF Next, Storage, Rooms, Database

(* However the three queues wait for each other, they come to a standstill *)
(* in one way only: with a block that needs MessageStorage's queue at the  *)
(* head, and the room manager's behind it.                                 *)
THEOREM OnlyLockCorrect == Spec => []OnlyLock
<1>1. Init => WaitsForBlock
  BY DEF Init, WaitsForBlock
<1>2. Spec => []WaitsForBlock
  <2>1. TypeOK /\ TypeOK' /\ WaitsForBlock /\ [Next]_vars => WaitsForBlock'
    BY WaitsForBlockStep
  <2> QED BY <1>1, <2>1, TypeCorrect, PTL DEF Spec
<1>3. WaitsForBlock => OnlyLock
  <2> SUFFICES ASSUME WaitsForBlock, msWaits, rmWaits, ~Locked
               PROVE  blocks # <<>> /\ ~NeedsStorage(Head(blocks))
    BY DEF OnlyLock
  <2>1. Items(blocks) # {}
    BY DEF WaitsForBlock, Holds
  <2>2. blocks # <<>>
    BY <2>1 DEF Items
  <2> QED BY <2>2 DEF Locked
<1> QED BY <1>2, <1>3, PTL

(* Once the queues have locked each other, no drop, login, stanza or       *)
(* answer of the server gets them out of it.                               *)
LockStays == [][Locked => Locked' \/ Restart]_vars

(* The lock stands: only the end of the process ends it.                   *)
THEOREM LockForever == Spec => LockStays
<1>1. ASSUME TypeOK, IndInv, Locked, [Next]_vars, ~Restart PROVE Locked'
  <2> DEFINE b == Head(blocks)
  <2>1. msWaits /\ rmWaits /\ blocks # <<>> /\ NeedsStorage(b)
    BY <1>1 DEF Locked
  <2>2. b.kind \notin {"mam", "room", "fin"}
    BY <2>1 DEF NeedsStorage
  <2>3. blocks \in Seq(Blocks) /\ b \in Blocks
    BY <1>1, <2>1, Removed DEF TypeOK
  <2>4. ASSUME UNCHANGED <<msWaits, rmWaits, blocks, copies>>, strangers' \subseteq strangers
        PROVE  Locked'
    BY <2>1, <2>4 DEF Locked, NeedsStorage, IsDuplicate
  <2>5. ~Database
    BY <2>1, <2>2 DEF Database, DiscardMessage, SaveMessage, SaveArchived, SaveFetchDate,
       FetchHistory, RoomCallReturns, Runs, UpdateLastFetch, NeedsStorage
  <2>6. ~Storage /\ ~CallDatabase /\ ~AnswerRoomForJID
    BY <2>1 DEF Storage, DidAuthenticate, ReceiveMessage, DidFinishReceiving, AskForRoom,
       Receives, CallDatabase, AnswerRoomForJID
  <2>7. CASE Archive \/ Acknowledge \/ Authenticate \/ Answers \/ FetchRoomHistory
             \/ BuddyStored \/ UNCHANGED vars
    <3>1. UNCHANGED <<msWaits, rmWaits, blocks, copies>>
      BY <2>7 DEF Archive, Acknowledge, Authenticate, Answers, CarbonsAnswered, AnswerQuery,
         QueryFails, AnswerRoom, FetchRoomHistory, BuddyStored, client, stored, vars
    <3>2. strangers' \subseteq strangers
      BY <2>7 DEF Archive, Acknowledge, Authenticate, Answers, CarbonsAnswered, AnswerQuery,
         QueryFails, AnswerRoom, FetchRoomHistory, BuddyStored, client, stored, vars
    <3> QED BY <2>4, <3>1, <3>2
  <2>8. CASE \E n \in 0 .. Len(inbox) : Drop(n)
    <3>1. blocks' = Aged(blocks) /\ UNCHANGED <<msWaits, rmWaits, copies, strangers>>
      BY <2>8 DEF Drop, stored
    <3>2. 1 \in DOMAIN blocks /\ blocks[1] = b
      BY <2>1, <2>3, EmptySeq, LenProperties
    <3> HIDE DEF b
    <3>3. Aged(blocks)[1] = [b EXCEPT !.old = TRUE] /\ 1 \in DOMAIN Aged(blocks)
      BY <3>2 DEF Aged
    <3>4. Head(blocks').kind = b.kind /\ Head(blocks').m = b.m /\ blocks' # <<>>
      BY <2>3, <3>1, <3>3 DEF Blocks
    <3> QED BY <2>1, <3>1, <3>4 DEF Locked, NeedsStorage, IsDuplicate
  <2> QED BY <1>1, <2>5, <2>6, <2>7, <2>8 DEF Next, Rooms
<1>2. TypeOK /\ IndInv /\ [Next]_vars => [Locked => Locked' \/ Restart]_vars
  BY <1>1
<1> QED BY <1>2, IndInvHolds, PTL DEF LockStays, Spec

-----------------------------------------------------------------------------
(* The flag that holds the date back.                                      *)

ClearKinds == {"auth", "fin"}
FlagInv == up /\ fetching => asked # <<>> \/ failed \/ Holds(inbox, ClearKinds)

LEMMA FlagStep ==
    ASSUME TypeOK, TypeOK', IndInv, FlagInv, [Next]_vars
    PROVE  FlagInv'
<1>1. inbox \in Seq(Stanzas) /\ inbox' \in Seq(Stanzas) /\ asked \in Seq(1 .. MaxMessages + 1)
  BY DEF TypeOK
<1>2. ASSUME UNCHANGED <<up, fetching, asked, failed, inbox>> PROVE FlagInv'
  BY <1>2 DEF FlagInv
<1>3. ASSUME NEW K, Holds(inbox, K), NEW t \in Seq(Stanzas), inbox' = inbox \o t
      PROVE  Holds(inbox', K)
  BY <1>1, <1>3, Joined DEF Holds
<1>4. CASE Acknowledge \/ CarbonsAnswered \/ AskForRoom \/ CallDatabase \/ FetchRoomHistory
           \/ BuddyStored \/ DiscardMessage \/ SaveMessage \/ SaveArchived \/ SaveFetchDate
           \/ RoomCallReturns \/ UNCHANGED vars
  BY <1>2, <1>4 DEF Acknowledge, CarbonsAnswered, AskForRoom, CallDatabase, FetchRoomHistory,
     BuddyStored, DiscardMessage, SaveMessage, SaveArchived, SaveFetchDate, RoomCallReturns,
     client, server, vars
<1>5. CASE Archive
  <2>1. UNCHANGED <<up, fetching, asked, failed>>
    BY <1>5 DEF Archive, client
  <2>2. inbox' = inbox \/ \E k \in StanzaKinds : inbox' = Append(inbox, Item(k, sent'))
    BY <1>5 DEF Archive, StanzaKinds
  <2>3. \A k \in StanzaKinds : Item(k, sent') \in Stanzas
    BY ItemFacts DEF TypeOK
  <2>4. Holds(inbox, ClearKinds) => Holds(inbox', ClearKinds)
    BY <1>1, <2>2, <2>3, Longer
  <2> QED BY <2>1, <2>4 DEF FlagInv
<1>6. CASE Authenticate
  <2>1. Holds(inbox', ClearKinds)
    <3>1. PICK i \in DOMAIN inbox' : inbox'[i].kind = "auth"
      <4> DEFINE a == Append(inbox, Item("auth", 0))
      <4>1. PICK again \in [1 .. Cardinality(unacked) -> unacked] :
              inbox' = a \o [i \in DOMAIN again |-> Item("late", again[i])]
        BY <1>6 DEF Authenticate
      <4> DEFINE t == [i \in DOMAIN again |-> Item("late", again[i])]
      <4>2. unacked \subseteq 0 .. MaxMessages /\ Cardinality(unacked) \in Nat
        <5>1. unacked \subseteq 1 .. MaxMessages /\ MaxMessages \in Nat
          BY TypeFacts
        <5>2. IsFiniteSet(unacked)
          <6>1. IsFiniteSet(1 .. MaxMessages)
            BY <5>1, FS_Interval
          <6> QED BY <5>1, <6>1, FS_Subset
        <5> QED BY <5>1, <5>2, FS_CardinalityType
      <4>3. \A i \in 1 .. Cardinality(unacked) : Item("late", again[i]) \in Stanzas
        BY <4>2, ItemFacts DEF StanzaKinds
      <4>4. t \in [1 .. Cardinality(unacked) -> Stanzas]
        BY <4>3
      <4> HIDE DEF t
      <4>5. t \in Seq(Stanzas)
        BY <4>2, <4>4
      <4>6. Item("auth", 0) \in Stanzas /\ Item("auth", 0).kind = "auth"
        BY ItemFacts, TypeFacts DEF StanzaKinds
      <4>7. /\ a \in Seq(Stanzas) /\ Len(a) = Len(inbox) + 1
            /\ Len(inbox) \in Nat /\ a[Len(inbox) + 1] = Item("auth", 0)
        BY <1>1, <4>6, AppendProperties
      <4> HIDE DEF a
      <4>8. inbox' = a \o t
        BY <4>1 DEF t
      <4>9. Len(inbox) + 1 \in DOMAIN inbox' /\ inbox'[Len(inbox) + 1] = Item("auth", 0)
        BY <4>5, <4>7, <4>8, ConcatProperties
      <4> QED BY <4>6, <4>9
    <3> QED BY <3>1 DEF Holds, Items, ClearKinds
  <2> QED BY <2>1 DEF FlagInv
<1>7. CASE Restart \/ \E n \in 0 .. Len(inbox) : Drop(n)
  BY <1>7 DEF Restart, Drop, FlagInv
<1>8. CASE AnswerQuery
  <2>1. asked # <<>> /\ UNCHANGED <<up, fetching>>
    BY <1>8 DEF AnswerQuery, client, stored
  <2>2. CASE Head(asked) <= sent
    <3>1. asked' = [asked EXCEPT ![1] = @ + 1]
      BY <1>8, <2>2 DEF AnswerQuery
    <3>2. DOMAIN asked' # {}
      BY <1>1, <2>1, <3>1, EmptySeq
    <3> QED BY <3>2 DEF FlagInv
  <2>3. CASE ~(Head(asked) <= sent)
    <3>1. inbox' = Append(inbox, Item("fin", 0))
      BY <1>8, <2>3 DEF AnswerQuery
    <3>2. Item("fin", 0) \in Stanzas /\ Item("fin", 0).kind \in ClearKinds
      BY ItemFacts, TypeFacts DEF StanzaKinds, ClearKinds
    <3> QED BY <1>1, <3>1, <3>2, Longer DEF FlagInv
  <2> QED BY <2>2, <2>3
<1>9. CASE AnswerRoom
  <2>1. <<Item("roomMam", 0), Item("fin", 0)>> \in Seq(Stanzas)
    <3>1. Item("roomMam", 0) \in Stanzas /\ Item("fin", 0) \in Stanzas
      BY ItemFacts, TypeFacts DEF StanzaKinds
    <3> QED BY <3>1
  <2>2. Holds(inbox, ClearKinds) => Holds(inbox', ClearKinds)
    BY <1>3, <1>9, <2>1 DEF AnswerRoom
  <2> QED BY <1>9, <2>2 DEF AnswerRoom, FlagInv, client
<1>10. CASE DidAuthenticate \/ DidFinishReceiving
  BY <1>10 DEF DidAuthenticate, DidFinishReceiving, FlagInv
<1>11. CASE ReceiveMessage \/ AnswerRoomForJID
  <2>1. /\ inbox # <<>> /\ inbox' = Tail(inbox) /\ Head(inbox).kind \notin ClearKinds
        /\ UNCHANGED <<up, fetching, asked, failed>>
    BY <1>11 DEF ReceiveMessage, AnswerRoomForJID, Receives, IndInv, WaitFits, ClearKinds,
       client, stored, server
  <2> QED BY <1>1, <2>1, Shorter DEF FlagInv
<1>12. CASE FetchHistory
  <2>1. /\ up' = up /\ (up => \E q : asked' = Append(asked, q))
    BY <1>12 DEF FetchHistory, Ask
  <2>2. \A q : Append(asked, q) # <<>>
    BY <1>1
  <2> QED BY <2>1, <2>2 DEF FlagInv
<1>13. CASE QueryFails
  BY <1>13 DEF QueryFails, FlagInv
<1> QED BY <1>4, <1>5, <1>6, <1>7, <1>8, <1>9, <1>10, <1>11, <1>12, <1>13
       DEF Next, Answers, Storage, Rooms, Database

(* On a connection the flag that holds the date back is never left with    *)
(* nobody to clear it, whatever drops, comes late or is asked twice, as    *)
(* long as no query of the account has failed on it.                       *)
THEOREM FlagCorrect == Spec => []FlagHasEnd
<1>1. Init => FlagInv
  BY DEF Init, FlagInv
<1>2. TypeOK /\ TypeOK' /\ IndInv /\ FlagInv /\ [Next]_vars => FlagInv'
  BY FlagStep
<1>3. Spec => []FlagInv
  BY <1>1, <1>2, IndInvHolds, PTL DEF Spec
<1>4. FlagInv => FlagHasEnd
  BY DEF FlagInv, FlagHasEnd, Holds, Items, ClearKinds
<1> QED BY <1>3, <1>4, PTL
=============================================================================
