--------------------------- MODULE MCMessageQueue ---------------------------
(* Instances of MessageQueue for TLC.                                      *)
EXTENDS MessageQueue

CONSTANTS a1, a2, a3, a4, t1, t2, c1, c2

(* Two accounts with one thread each.  The first logs in by itself.        *)
ApartActions  == {a1, a2, a3, a4}
ApartThreadOf == (a1 :> t1) @@ (a2 :> t1) @@ (a3 :> t2) @@ (a4 :> t2)
ApartAccountOf == (t1 :> c1) @@ (t2 :> c2)
ApartKindOf   == (a1 :> "otr") @@ (a2 :> "otr") @@ (a3 :> "plain") @@ (a4 :> "otrOptional")
(* The two OTR messages are alike.                                         *)
ApartAlike == Permutations({a1, a2})

(* A buddy and a room of one account.                                      *)
SharedActions  == {a1, a2, a3}
SharedThreadOf == (a1 :> t1) @@ (a2 :> t1) @@ (a3 :> t2)
SharedAccountOf == (t1 :> c1) @@ (t2 :> c1)
SharedKindOf   == (a1 :> "otr") @@ (a2 :> "omemo") @@ (a3 :> "groupOmemo")

(* The same threads with a roster action after the buddy's message.        *)
DrainsKindOf   == (a1 :> "otr") @@ (a2 :> "roster") @@ (a3 :> "groupPlain")

=============================================================================
