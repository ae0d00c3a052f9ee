----------------------------- MODULE Encryption -----------------------------
(***************************************************************************)
(* What encryptAndSendMessage promises, without queues, requests, closures *)
(* and device lists: a message that has nobody to go to is refused when it *)
(* is handed over. Otherwise the entries of its list of buddies and the    *)
(* account are prepared in any order, each once; then, and only then, the  *)
(* message is encrypted and what became of it is said once. OmemoSend      *)
(* implements this.                                                        *)
(***************************************************************************)
CONSTANTS
    Sends,          \* messages to send
    Parties,        \* whom each is encrypted to
    Results,        \* what may become of it
    Refusal         \* what is said of a message that goes to nobody

VARIABLES
    asked,          \* messages handed over
    ready,          \* preparations that are complete
    result          \* per message; "none" while it is open

vars == <<asked, ready, result>>

Init ==
    /\ asked = {}
    /\ ready = {}
    /\ result = [s \in Sends |-> "none"]

Ask(s) ==
    /\ s \notin asked
    /\ asked' = asked \cup {s}
    /\ UNCHANGED <<ready, result>>

Refuse(s) ==
    /\ s \notin asked
    /\ asked' = asked \cup {s}
    /\ result' = [result EXCEPT ![s] = Refusal]
    /\ UNCHANGED ready

Prepare(s, p) ==
    /\ s \in asked /\ result[s] = "none"
    /\ <<s, p>> \notin ready
    /\ ready' = ready \cup {<<s, p>>}
    /\ UNCHANGED <<asked, result>>

Answer(s) ==
    /\ s \in asked /\ result[s] = "none"
    /\ \A p \in Parties[s] : <<s, p>> \in ready
    /\ \E o \in Results : result' = [result EXCEPT ![s] = o]
    /\ UNCHANGED <<asked, ready>>

Next == \E s \in Sends :
    \/ Ask(s) \/ Refuse(s) \/ Answer(s)
    \/ \E p \in Parties[s] : Prepare(s, p)

Spec == Init /\ [][Next]_vars
=============================================================================
