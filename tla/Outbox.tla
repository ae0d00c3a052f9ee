------------------------------- MODULE Outbox -------------------------------
(***************************************************************************)
(* What the message queue promises, thread by thread: actions are taken    *)
(* one at a time from the front, a stanza is written only for the action   *)
(* that was taken and at most once while the process runs, and an action   *)
(* leaves the queue when it is finished or withdrawn.  How the action in   *)
(* process waits for its account, for encryption or for the stream is not  *)
(* visible here.                                                           *)
(***************************************************************************)
EXTENDS Sequences, SequencesExt

CONSTANTS Actions, Threads, None, ThreadOf

VARIABLES
    pending,  \* per thread, the actions that survive a restart
    taken,    \* per thread, the action in process
    wire      \* per thread, the stanzas written since the start

vars == <<pending, taken, wire>>

Init ==
    /\ pending = [t \in Threads |-> <<>>]
    /\ taken = [t \in Threads |-> None]
    /\ wire = [t \in Threads |-> <<>>]

Without(s, a) ==
    IF \E i \in 1..Len(s) : s[i] = a
    THEN RemoveAt(s, CHOOSE i \in 1..Len(s) : s[i] = a)
    ELSE s

Submit(a) ==
    /\ ~Contains(pending[ThreadOf[a]], a)
    /\ taken[ThreadOf[a]] # a
    /\ pending' = [pending EXCEPT ![ThreadOf[a]] = Append(@, a)]
    /\ UNCHANGED <<taken, wire>>

Take(t) ==
    /\ taken[t] = None
    /\ pending[t] # <<>>
    /\ taken' = [taken EXCEPT ![t] = Head(pending[t])]
    /\ UNCHANGED <<pending, wire>>

Send(t) ==
    /\ taken[t] # None
    /\ ~Contains(wire[t], taken[t])
    /\ wire' = [wire EXCEPT ![t] = Append(@, taken[t])]
    /\ UNCHANGED <<pending, taken>>

Finish(t) ==
    /\ taken[t] # None
    /\ pending' = [pending EXCEPT ![t] = Without(@, taken[t])]
    /\ taken' = [taken EXCEPT ![t] = None]
    /\ UNCHANGED wire

Withdraw(a) ==
    /\ pending' = [pending EXCEPT ![ThreadOf[a]] = Without(@, a)]
    /\ UNCHANGED <<taken, wire>>

Crash ==
    /\ taken' = [t \in Threads |-> None]
    /\ wire' = [t \in Threads |-> <<>>]
    /\ UNCHANGED pending

Next ==
    \/ \E a \in Actions : Submit(a) \/ Withdraw(a)
    \/ \E t \in Threads : Take(t) \/ Send(t) \/ Finish(t)
    \/ Crash

Spec == Init /\ [][Next]_vars
=============================================================================
