----------------------------- MODULE RemoteCall -----------------------------
(* What a remote call promises a program, however its messages travel: a    *)
(* call is carried out at most once and only if it was made, one that       *)
(* succeeds has been carried out, and one that fails may or may not have    *)
(* been, or may still be after it has returned.  A one-way call returns     *)
(* when it is sent and may be lost.                                         *)
EXTENDS Naturals

CONSTANT Client         \* those who call, one call at a time

VARIABLES
    made,       \* the calls that a client has made, the last one included
    answer,     \* what has become of its last call
    underway,   \* calls that may still be carried out
    carried     \* calls that have been carried out

vars == <<made, answer, underway, carried>>

Init ==
    /\ made = [c \in Client |-> 0]
    /\ answer = [c \in Client |-> "none"]
    /\ underway = {}
    /\ carried = {}

\* A client makes its next call, and learns s of it for now.
Make(c, s) ==
    /\ answer[c] # "waiting"
    /\ made' = [made EXCEPT ![c] = @ + 1]
    /\ answer' = [answer EXCEPT ![c] = s]
    /\ UNCHANGED carried

Begin(c) ==
    /\ Make(c, "waiting") \/ Make(c, "sent")
    /\ underway' = underway \cup {<<c, made[c] + 1>>}

\* The call fails before anything is sent.
Refuse(c) == Make(c, "error") /\ UNCHANGED underway

Carry(call) ==
    /\ call \in underway
    /\ underway' = underway \ {call}
    /\ carried' = carried \cup {call}
    /\ UNCHANGED <<made, answer>>

\* Calls are rejected or lost.
Lose ==
    /\ underway' \subseteq underway
    /\ UNCHANGED <<made, answer, carried>>

Return(c, s) ==
    /\ answer[c] = "waiting"
    /\ answer' = [answer EXCEPT ![c] = s]
    /\ UNCHANGED <<made, underway, carried>>

Succeed(c) == <<c, made[c]>> \in carried /\ Return(c, "success")

Fail(c) == Return(c, "error")

Next ==
    \/ \E c \in Client : Begin(c) \/ Refuse(c) \/ Succeed(c) \/ Fail(c)
    \/ \E call \in underway : Carry(call)
    \/ Lose

Spec == Init /\ [][Next]_vars

\* Nothing that has been carried out can be carried out again.
AtMostOnce == underway \cap carried = {}
=============================================================================
