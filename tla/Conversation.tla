---------------------------- MODULE Conversation ----------------------------
(***************************************************************************)
(* What a diagnostic conversation promises to a client that awaits each    *)
(* answer: every diagnosis is taken up once and then answers only bring    *)
(* the conversation closer to its end.  No answer takes it back to an      *)
(* earlier stage or to an earlier diagnosis.                               *)
(***************************************************************************)
EXTENDS Integers

CONSTANTS Conversations, Starts, ConvOf, NoRow

VARIABLES
    at,        \* where each conversation stands: its diagnosis, and the distance to its end
    diagnosed  \* the start requests already taken up

vars == <<at, diagnosed>>

Init == at = [c \in Conversations |-> NoRow] /\ diagnosed = {}

\* A diagnosis asks about the lights (4), leaves it to the system or to an
\* adviser (2), or closes the conversation (0).
Diagnose(r) ==
    /\ r \notin diagnosed
    /\ diagnosed' = diagnosed \cup {r}
    /\ \E k \in {0, 2, 4} : at' = [at EXCEPT ![ConvOf[r]] = [origin |-> r, rank |-> k]]

Advance(c) ==
    /\ at[c] # NoRow
    /\ \E k \in 0 .. at[c].rank : at' = [at EXCEPT ![c].rank = k]
    /\ UNCHANGED diagnosed

Next == (\E r \in Starts : Diagnose(r)) \/ (\E c \in Conversations : Advance(c))

Spec == Init /\ [][Next]_vars
=============================================================================
