---------------------------- MODULE Idempotency ----------------------------
(***************************************************************************)
(* What an Idempotency-Key promises its producer, as an atomic object: the *)
(* first call with a key makes a request and is answered with it, every    *)
(* later one is answered with that same request and makes none, until the  *)
(* key expires and may be used afresh.  A call may also go unanswered, and *)
(* has then made nothing.  How many statements, processes and lost races   *)
(* lie behind an answer does not show.                                     *)
(***************************************************************************)
CONSTANTS Calls, Keys, Key, None

VARIABLES
    claim,      \* key: the request it stands for, or None
    made,       \* the calls that made a request, which has the call's name
    answer      \* call: the request it was answered with, or None

Init ==
    /\ claim = [k \in Keys |-> None]
    /\ made = {}
    /\ answer = [c \in Calls |-> None]

Waiting(c) == answer[c] = None /\ c \notin made

Create(c) ==
    /\ Waiting(c) /\ claim[Key[c]] = None
    /\ claim' = [claim EXCEPT ![Key[c]] = c]
    /\ made' = made \cup {c}
    /\ answer' = [answer EXCEPT ![c] = c]

Repeat(c) ==
    /\ Waiting(c) /\ claim[Key[c]] # None
    /\ answer' = [answer EXCEPT ![c] = claim[Key[c]]]
    /\ UNCHANGED <<claim, made>>

Expire(K) ==
    /\ claim' = [k \in Keys |-> IF k \in K THEN None ELSE claim[k]]
    /\ UNCHANGED <<made, answer>>

Next ==
    \/ \E c \in Calls : Create(c) \/ Repeat(c)
    \/ \E K \in SUBSET Keys : Expire(K)

Spec == Init /\ [][Next]_<<claim, made, answer>>
=============================================================================
