------------------------------- MODULE KeySet -------------------------------
(* What a sorted table promises to the tasks that share it: one request at *)
(* a time is served, and it changes the set of keys as it says.            *)
EXTENDS Integers

CONSTANT Keys

VARIABLES
    keys,       \* the keys in the table
    request     \* the request that is being served: its kind and its key

vars == <<keys, request>>

NoRequest == [kind |-> "idle", key |-> 0]
Requests  == [kind : {"insert", "delete"}, key : Keys]

Outcome(r) == IF r.kind = "insert" THEN keys \cup {r.key} ELSE keys \ {r.key}

Ask   == request = NoRequest /\ request' \in Requests /\ UNCHANGED keys
Serve == request # NoRequest /\ request' = NoRequest /\ keys' = Outcome(request)

Clear == request = NoRequest /\ keys' = {} /\ UNCHANGED request

Init == keys = {} /\ request = NoRequest
Next == Ask \/ Serve \/ Clear
Spec == Init /\ [][Next]_vars
=============================================================================
