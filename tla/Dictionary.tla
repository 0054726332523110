----------------------------- MODULE Dictionary -----------------------------
(* What AdrenoHashtable promises the functions, API functions, labels and    *)
(* arrays that are kept in one: each key has the value it was last set to,   *)
(* until it is removed or the table cleared.                                 *)
CONSTANTS Keys, Values, Absent

VARIABLE dict

Init == dict = [k \in Keys |-> Absent]

Set(k, v) == dict' = [dict EXCEPT ![k] = v]

Remove(k) == dict' = [dict EXCEPT ![k] = Absent]

Clear == dict' = [k \in Keys |-> Absent]

Next ==
    \/ \E k \in Keys : Remove(k) \/ \E v \in Values : Set(k, v)
    \/ Clear

Spec == Init /\ [][Next]_dict
=============================================================================
