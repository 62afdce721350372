------------------------------ MODULE Exclusive ------------------------------
(* What an owner of a native resource promises: nobody enters while somebody  *)
(* is still inside, even one that was given up on and will return late.       *)
CONSTANT User

VARIABLE inside     \* who is using the resource

Init == inside = {}

Enter(u) == inside = {} /\ inside' = {u}

Leave(u) == inside = {u} /\ inside' = {}

Next == \E u \in User : Enter(u) \/ Leave(u)

Spec == Init /\ [][Next]_inside
=============================================================================
