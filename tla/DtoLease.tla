------------------------------ MODULE DtoLease ------------------------------
(***************************************************************************)
(* What the DTO pools promise, without handlers, pools or listeners: an    *)
(* item is lent to one client at a time, starts empty, carries only texts  *)
(* of the client it is lent to, and comes back empty.                      *)
(***************************************************************************)
CONSTANTS
    Clients,    \* who borrows: the requests
    Items,      \* what is lent: the DTO objects
    Nobody

VARIABLES
    owner,      \* owner[i]: the client item i is lent to, or Nobody
    contents    \* contents[i]: the clients whose texts item i contains

Init ==
    /\ owner = [i \in Items |-> Nobody]
    /\ contents = [i \in Items |-> {}]

Grant(c, i) ==
    /\ owner[i] = Nobody
    /\ owner' = [owner EXCEPT ![i] = c]
    /\ contents' = [contents EXCEPT ![i] = {c}]

\* A client gives back several items at once: its response closed.
Return(c, S) ==
    /\ \A i \in S : owner[i] = c
    /\ owner' = [i \in Items |-> IF i \in S THEN Nobody ELSE owner[i]]
    /\ contents' = [i \in Items |-> IF i \in S THEN {} ELSE contents[i]]

Next ==
    \E c \in Clients :
        \/ \E i \in Items : Grant(c, i)
        \/ \E S \in (SUBSET Items) \ {{}} : Return(c, S)

Spec == Init /\ [][Next]_<<owner, contents>>
=============================================================================
