---------------------------- MODULE ResourceLock ----------------------------
(***************************************************************************)
(* What the resource pool promises its users, seen from the users' side: a *)
(* resource is granted to a user only while nobody has it, and only a user *)
(* gives it back.  A resource may be withheld forever (a leak): that is    *)
(* the subject of properties of the detailed specification ResourcePool.   *)
(***************************************************************************)
CONSTANTS Resources, Users

VARIABLE owns      \* the pairs <<user, resource>> such that user owns resource

TypeOK == owns \subseteq Users \X Resources

Init == owns = {}

Grant(u, r) == /\ \A v \in Users : <<v, r>> \notin owns
               /\ owns' = owns \cup {<<u, r>>}

\* A user gives back one resource, or, when its run ends, several.
GiveBack(u, rs) == owns' = owns \ ({u} \X rs)

Next == \/ \E u \in Users, r \in Resources : Grant(u, r)
        \/ \E u \in Users, rs \in SUBSET Resources : GiveBack(u, rs)

Spec == Init /\ [][Next]_owns
=============================================================================
