----------------------------- MODULE MCEntityGc -----------------------------
(* EntityGc on projects of two sizes. *)
EXTENDS EntityGc

\* Compounds of compounds held by one function; and two functions that call each
\* other, themselves, and an overload set that may contain them.
MCSizes == {[type |-> 3, function |-> 1, overload |-> 0, added |-> 1],
            [type |-> 1, function |-> 2, overload |-> 1, added |-> 2]}

=============================================================================
