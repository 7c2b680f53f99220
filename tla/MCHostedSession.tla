-------------------------- MODULE MCHostedSession ---------------------------
(* Model-checking values for HostedSession. *)
EXTENDS HostedSession

\* The people who connected before, in some order.
Known == LET first == CHOOSE s \in Subjects : TRUE
             rest == Subjects \ {first}
         IN IF rest = {} THEN <<first>> ELSE <<first, CHOOSE s \in rest : TRUE>>
=============================================================================
