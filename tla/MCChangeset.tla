---------------------------- MODULE MCChangeset -----------------------------
(* Model-checking values for Changeset. *)
EXTENDS Changeset, TLC

\* Every worker runs in the one server process.
OneProcess == [w \in Workers |-> 1]

\* A small changeset: c1 belongs to u1 and carries association n1; l1 joins two
\* records of the portal.
OwnerOf == [p \in Nested |-> "c1"]
RefsOf == [p \in Pairs |-> IF p = "n1" THEN {"c1"} ELSE {}]
Depends == [c \in Creates |-> IF c = "c1" /\ "u1" \in Updates THEN "u1" ELSE None]
====================
