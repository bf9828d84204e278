---------------------------- MODULE Inheritance ----------------------------
(***************************************************************************)
(* What the record declarations of a program promise, whatever the order   *)
(* they are written in: a forest of records in which no final record has a *)
(* child. A record may extend one that is declared only later.             *)
(***************************************************************************)
CONSTANTS Names, None

\* What the constants are; Records, which gives them values, assumes it.
NoneAssumption == None \notin Names

VARIABLES
  parent,   \* declared record -> the record it extends, or None
  sealed    \* the declared records that are final

vars == <<parent, sealed>>

\* n and the records above it: what every set closed under parent that holds n holds.
Above(n) ==
  {a \in Names : \A S \in SUBSET Names :
     (n \in S /\ \A m \in S \cap DOMAIN parent : parent[m] # None => parent[m] \in S) => a \in S}

Init == parent = [n \in {} |-> None] /\ sealed = {}

Declare(n, b, final) ==
  /\ n \notin DOMAIN parent
  /\ b # None => b \notin sealed /\ n \notin Above(b)
  /\ final => \A m \in DOMAIN parent : parent[m] # n
  /\ parent' = [m \in DOMAIN parent \cup {n} |-> IF m = n THEN b ELSE parent[m]]
  /\ sealed' = IF final THEN sealed \cup {n} ELSE sealed

Next == \E n \in Names, b \in Names \cup {None}, final \in BOOLEAN : Declare(n, b, final)

Spec == Init /\ [][Next]_vars

\* No final record has a child, in whichever order the two were declared.
FinalIsLeaf == \A m \in DOMAIN parent : parent[m] \notin sealed

\* The records form a forest: going up from any of them ends.
Forest ==
  \A S \in SUBSET DOMAIN parent : S # {} => \E n \in S : parent[n] \notin S
=============================================================================
