--------------------------- MODULE MCCollections ---------------------------
(* A program that uses one of the collections of the standard library: each   *)
(* has its own variables, and only those of the one in use change.            *)
EXTENDS Collections

VARIABLE using   \* the collection this program uses

\* The hash of a key is the key.
Itself == [k \in Keys |-> k]

ASSUME CollectionsAssumption == SetOf!HashSetAssumption /\ MapOf!HashMapAssumption /\ ArrayOf!SortingAssumption

setVars == <<setBuckets, setAnswer, held>>
mapVars == <<mapBuckets, mapAnswer, status>>
sortVars == <<array, sortAnswer>>
allVars == <<using, vars, setVars, mapVars, sortVars>>

UsingInit ==
  /\ using \in {"set", "map", "list", "array"}
  /\ Init /\ SetOf!Init /\ MapOf!Init
  /\ IF using = "array" THEN ArrayOf!Init ELSE array = <<>> /\ sortAnswer = "false"

UsingNext ==
  /\ UNCHANGED using
  /\ \/ using = "list" /\ Next /\ UNCHANGED <<setVars, mapVars, sortVars>>
     \/ using = "set" /\ SetOf!Next /\ UNCHANGED <<vars, mapVars, sortVars>>
     \/ using = "map" /\ MapOf!Next /\ UNCHANGED <<vars, setVars, sortVars>>
     \/ using = "array" /\ ArrayOf!Next /\ UNCHANGED <<vars, setVars, mapVars>>

UsingSpec == UsingInit /\ [][UsingNext]_allVars

=============================================================================
