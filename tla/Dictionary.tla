----------------------------- MODULE Dictionary -----------------------------
(* What a map of the standard library promises: a partial function that only  *)
(* grows. Giving a key a second value ends the program.                       *)
CONSTANTS Keys, Values, NotFound

VARIABLES dict, answer

vars == <<dict, answer>>

Init == dict = [k \in {} |-> NotFound] /\ answer = NotFound

Emplace(k, v) ==
  /\ k \notin DOMAIN dict
  /\ dict' = [x \in DOMAIN dict \cup {k} |-> IF x = k THEN v ELSE dict[x]]
  /\ UNCHANGED answer

\* The second value is stored, but nothing runs any more that could see it.
EmplaceAgain(k, v) ==
  /\ k \in DOMAIN dict
  /\ dict' = [dict EXCEPT ![k] = v]
  /\ answer' = NotFound

Find(k) ==
  /\ answer' = IF k \in DOMAIN dict THEN dict[k] ELSE NotFound
  /\ UNCHANGED dict

Next == \E k \in Keys : Find(k) \/ \E v \in Values : Emplace(k, v) \/ EmplaceAgain(k, v)

Spec == Init /\ [][Next]_vars
=============================================================================
