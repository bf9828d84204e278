---------------------------- MODULE AbstractList ----------------------------
(* What the lists and stacks of the standard library promise: a sequence of   *)
(* elements, counted from 0 as their callers count them. A legal call never   *)
(* faults.                                                                    *)
EXTENDS Integers

CONSTANTS Values, Nothing, Yes, No

VARIABLES items, size, answer

vars == <<items, size, answer>>

\* The sequence without its element at i; with v pushed in at i.
Without(i) == [j \in 0..size - 2 |-> IF j < i THEN items[j] ELSE items[j + 1]]
With(i, v) == [j \in 0..size |-> IF j < i THEN items[j] ELSE IF j = i THEN v ELSE items[j - 1]]

Occurs(v) == \E j \in 0..size - 1 : items[j] = v
First(v) == CHOOSE j \in 0..size - 1 : items[j] = v /\ \A k \in 0..j - 1 : items[k] # v

Init == size = 0 /\ items = [j \in 0..-1 |-> Nothing] /\ answer = Nothing

Insert(i, v) == size' = size + 1 /\ items' = With(i, v) /\ answer' = Nothing

RemoveAt(i) == size' = size - 1 /\ items' = Without(i) /\ answer' = Nothing

Set(i, v) == items' = [items EXCEPT ![i] = v] /\ answer' = Nothing /\ UNCHANGED size

Get(i) == answer' = items[i] /\ UNCHANGED <<items, size>>

Pop ==
  IF size = 0 THEN answer' = Nothing /\ UNCHANGED <<items, size>>
  ELSE answer' = items[size - 1] /\ size' = size - 1 /\ items' = Without(size - 1)

IndexOf(v) ==
  /\ answer' = IF Occurs(v) THEN First(v) ELSE -1
  /\ UNCHANGED <<items, size>>

Remove(v) ==
  IF Occurs(v) THEN answer' = Yes /\ size' = size - 1 /\ items' = Without(First(v))
  ELSE answer' = No /\ UNCHANGED <<items, size>>

Next ==
  \/ \E i \in 0..size, v \in Values : Insert(i, v)
  \/ \E i \in 0..size - 1 : RemoveAt(i) \/ Get(i) \/ \E v \in Values : Set(i, v)
  \/ Pop
  \/ \E v \in Values : IndexOf(v) \/ Remove(v)

Spec == Init /\ [][Next]_vars
=============================================================================
