----------------------------- MODULE ArrayList -----------------------------
(***************************************************************************)
(* The list and the stack of the standard library (stdlib/data/list.csh,   *)
(* stdlib/data/stack.csh): a counted array that grows in place and whose   *)
(* elements are shifted through a temporary array (stdlib/buffer.csh).     *)
(* Callers give indices below count, or up to count to insert.             *)
(***************************************************************************)
EXTENDS Integers

CONSTANTS
  Values,
  Nothing, Yes, No,  \* answers: none, true, false
  Uninit,       \* an array entry nothing was stored in yet
  OutOfBounds,  \* the answer of a call that leaves its array, which ends the program
  INITIAL,      \* the length of the array at first (15)
  GROWTH,       \* and by how much it grows (5)
  MAXCOUNT      \* bound: no more elements than that

ASSUME ArrayListAssumption ==
  /\ INITIAL \in Nat /\ GROWTH \in Nat \ {0} /\ MAXCOUNT \in Nat
  /\ Nothing # OutOfBounds

VARIABLES
  elems,     \* the array: 0 .. limit - 1 -> element or Uninit
  limit,     \* its length
  count,     \* how many elements the list has
  answer     \* what the last operation returned

vars == <<elems, limit, count, answer>>

New(n) == [k \in 0..n - 1 |-> Uninit]

Init == elems = New(INITIAL) /\ limit = INITIAL /\ count = 0 /\ answer = Nothing

\* The lengths and the array after "if(l.count == #l.elems) l.elems = realloc(l.elems, 5)".
Room == IF count = limit THEN limit + GROWTH ELSE limit
Grown == [k \in 0..Room - 1 |-> IF k < limit THEN elems[k] ELSE Uninit]

\* memcpy, between two different arrays.
Memcpy(dest, src, destOffset, srcOffset, length) ==
  [k \in DOMAIN dest |-> IF k - destOffset \in 0..length - 1 THEN src[k - destOffset + srcOffset] ELSE dest[k]]

\* Mutant of Memswap: element by element, without the temporary array.
MemswapInPlace(a, dest, src, length) ==
  LET copied[n \in 0..length] ==
        IF n = 0 THEN a ELSE [copied[n - 1] EXCEPT ![dest + n - 1] = copied[n - 1][src + n - 1]]
  IN  copied[length]

Memswap(a, dest, src, length) ==
  Memcpy(a, Memcpy(New(length), a, 0, src, length), dest, 0, length)

\* Nothing, or the fault of touching the entries from at on in an array of the given length.
Touched(length, at, entries) == IF entries = 0 \/ at + entries <= length THEN Nothing ELSE OutOfBounds

ListAdd(v) ==
  /\ count < MAXCOUNT
  /\ limit' = Room
  /\ elems' = [Grown EXCEPT ![count] = v]
  /\ count' = count + 1
  /\ answer' = Touched(Room, count, 1)

ListInsert(i, v) ==
  /\ count < MAXCOUNT
  /\ limit' = Room
  /\ elems' = [Memswap(Grown, i + 1, i, count - i) EXCEPT ![i] = v]
  /\ count' = count + 1
  /\ answer' = Touched(Room, i + 1, count - i)

\* The array after listRemoveAt; it does not become shorter.
Shifted(i) == Memswap(elems, i, i + 1, count - 1 - i)

ListRemoveAt(i) ==
  /\ count' = count - 1
  /\ elems' = Shifted(i)
  /\ answer' = Touched(limit, i + 1, count - 1 - i)
  /\ UNCHANGED limit

ListSet(i, v) ==
  /\ elems' = [elems EXCEPT ![i] = v]
  /\ answer' = Touched(limit, i, 1)
  /\ UNCHANGED <<limit, count>>

ListGet(i) ==
  /\ answer' = elems[i]
  /\ UNCHANGED <<elems, limit, count>>

Equal(v) == {i \in 0..count - 1 : elems[i] = v}
IndexOf(v) == CHOOSE i \in Equal(v) : \A j \in 0..i - 1 : j \notin Equal(v)

ListIndexOf(v) ==
  /\ answer' = IF Equal(v) = {} THEN -1 ELSE IndexOf(v)
  /\ UNCHANGED <<elems, limit, count>>

ListRemove(v) ==
  IF Equal(v) = {} THEN answer' = No /\ UNCHANGED <<elems, limit, count>>
  ELSE /\ count' = count - 1
       /\ elems' = Shifted(IndexOf(v))
       /\ answer' = Yes
       /\ UNCHANGED limit

\* stackPush is listAdd word for word. The entry that was popped keeps its element.
StackPop ==
  IF count = 0 THEN answer' = Nothing /\ UNCHANGED <<elems, limit, count>>
  ELSE /\ answer' = elems[count - 1]
       /\ count' = count - 1
       /\ UNCHANGED <<elems, limit>>

Next ==
  \/ \E v \in Values : ListAdd(v) \/ ListIndexOf(v) \/ ListRemove(v)
  \/ \E i \in 0..count, v \in Values : ListInsert(i, v)
  \/ \E i \in 0..count - 1 : ListRemoveAt(i) \/ ListGet(i) \/ \E v \in Values : ListSet(i, v)
  \/ StackPop

Spec == Init /\ [][Next]_vars

---------------------------------------------------------------------------
\* The array fits its length and the count the array.
TypeOK ==
  /\ limit \in Nat /\ count \in 0..limit
  /\ elems \in [0..limit - 1 -> Values \cup {Uninit}]

List == INSTANCE AbstractList WITH items <- [k \in 0..count - 1 |-> elems[k]], size <- count

\* ImplementsList: through every growth and every shift, the list and the stack hold the
\* elements of a sequence in its order, answer as it does and never leave their array
\* (list.csh, stack.csh, memswap and memcpy in buffer.csh, std_realloc).
ImplementsList == List!Spec
=============================================================================
