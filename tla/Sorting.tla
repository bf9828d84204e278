------------------------------ MODULE Sorting ------------------------------
(***************************************************************************)
(* Sorting and searching arrays (stdlib/sort.csh). The elements are the    *)
(* integers a comparison tells apart; a sequence counts from 1 what the    *)
(* code counts from 0.                                                     *)
(***************************************************************************)
EXTENDS Integers, SequencesExt

CONSTANTS
  Elements,  \* what the comparison tells apart, as numbers
  MAXLENGTH  \* bound: no array is longer

\* What the constants are; the module that gives them values asserts it.
SortingAssumption == Elements \subseteq Int /\ MAXLENGTH \in Nat

VARIABLES
  a,         \* the array
  answer     \* Holds, Fails, or Fault after an index that is not in the array

vars == <<a, answer>>

Holds == "true"
Fails == "false"
Fault == "index out of range"
Answer(holds) == IF holds THEN Holds ELSE Fails

Init == a \in BoundedSeq(Elements, MAXLENGTH) /\ answer = Fails

SwapElems(b, i, j) == [b EXCEPT ![i] = b[j], ![j] = b[i]]

\* One run of sort's inner loop.
Pass(b) ==
  LET pass[i \in 0..Len(b)] ==
        IF i <= 1 THEN [a |-> b, unsorted |-> FALSE]
        ELSE LET done == pass[i - 1]
             IN  IF done.a[i] < done.a[i - 1] THEN [a |-> SwapElems(done.a, i, i - 1), unsorted |-> TRUE] ELSE done
  IN  pass[Len(b)]

\* The runs it takes until one swaps nothing: no more than there are elements, and one.
Runs(b) ==
  LET runs[n \in 0..Len(b) + 1] ==
        IF n = 0 THEN [a |-> b, unsorted |-> TRUE]
        ELSE IF runs[n - 1].unsorted THEN Pass(runs[n - 1].a)
        ELSE runs[n - 1]
  IN  runs[Len(b) + 1]

Sort(b) == Runs(b).a

\* Mutant of Partition: the pivot goes where the last smaller element is.
PartitionShort(b, low, high) ==
  LET move[n \in 0..high - low] ==
        IF n = 0 THEN [a |-> b, i |-> low - 1]
        ELSE LET p == move[n - 1]
                 j == low + n - 1
             IN  IF p.a[j] < b[high] THEN [a |-> SwapElems(p.a, p.i + 1, j), i |-> p.i + 1] ELSE p
      last == move[high - low]
      at == IF last.i < low THEN low ELSE last.i
  IN  [a |-> SwapElems(last.a, at, high), i |-> at]

\* The array with everything smaller than its last element before that element, and where it is.
Partition(b, low, high) ==
  LET move[n \in 0..high - low] ==
        IF n = 0 THEN [a |-> b, i |-> low - 1]
        ELSE LET p == move[n - 1]
                 j == low + n - 1
             IN  IF p.a[j] < b[high] THEN [a |-> SwapElems(p.a, p.i + 1, j), i |-> p.i + 1] ELSE p
      last == move[high - low]
  IN  [a |-> SwapElems(last.a, last.i + 1, high), i |-> last.i + 1]

\* The procedure recsort, called for the whole array. The calls lie no deeper than there are
\* elements, because the parts get shorter.
RecSort(b) ==
  LET rec[n \in 0..Len(b)] ==
        [c \in [1..Len(b) -> Elements] |-> [low \in 0..Len(b) + 1 |-> [high \in 0..Len(b) |->
           IF low >= high \/ low < 1 \/ n = 0 THEN c
           ELSE LET p == Partition(c, low, high)
                IN  rec[n - 1][rec[n - 1][p.a][low][p.i - 1]][p.i + 1][high]]]]
  IN  rec[Len(b)][b][1][Len(b)]

InOrder(b) == \A i \in 2..Len(b) : b[i] >= b[i - 1]

\* binSearch, called for the whole array; start and stop count from 0. Each call has fewer
\* entries before it than the one it is made by.
BinSearch(b, key) ==
  LET find[n \in 0..Len(b)] == [start \in 0..Len(b) |-> [stop \in 0..Len(b) |->
        LET mid == start + (stop - start) \div 2
        IN  IF stop - start = 1 THEN Fails
            ELSE IF mid >= Len(b) \/ n = 0 THEN Fault
            ELSE IF key < b[mid + 1] THEN find[n - 1][start][mid]
            ELSE IF key > b[mid + 1] THEN find[n - 1][mid][stop]
            ELSE Holds]]
  IN  find[Len(b)][0][Len(b)]

SortArray == a' = Sort(a) /\ UNCHANGED answer

QuickSort == a' = RecSort(a) /\ UNCHANGED answer

CheckSorted == answer' = Answer(InOrder(a)) /\ UNCHANGED a

\* search answers whether the key is missing.
Search(key) == answer' = Answer(\A i \in DOMAIN a : a[i] # key) /\ UNCHANGED a

SearchSort(key) ==
  /\ a' = IF InOrder(a) THEN a ELSE Sort(a)
  /\ answer' = BinSearch(a', key)

Next ==
  /\ answer # Fault
  /\ \/ SortArray \/ QuickSort \/ CheckSorted
     \/ \E key \in Elements : Search(key) \/ SearchSort(key)

Spec == Init /\ [][Next]_vars

---------------------------------------------------------------------------
Occurrences(b) == [x \in Elements |-> Cardinality({i \in DOMAIN b : b[i] = x})]

\* Sorts: whatever the array was, after either sort, and after a search that sorts, it is in
\* order and holds the same elements as often as before; and the runs of sort come to an end
\* (sort, quicksort, searchSort).
Sorts ==
  [][SortArray \/ QuickSort \/ (\E key \in Elements : SearchSort(key)) =>
       /\ \A i, j \in DOMAIN a' : i < j => a'[i] <= a'[j]
       /\ Occurrences(a') = Occurrences(a)
       /\ ~Runs(a).unsorted]_vars

\* Searches: the halving search looks at every element but the first of the sorted array: it
\* finds a key exactly if it lies behind that, and faults for an empty array alone (binSearch).
Searches ==
  [][\A key \in Elements : SearchSort(key) =>
       answer' = IF a = <<>> THEN Fault ELSE Answer(\E i \in 2..Len(a') : a'[i] = key)]_vars
=============================================================================
