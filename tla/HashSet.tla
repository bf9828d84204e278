------------------------------ MODULE HashSet ------------------------------
(***************************************************************************)
(* The set of the standard library (stdlib/data/set.csh): open addressing  *)
(* without wrap-around, elements known by their hash alone. An operation   *)
(* runs to its end before the next one; history is what a program that     *)
(* believes the answers takes the set to hold.                             *)
(***************************************************************************)
EXTENDS Integers, SequencesExt

CONSTANTS
  Hashes,    \* the hashes of the elements a program uses
  INITIAL,   \* the number of buckets at first (15)
  GROWTH,    \* and how many are added when an element finds no place (5)
  MAXBUCKETS \* bound: no more buckets than that

\* What the constants are; the module that gives them values asserts it.
HashSetAssumption == Hashes \subseteq Nat /\ INITIAL \in Nat \ {0} /\ GROWTH \in Nat \ {0} /\ MAXBUCKETS \in Nat

VARIABLES
  buckets,   \* the array: a hash, or Empty
  answer,    \* what the last operation returned
  held       \* history: the elements added, by the answers, and not removed since

vars == <<buckets, answer, held>>

Empty == -1
NewBuckets(n) == [i \in 1..n |-> Empty]
Home(b, h) == (h % Len(b)) + 1
Stored == {buckets[i] : i \in DOMAIN buckets} \ {Empty}

Init == buckets = NewBuckets(INITIAL) /\ answer = FALSE /\ held = {}

\* The first position from the home of h on that holds one of these, or 0.
FirstFrom(b, h, wanted) ==
  LET at == {i \in Home(b, h)..Len(b) : b[i] \in wanted}
  IN  IF at = {} THEN 0 ELSE CHOOSE i \in at : \A j \in at : i <= j

\* Mutant of Grown: an element that lies where the growing one wanted to be is left behind.
GrownDropping(b, ins) ==
  LET moved[i \in 0..Len(b)] ==
        IF i = 0 THEN NewBuckets(Len(b) + GROWTH)
        ELSE IF b[i] = Empty \/ FirstFrom(moved[i - 1], b[i], {Empty}) = 0 THEN moved[i - 1]
        ELSE ins[moved[i - 1]][b[i]].buckets
  IN  moved[Len(b)]

\* A larger array to which the elements of b have been added, in their order, by ins.
Grown(b, ins) ==
  LET moved[i \in 0..Len(b)] ==
        IF i = 0 THEN NewBuckets(Len(b) + GROWTH)
        ELSE IF b[i] = Empty THEN moved[i - 1]
        ELSE ins[moved[i - 1]][b[i]].buckets
  IN  moved[Len(b)]

\* The inner procedure of setAdd: it calls itself for every element when the array has
\* grown, and so may grow again while it still moves the elements of the first array. The
\* calls may lie n deep: where that is not enough, the array is beyond MAXBUCKETS already.
Insert(b, h) ==
  LET insert[n \in 0..MAXBUCKETS] ==
        [c \in Seq(Hashes \cup {Empty}) |-> [x \in Hashes |->
           LET at == FirstFrom(c, x, {Empty, x})
           IN  IF at # 0 THEN [buckets |-> [c EXCEPT ![at] = x], answer |-> c[at] = Empty]
               ELSE IF n = 0 THEN [buckets |-> c, answer |-> FALSE]
               ELSE insert[n - 1][Grown(c, insert[n - 1])][x]]]
  IN  insert[MAXBUCKETS][b][h]

SetAdd(h) ==
  LET new == Insert(buckets, h)
  IN  /\ Len(new.buckets) <= MAXBUCKETS
      /\ buckets' = new.buckets
      /\ answer' = new.answer
      /\ held' = held \cup {h}

\* Mutant of SetRemove: the last bucket is not looked at.
SetRemoveShort(h) ==
  LET at == FirstFrom(buckets, h, {Empty, h})
      found == at \notin {0, Len(buckets)} /\ buckets[at] = h
  IN  /\ buckets' = IF found THEN [buckets EXCEPT ![at] = Empty] ELSE buckets
      /\ answer' = found
      /\ held' = IF found THEN held \ {h} ELSE held

\* setRemove goes no further than the first empty bucket.
SetRemove(h) ==
  LET at == FirstFrom(buckets, h, {Empty, h})
      found == at # 0 /\ buckets[at] = h
  IN  /\ buckets' = IF found THEN [buckets EXCEPT ![at] = Empty] ELSE buckets
      /\ answer' = found
      /\ held' = IF found THEN held \ {h} ELSE held

\* setFind looks at all buckets from the home of h on.
Finds(h) == FirstFrom(buckets, h, {h}) # 0

SetFind(h) ==
  /\ answer' = Finds(h)
  /\ UNCHANGED <<buckets, held>>

Next == \E h \in Hashes : SetAdd(h) \/ SetRemove(h) \/ SetFind(h)

Spec == Init /\ [][Next]_vars

---------------------------------------------------------------------------
\* NothingLost: what was added and not removed since is found, through every growth, and
\* through growths within growths (setAdd, setFind).
NothingLost == \A h \in held : Finds(h)

\* No removal has left a gap between an element and its home, and no element lies twice.
Dense ==
  \A i \in DOMAIN buckets : buckets[i] # Empty =>
    /\ Home(buckets, buckets[i]) <= i
    /\ \A j \in Home(buckets, buckets[i])..i : buckets[j] # Empty
    /\ \A j \in DOMAIN buckets : buckets[j] = buckets[i] => i = j

\* ExactWhileDense: unless a removal has left such a gap, the set answers the next operation
\* as a set does and holds exactly the elements it should (setAdd, setRemove, setFind).
ExactWhileDense ==
  [][Dense => \A h \in Hashes :
       /\ SetAdd(h)    => answer' = (h \notin Stored) /\ Stored' = Stored \cup {h}
       /\ SetRemove(h) => answer' = (h \in Stored) /\ Stored' = Stored \ {h}
       /\ SetFind(h)   => answer' = (h \in Stored)]_vars
=============================================================================
