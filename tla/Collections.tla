---------------------------- MODULE Collections ----------------------------
(* The collections of the standard library, each with variables of its own:   *)
(* the list (and the stack), the set, the map, and an array to be sorted.     *)
EXTENDS ArrayList

CONSTANTS
  Hashes, MAXSET,                    \* HashSet: hashes, bound on the buckets
  Keys, MapValues, NotFound,
  KeyHash, MAXMAP,                   \* HashMap: the hasher, bound on the buckets
  FIRSTBUCKETS, MOREBUCKETS,         \* both: buckets at first, and added when one grows
  Elements, MAXLENGTH                \* Sorting: elements of an array, bound on its length

VARIABLES
  setBuckets, setAnswer, held,       \* HashSet
  mapBuckets, mapAnswer, status,     \* HashMap
  array, sortAnswer                  \* Sorting

SetOf == INSTANCE HashSet WITH INITIAL <- FIRSTBUCKETS, GROWTH <- MOREBUCKETS, MAXBUCKETS <- MAXSET,
                               buckets <- setBuckets, answer <- setAnswer

MapOf == INSTANCE HashMap WITH INITIAL <- FIRSTBUCKETS, GROWTH <- MOREBUCKETS, MAXBUCKETS <- MAXMAP,
                               Values <- MapValues, buckets <- mapBuckets, answer <- mapAnswer

ArrayOf == INSTANCE Sorting WITH a <- array, answer <- sortAnswer

---------------------------------------------------------------------------
\* NothingLost: what was added to a set and not removed since is found, through every growth
\* and through growths within growths (setAdd, setFind).
NothingLost == SetOf!NothingLost

\* ExactWhileDense: unless a removal has left a gap in the way of an element, a set answers
\* exactly and holds exactly the elements it should (setAdd, setRemove, setFind).
ExactWhileDense == SetOf!ExactWhileDense

\* ImplementsDictionary: a map finds the value of every key that was put into it, and no
\* value for other keys, through all its growths (mapEmplace, mapFind).
ImplementsDictionary == MapOf!ImplementsDictionary

\* SortsAndSearches: both sorts leave the same elements in order, and the halving search finds
\* a key exactly if it lies behind the first element of the sorted array, and faults for an
\* empty array alone (sort, quicksort, searchSort, binSearch).
SortsAndSearches == ArrayOf!Sorts /\ ArrayOf!Searches
=============================================================================
