------------------------------ MODULE HashMap ------------------------------
(***************************************************************************)
(* The map of the standard library (stdlib/data/map.csh): open addressing  *)
(* without wrap-around; nothing is ever removed. Keys are told apart by    *)
(* their hashes alone, which are therefore taken to be different.          *)
(***************************************************************************)
EXTENDS Integers, SequencesExt

CONSTANTS
  Keys, Values, NotFound,
  KeyHash,   \* the hasher: key -> hash
  INITIAL,   \* the number of buckets at first (50)
  GROWTH,    \* and how many are added when a pair finds no place (15)
  MAXBUCKETS \* bound: no more buckets than that

\* What the constants are; the module that gives them values asserts it.
HashMapAssumption ==
  /\ KeyHash \in [Keys -> Nat] /\ \A k, l \in Keys : KeyHash[k] = KeyHash[l] => k = l
  /\ NotFound \notin Values
  /\ INITIAL \in Nat \ {0} /\ GROWTH \in Nat \ {0} /\ MAXBUCKETS \in Nat

VARIABLES
  buckets,   \* the array: [key, value], or Empty
  answer,    \* what the last mapFind returned
  status     \* "running", or "aborted" after a key was given a second value

vars == <<buckets, answer, status>>

Empty == <<>>
Pair == [key : Keys, value : Values]
Bucket == Pair \cup {Empty}
NewBuckets(n) == [i \in 1..n |-> Empty]
Home(b, k) == (KeyHash[k] % Len(b)) + 1

Init == buckets = NewBuckets(INITIAL) /\ answer = NotFound /\ status = "running"

\* The first bucket from the home of k on that is empty or holds k, or 0.
Place(b, k) ==
  LET at == {i \in Home(b, k)..Len(b) : b[i] = Empty \/ b[i].key = k}
  IN  IF at = {} THEN 0 ELSE CHOOSE i \in at : \A j \in at : i <= j

\* Mutant of Stored: the array that has grown keeps every pair where it was.
StoredInPlace(b, pair) ==
  LET grown(n) == b \o NewBuckets(n)
      place(n) == Place(grown(n), pair.key)
      n == CHOOSE m \in 0..30 : place(m) # 0 /\ \A l \in 0..m - 1 : place(l) = 0
  IN  [grown(n) EXCEPT ![place(n)] = pair]

\* A larger array in which the pairs of b have been stored, in their order, by put.
Grown(b, put) ==
  LET moved[i \in 0..Len(b)] ==
        IF i = 0 THEN NewBuckets(Len(b) + GROWTH)
        ELSE IF b[i] = Empty THEN moved[i - 1]
        ELSE put[moved[i - 1]][b[i]]
  IN  moved[Len(b)]

\* The inner procedure of mapEmplace; like setAdd's it may grow while it is growing.
Stored(b, pair) ==
  LET put[n \in 0..MAXBUCKETS] ==
        [c \in Seq(Bucket) |-> [p \in Pair |->
           IF Place(c, p.key) # 0 THEN [c EXCEPT ![Place(c, p.key)] = p]
           ELSE IF n = 0 THEN c
           ELSE put[n - 1][Grown(c, put[n - 1])][p]]]
  IN  put[MAXBUCKETS][b][pair]

MapEmplace(k, v) ==
  /\ status = "running"
  /\ buckets' = Stored(buckets, [key |-> k, value |-> v])
  /\ Len(buckets') <= MAXBUCKETS
  /\ status' = IF Place(buckets, k) # 0 /\ buckets[Place(buckets, k)] # Empty THEN "aborted" ELSE status
  /\ answer' = IF status' = "aborted" THEN NotFound ELSE answer

\* mapFind stops at the first empty bucket.
MapFind(k) ==
  /\ status = "running"
  /\ answer' = IF Place(buckets, k) = 0 \/ buckets[Place(buckets, k)] = Empty THEN NotFound
               ELSE buckets[Place(buckets, k)].value
  /\ UNCHANGED <<buckets, status>>

Next == \E k \in Keys : MapFind(k) \/ \E v \in Values : MapEmplace(k, v)

Spec == Init /\ [][Next]_vars

---------------------------------------------------------------------------
Pairs == {buckets[i] : i \in DOMAIN buckets} \ {Empty}

Dict == INSTANCE Dictionary WITH
  dict <- [k \in {p.key : p \in Pairs} |-> (CHOOSE p \in Pairs : p.key = k).value]

\* ImplementsDictionary: through all growths the map holds the pairs that were put into it,
\* finds each key's value, and finds none for other keys (mapEmplace, mapFind).
ImplementsDictionary == Dict!Spec
=============================================================================
