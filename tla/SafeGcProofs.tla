---------------------------- MODULE SafeGcProofs ----------------------------
(***************************************************************************)
(* Proofs about SafeGc, for any number of blocks, any first length of the  *)
(* arrays and any growth: the tables never answer twice for a block, and   *)
(* implement Ownership.                                                    *)
(***************************************************************************)
EXTENDS SafeGc, FiniteSetTheorems, TLAPS

-----------------------------------------------------------------------------
(* Sequences and tables.                                                   *)

\* A set of naturals up to n that holds 0, and with k - 1 also k, holds them all.
LEMMA UpTo ==
  ASSUME NEW n \in Nat, NEW S, 0 \in S, \A k \in 1 .. n : k - 1 \in S => k \in S
  PROVE  0 .. n \subseteq S
<1> DEFINE T == (0 .. n) \ S
           W == {0 .. k : k \in T}
<1> SUFFICES ASSUME T # {} PROVE FALSE
  OBVIOUS
<1>1. IsWellFoundedOn(StrictSubsetOrdering(0 .. n), SUBSET (0 .. n))
  <2>1. IsFiniteSet(0 .. n)
    BY FS_Interval
  <2>2. FiniteSubsetsOf(0 .. n) = SUBSET (0 .. n)
    BY <2>1, FS_FiniteSubsetsOfFinite
  <2> QED BY <2>1, <2>2, FS_StrictSubsetOrderingWellFounded
<1>2. W \subseteq SUBSET (0 .. n) /\ W # {}
  <2>1. \A k \in T : 0 .. k \in SUBSET (0 .. n) /\ 0 .. k \in W
    OBVIOUS
  <2>2. \A u \in W : u \in SUBSET (0 .. n)
    BY <2>1
  <2> HIDE DEF W, T
  <2> QED BY <2>1, <2>2
<1>3. PICK w \in W : \A u \in W : ~(<<u, w>> \in StrictSubsetOrdering(0 .. n))
  <2> HIDE DEF W
  <2> QED BY <1>1, <1>2, WFMin
<1>4. PICK x \in T : w = 0 .. x
  OBVIOUS
<1>5. x \in 1 .. n /\ x - 1 \in T
  OBVIOUS
<1>6. 0 .. x - 1 \in W /\ 0 .. x - 1 \in SUBSET (0 .. n) /\ w \in SUBSET (0 .. n)
  BY <1>2, <1>5
<1>7. 0 .. x - 1 \subseteq w /\ x \in w /\ x \notin 0 .. x - 1
  BY <1>4
<1> QED BY <1>3, <1>6, <1>7 DEF StrictSubsetOrdering

\* What Append does to the values of a sequence.
LEMMA Appended ==
  ASSUME NEW A, NEW s \in Seq(A), NEW v \in A
  PROVE  /\ Append(s, v) \in Seq(A)
         /\ Values(Append(s, v)) = Values(s) \cup {v}
         /\ (v \in Block => v \notin Values(s)) /\ NoneTwice(s) => NoneTwice(Append(s, v))
<1> DEFINE t == Append(s, v)
<1>1. /\ t \in Seq(A) /\ Len(s) \in Nat
      /\ DOMAIN s = 1 .. Len(s) /\ DOMAIN t = 1 .. Len(s) + 1
      /\ \A i \in 1 .. Len(s) : t[i] = s[i]
      /\ t[Len(s) + 1] = v
  OBVIOUS
<1> HIDE DEF t
<1>2. \A i \in DOMAIN t : (i \in DOMAIN s /\ t[i] = s[i]) \/ (i = Len(s) + 1 /\ t[i] = v)
  BY <1>1
<1>3. Len(s) + 1 \in DOMAIN t /\ \A i \in DOMAIN s : i \in DOMAIN t
  BY <1>1
<1>4. Values(t) = Values(s) \cup {v}
  BY <1>1, <1>2, <1>3 DEF Values
<1>5. (v \in Block => v \notin Values(s)) /\ NoneTwice(s) => NoneTwice(t)
  BY <1>1, <1>2 DEF NoneTwice, Values
<1> QED BY <1>1, <1>4, <1>5 DEF t

\* Two tables that differ in their counters only.
SameArrays(g, h) ==
  /\ g.entries = h.entries
  /\ g.availible = h.availible
  /\ g.transfers = h.transfers

LEMMA NewTableType ==
  NewTable \in Table /\ NewTable.entries = << >> /\ NewTable.availible = << >>
    /\ NewTable.transfers = << >>
<1>1. << >> \in Seq(Block \cup {NULL}) /\ << >> \in Seq(Nat) /\ << >> \in Seq(Block \cup {JUNK})
  OBVIOUS
<1>2. Initial \in [Arrays -> Nat]
  BY InitialAssumption
<1> QED BY <1>1, <1>2 DEF NewTable, Table

\* Growing an array, or failing to, changes the counters only.
LEMMA GrownType ==
  ASSUME NEW g \in Table, NEW a \in Arrays
  PROVE  /\ Grown(g, a) \in Table /\ SameArrays(Grown(g, a), g)
         /\ GrowthFailed(g, a) \in Table /\ SameArrays(GrowthFailed(g, a), g)
<1> DEFINE more == g.alloced[a] + Growth[a]
<1>1. g.alloced \in [Arrays -> Nat] /\ g.room \in [Arrays -> Nat] /\ more \in Nat
  BY GrowthAssumption DEF Table
<1>2. [g.alloced EXCEPT ![a] = more] \in [Arrays -> Nat] /\ [g.room EXCEPT ![a] = more] \in [Arrays -> Nat]
  BY <1>1
<1>3. /\ Grown(g, a) = [g EXCEPT !.alloced = [g.alloced EXCEPT ![a] = more],
                                 !.room = [g.room EXCEPT ![a] = more]]
      /\ GrowthFailed(g, a) = [g EXCEPT !.alloced = [g.alloced EXCEPT ![a] = more]]
  BY DEF Grown, GrowthFailed, Table
<1> HIDE DEF more
<1> QED BY <1>2, <1>3 DEF Table, SameArrays

LEMMA PushType ==
  ASSUME NEW g \in Table, NEW a \in Arrays
  PROVE  \E h \in Table : SameArrays(h, g) /\ \A v : Push(g, a, v) = [h EXCEPT ![a] = Append(@, v)]
<1>1. CASE Full(g, a)
  BY <1>1, GrownType DEF Push
<1>2. CASE ~Full(g, a)
  BY <1>2 DEF Push, SameArrays
<1> QED BY <1>1, <1>2

LEMMA PushTransfer ==
  ASSUME NEW g \in Table, NEW v \in Block \cup {JUNK}
  PROVE  LET h == Push(g, "transfers", v)
         IN  /\ h \in Table /\ h.entries = g.entries /\ h.availible = g.availible
             /\ h.transfers = Append(g.transfers, v)
<1>1. PICK h \in Table : SameArrays(h, g) /\ Push(g, "transfers", v) = [h EXCEPT !["transfers"] = Append(@, v)]
  BY PushType DEF Arrays
<1>2. Append(h.transfers, v) \in Seq(Block \cup {JUNK})
  BY DEF Table
<1> QED BY <1>1, <1>2 DEF Table, SameArrays

LEMMA PushEntry ==
  ASSUME NEW g \in Table, NEW v \in Block
  PROVE  LET h == Push(g, "entries", v)
         IN  /\ h \in Table /\ h.availible = g.availible /\ h.transfers = g.transfers
             /\ h.entries = Append(g.entries, v)
<1>1. PICK h \in Table : SameArrays(h, g) /\ Push(g, "entries", v) = [h EXCEPT !["entries"] = Append(@, v)]
  BY PushType DEF Arrays
<1>2. Append(h.entries, v) \in Seq(Block \cup {NULL})
  BY DEF Table
<1> QED BY <1>1, <1>2 DEF Table, SameArrays

LEMMA PushAvailible ==
  ASSUME NEW g \in Table, NEW i \in Nat
  PROVE  LET h == Push(g, "availible", i)
         IN  /\ h \in Table /\ h.entries = g.entries /\ h.transfers = g.transfers
             /\ h.availible = Append(g.availible, i)
<1>1. PICK h \in Table : SameArrays(h, g) /\ Push(g, "availible", i) = [h EXCEPT !["availible"] = Append(@, i)]
  BY PushType DEF Arrays
<1>2. Append(h.availible, i) \in Seq(Nat)
  BY DEF Table
<1> QED BY <1>1, <1>2 DEF Table, SameArrays

-----------------------------------------------------------------------------
(* What the operations do to a table.                                      *)

\* new_entry puts the block into a slot that is free, or a new one.
LEMMA EnteredTable ==
  ASSUME NEW g \in Table, SlotsExact(g), Single(g), NEW v \in Block, v \notin Held(g)
  PROVE  LET h == Entered(g, v)
         IN  /\ h \in Table /\ SlotsExact(h) /\ Single(h)
             /\ Held(h) = Held(g) \cup {v} /\ h.transfers = g.transfers
<1> DEFINE h == Entered(g, v)
<1>1. /\ g.entries \in Seq(Block \cup {NULL}) /\ g.availible \in Seq(Nat)
      /\ v # NULL /\ v # JUNK /\ v \notin Values(g.entries) /\ v \notin Values(g.transfers)
  BY NullAssumption DEF Table, Held
<1>2. CASE g.availible = << >>
  <2>1. /\ h \in Table /\ h.availible = << >> /\ h.transfers = g.transfers
        /\ h.entries = Append(g.entries, v)
    BY <1>2, PushEntry DEF Entered
  <2>2. /\ Values(h.entries) = Values(g.entries) \cup {v}
        /\ NoneTwice(h.entries)
    BY <1>1, <2>1, Appended DEF Single
  <2>3. NULL \notin Values(h.entries)
    BY <1>1, <1>2, <2>2 DEF SlotsExact, Values
  <2>4. SlotsExact(h)
    BY <2>1, <2>3 DEF SlotsExact, Values
  <2> HIDE DEF h
  <2>5. Single(h)
    BY <1>1, <2>1, <2>2 DEF Single
  <2>6. Held(h) = Held(g) \cup {v}
    BY <1>1, <2>1, <2>2 DEF Held
  <2> QED BY <2>1, <2>4, <2>5, <2>6 DEF h
<1>3. CASE g.availible # << >>
  <2> DEFINE m == Len(g.availible)
             i == g.availible[m]
  <2>1. m \in Nat \ {0} /\ DOMAIN g.availible = 1 .. m /\ i \in Nat
    BY <1>1, <1>3
  <2>2. i \in DOMAIN g.entries /\ g.entries[i] = NULL
    BY <2>1 DEF SlotsExact, Values
  <2>3. h = [g EXCEPT !.entries = [g.entries EXCEPT ![i] = v],
                      !.availible = SubSeq(g.availible, 1, m - 1)]
    BY <1>3 DEF Entered, Table
  <2>4. /\ [g.entries EXCEPT ![i] = v] \in Seq(Block \cup {NULL})
        /\ SubSeq(g.availible, 1, m - 1) \in Seq(Nat)
    BY <1>1, <2>1, <2>2
  <2>5. /\ h \in Table /\ h.entries = [g.entries EXCEPT ![i] = v] /\ h.transfers = g.transfers
        /\ h.availible = SubSeq(g.availible, 1, m - 1)
    <3> HIDE DEF m, i, h
    <3> QED BY <2>3, <2>4 DEF Table
  <2>6. /\ DOMAIN h.entries = DOMAIN g.entries
        /\ \A j \in DOMAIN h.entries : h.entries[j] = IF j = i THEN v ELSE g.entries[j]
    BY <1>1, <2>5
  <2>7. /\ DOMAIN h.availible = 1 .. m - 1
        /\ \A j \in 1 .. m - 1 : h.availible[j] = g.availible[j]
    BY <1>1, <2>1, <2>5
  <2>a. m \in DOMAIN g.availible /\ \A j \in DOMAIN g.availible : j = m \/ j \in 1 .. m - 1
    BY <2>1
  <2>b. \A j \in 1 .. m - 1 : j \in DOMAIN g.availible /\ j # m
    BY <2>1
  <2>c. \A j \in 1 .. m - 1 : g.availible[j] # i
    BY <2>a, <2>b DEF SlotsExact
  <2>d. g.availible[m] = i
    OBVIOUS
  <2> HIDE DEF h, i, m
  <2>8. Values(h.availible) = Values(g.availible) \ {i}
    BY <2>7, <2>a, <2>b, <2>c, <2>d DEF Values
  <2>9. SlotsExact(h)
    <3>1. Values(h.availible) = {j \in DOMAIN h.entries : h.entries[j] = NULL}
      BY <1>1, <2>6, <2>8 DEF SlotsExact
    <3>2. \A j, k \in DOMAIN h.availible : h.availible[j] = h.availible[k] => j = k
      BY <2>7, <2>b DEF SlotsExact
    <3> QED BY <3>1, <3>2 DEF SlotsExact
  <2>10. Values(h.entries) \ {NULL} = (Values(g.entries) \ {NULL}) \cup {v}
    BY <1>1, <2>2, <2>6 DEF Values
  <2>11. NoneTwice(h.entries)
    BY <1>1, <2>2, <2>6 DEF NoneTwice, Values, Single
  <2>e. \A x \in Block : x \in Values(h.entries) => x \in Values(g.entries) \/ x = v
    BY <2>10, NullAssumption
  <2>f. \A x \in Block : x \in Values(g.entries) => x \notin Values(g.transfers)
    BY DEF Single
  <2>g. NoneTwice(h.transfers) /\ h.transfers = g.transfers
    BY <2>5 DEF Single
  <2>h. \A x \in Block : x \in Values(h.entries) => x \notin Values(h.transfers)
    BY <1>1, <2>e, <2>f, <2>g
  <2>12. Single(h)
    BY <2>11, <2>g, <2>h DEF Single
  <2>13. Held(h) = Held(g) \cup {v}
    BY <1>1, <2>5, <2>10 DEF Held
  <2> QED BY <2>5, <2>9, <2>12, <2>13 DEF h
<1> QED BY <1>2, <1>3

\* safe_transfer_malloc adds a block, or an element nobody has assigned.
LEMMA TransferredTable ==
  ASSUME NEW g \in Table, SlotsExact(g), Single(g), NEW v \in Block \cup {JUNK}, v \notin Held(g)
  PROVE  LET h == Push(g, "transfers", v)
         IN  /\ h \in Table /\ SlotsExact(h) /\ Single(h)
             /\ Held(h) = Held(g) \cup ({v} \ {JUNK})
<1> DEFINE h == Push(g, "transfers", v)
<1>1. /\ h \in Table /\ h.entries = g.entries /\ h.availible = g.availible
      /\ h.transfers = Append(g.transfers, v)
  BY PushTransfer
<1>2. /\ g.transfers \in Seq(Block \cup {JUNK}) /\ v # NULL
      /\ (v \in Block => v \notin Values(g.entries) /\ v \notin Values(g.transfers))
  BY NullAssumption DEF Table, Held
<1> HIDE DEF h
<1>3. Values(h.transfers) = Values(g.transfers) \cup {v} /\ NoneTwice(h.transfers)
  BY <1>1, <1>2, Appended DEF Single
<1>4. SlotsExact(h)
  BY <1>1 DEF SlotsExact
<1>5. Single(h)
  BY <1>1, <1>2, <1>3, NullAssumption DEF Single
<1>6. Held(h) = Held(g) \cup ({v} \ {JUNK})
  BY <1>1, <1>2, <1>3 DEF Held
<1> QED BY <1>1, <1>4, <1>5, <1>6 DEF h

\* safe_free clears the only slot of the block and lists it as free.
LEMMA FreedTable ==
  ASSUME NEW g \in Table, SlotsExact(g), Single(g),
         NEW i \in DOMAIN g.entries, NEW b \in Block, g.entries[i] = b
  PROVE  LET h == [Push(g, "availible", i) EXCEPT !.entries[i] = NULL]
         IN  /\ h \in Table /\ SlotsExact(h) /\ Single(h)
             /\ Held(h) = Held(g) \ {b}
<1> DEFINE f == Push(g, "availible", i)
           h == [f EXCEPT !.entries[i] = NULL]
<1>1. /\ g.entries \in Seq(Block \cup {NULL}) /\ g.availible \in Seq(Nat)
      /\ i \in Nat /\ b # NULL /\ b # JUNK
  BY NullAssumption DEF Table
<1>2. /\ f \in Table /\ f.entries = g.entries /\ f.transfers = g.transfers
      /\ f.availible = Append(g.availible, i)
  BY <1>1, PushAvailible
<1> HIDE DEF f
<1>3. [g.entries EXCEPT ![i] = NULL] \in Seq(Block \cup {NULL})
  BY <1>1
<1>4. /\ h \in Table /\ h.entries = [g.entries EXCEPT ![i] = NULL] /\ h.transfers = g.transfers
      /\ h.availible = Append(g.availible, i)
  BY <1>2, <1>3 DEF Table
<1> HIDE DEF h
<1>5. /\ DOMAIN h.entries = DOMAIN g.entries
      /\ \A j \in DOMAIN h.entries : h.entries[j] = IF j = i THEN NULL ELSE g.entries[j]
  BY <1>1, <1>4
<1>6. SlotsExact(h)
  <2>1. i \notin Values(g.availible)
    BY <1>1 DEF SlotsExact
  <2>2. Values(h.availible) = Values(g.availible) \cup {i}
    BY <1>1, <1>4, Appended
  <2>3. \A j, k \in DOMAIN h.availible : h.availible[j] = h.availible[k] => j = k
    <3>1. /\ DOMAIN h.availible = 1 .. Len(g.availible) + 1 /\ Len(g.availible) \in Nat
          /\ \A j \in 1 .. Len(g.availible) : h.availible[j] = g.availible[j] /\ j \in DOMAIN g.availible
          /\ h.availible[Len(g.availible) + 1] = i
      BY <1>1, <1>4
    <3>2. \A j \in DOMAIN h.availible : j \in 1 .. Len(g.availible) \/ j = Len(g.availible) + 1
      BY <3>1
    <3>3. \A j \in 1 .. Len(g.availible) : h.availible[j] # i
      BY <2>1, <3>1 DEF Values
    <3> QED BY <3>1, <3>2, <3>3 DEF SlotsExact
  <2>4. Values(h.availible) = {j \in DOMAIN h.entries : h.entries[j] = NULL}
    BY <1>5, <2>2 DEF SlotsExact
  <2> QED BY <2>3, <2>4 DEF SlotsExact
<1>7. Values(h.entries) \ {NULL} = Values(g.entries) \ {NULL, b}
  BY <1>1, <1>5 DEF Values, Single, NoneTwice
<1>8. b \in Values(g.entries) /\ b \notin Values(g.transfers)
  BY DEF Values, Single
<1>9. Single(h)
  <2>1. NoneTwice(h.entries)
    BY <1>5, NullAssumption DEF Single, NoneTwice
  <2> QED BY <1>4, <1>7, <2>1, NullAssumption DEF Single
<1>10. Held(h) = Held(g) \ {b}
  BY <1>1, <1>4, <1>7, <1>8 DEF Held
<1> QED BY <1>4, <1>6, <1>9, <1>10 DEF h, f

\* safe_realloc puts the new address where the old one stood.
Moved(g, b, c) ==
  [g EXCEPT !.entries = Replaced(@, b, c), !.transfers = Replaced(@, b, c)]

LEMMA MovedTable ==
  ASSUME NEW g \in Table, SlotsExact(g), Single(g),
         NEW b \in Held(g), NEW c \in Block, c \notin Held(g)
  PROVE  LET h == Moved(g, b, c)
         IN  /\ h \in Table /\ SlotsExact(h) /\ Single(h)
             /\ Held(h) = (Held(g) \ {b}) \cup {c}
<1> DEFINE h == Moved(g, b, c)
<1>1. /\ g.entries \in Seq(Block \cup {NULL}) /\ g.transfers \in Seq(Block \cup {JUNK})
      /\ b # NULL /\ b # JUNK /\ c # NULL /\ c # JUNK
      /\ c \notin Values(g.entries) /\ c \notin Values(g.transfers)
  BY NullAssumption DEF Table, Held
<1>2. Replaced(g.entries, b, c) \in Seq(Block \cup {NULL})
  BY <1>1 DEF Replaced
<1>3. Replaced(g.transfers, b, c) \in Seq(Block \cup {JUNK})
  BY <1>1 DEF Replaced
<1>4. /\ h \in Table /\ h.availible = g.availible
      /\ h.entries = Replaced(g.entries, b, c) /\ h.transfers = Replaced(g.transfers, b, c)
  BY <1>2, <1>3 DEF Table, Moved
<1> HIDE DEF h
<1>5. /\ DOMAIN h.entries = DOMAIN g.entries
      /\ \A j \in DOMAIN h.entries : h.entries[j] = IF g.entries[j] = b THEN c ELSE g.entries[j]
      /\ DOMAIN h.transfers = DOMAIN g.transfers
      /\ \A j \in DOMAIN h.transfers : h.transfers[j] = IF g.transfers[j] = b THEN c ELSE g.transfers[j]
  BY <1>4 DEF Replaced
<1>6. SlotsExact(h)
  BY <1>1, <1>4, <1>5 DEF SlotsExact
<1>7. Values(h.entries) = IF b \in Values(g.entries) THEN (Values(g.entries) \ {b}) \cup {c}
                          ELSE Values(g.entries)
  BY <1>5 DEF Values
<1>8. Values(h.transfers) = IF b \in Values(g.transfers) THEN (Values(g.transfers) \ {b}) \cup {c}
                            ELSE Values(g.transfers)
  BY <1>5 DEF Values
<1>9. NoneTwice(h.entries) /\ NoneTwice(h.transfers)
  <2>1. b \in Block
    BY <1>1 DEF Held, Values
  <2>2. \A j \in DOMAIN g.entries : g.entries[j] # c
    BY <1>1 DEF Values
  <2>3. \A j \in DOMAIN g.transfers : g.transfers[j] # c
    BY <1>1 DEF Values
  <2>4. NoneTwice(h.entries)
    BY <1>5, <2>1, <2>2 DEF Single, NoneTwice
  <2>5. NoneTwice(h.transfers)
    BY <1>5, <2>1, <2>3 DEF Single, NoneTwice
  <2> QED BY <2>4, <2>5
<1>10. Single(h)
  <2>1. b \in Block
    BY <1>1 DEF Held, Values
  <2> QED BY <1>1, <1>7, <1>8, <1>9, <2>1 DEF Single
<1>11. Held(h) = (Held(g) \ {b}) \cup {c}
  BY <1>1, <1>7, <1>8 DEF Held
<1> QED BY <1>4, <1>6, <1>10, <1>11 DEF h

-----------------------------------------------------------------------------
(* safe_gc_transfer_to.                                                    *)

\* The table of main after k of the entries, spelled out from the table before.
LEMMA AfterStep ==
  ASSUME temp.entries \in Seq(Block \cup {NULL})
  PROVE  \A k \in 0 .. Len(temp.entries) :
            After[k] = IF k = 0 THEN main
                       ELSE IF temp.entries[k] = NULL THEN After[k - 1]
                       ELSE Push(After[k - 1], "transfers", temp.entries[k])
<1> DEFINE n == Len(temp.entries)
           F(f, k) == IF k = 0 THEN main
                      ELSE IF temp.entries[k] = NULL THEN f[k - 1]
                      ELSE Push(f[k - 1], "transfers", temp.entries[k])
           S == {m \in 0 .. n : \E f : f = [k \in 0 .. m |-> F(f, k)]}
<1>1. n \in Nat
  OBVIOUS
<1>2. 0 \in S
  <2> DEFINE f == [k \in 0 .. 0 |-> main]
  <2>1. \A k \in 0 .. 0 : F(f, k) = main
    OBVIOUS
  <2>2. f = [k \in 0 .. 0 |-> F(f, k)]
    <3> HIDE DEF F
    <3> QED BY <2>1
  <2>3. 0 \in 0 .. n
    BY <1>1
  <2> HIDE DEF F, f, n
  <2> QED BY <2>2, <2>3
<1>3. ASSUME NEW m \in 1 .. n, m - 1 \in S PROVE m \in S
  <2>1. PICK f : f = [k \in 0 .. m - 1 |-> F(f, k)]
    BY <1>3
  <2> DEFINE g == [k \in 0 .. m |-> IF k = m THEN F(f, m) ELSE f[k]]
  <2>2. \A k \in 0 .. m : F(g, k) = F(f, k)
    <3>1. \A k \in 1 .. m : k - 1 \in 0 .. m /\ k - 1 # m
      BY <1>1
    <3>2. \A k \in 1 .. m : g[k - 1] = f[k - 1]
      BY <3>1
    <3>3. \A k \in 0 .. m : k = 0 \/ k \in 1 .. m
      BY <1>1
    <3> HIDE DEF g
    <3> QED BY <3>2, <3>3
  <2>3. \A k \in 0 .. m : g[k] = F(g, k)
    <3>1. \A k \in 0 .. m : k # m => k \in 0 .. m - 1
      BY <1>1
    <3>2. \A k \in 0 .. m - 1 : f[k] = F(f, k)
      <4> HIDE DEF F
      <4> QED BY <2>1
    <3>3. \A k \in 0 .. m : g[k] = F(f, k)
      <4> HIDE DEF F
      <4> QED BY <3>1, <3>2
    <3> HIDE DEF F, g
    <3> QED BY <2>2, <3>3
  <2>4. g = [k \in 0 .. m |-> F(g, k)]
    <3>1. g = [k \in 0 .. m |-> g[k]]
      OBVIOUS
    <3> HIDE DEF F, g
    <3> QED BY <2>3, <3>1
  <2>5. m \in 0 .. n
    BY <1>1
  <2> HIDE DEF F, g
  <2> QED BY <2>4, <2>5
<1>4. n \in S
  <2>1. 0 .. n \subseteq S
    <3> HIDE DEF S, n
    <3> QED BY <1>1, <1>2, <1>3, UpTo
  <2> QED BY <1>1, <2>1
<1>5. \E f : f = [k \in 0 .. n |-> F(f, k)]
  BY <1>4
<1>6. After = [k \in 0 .. n |-> F(After, k)]
  BY <1>5 DEF After
<1>7. \A k \in 0 .. n : After[k] = F(After, k)
  <2> HIDE DEF F
  <2> QED BY <1>6
<1> QED BY <1>7

\* A table that took over the blocks in S, one by one.
TookOver(h, g, S) ==
  /\ h \in Table /\ SlotsExact(h) /\ Single(h)
  /\ h.entries = g.entries /\ h.availible = g.availible
  /\ Held(h) = Held(g) \cup S

LEMMA AfterTable ==
  ASSUME main \in Table, temp \in Table, SlotsExact(main), Single(main), Single(temp),
         Held(main) \cap Held(temp) = {}
  PROVE  \A k \in 0 .. Len(temp.entries) :
            TookOver(After[k], main, {temp.entries[j] : j \in 1 .. k} \ {NULL})
<1> DEFINE n == Len(temp.entries)
           Had(k) == {temp.entries[j] : j \in 1 .. k} \ {NULL}
           S == {k \in 0 .. n : TookOver(After[k], main, Had(k))}
<1>1. /\ n \in Nat /\ temp.entries \in Seq(Block \cup {NULL}) /\ DOMAIN temp.entries = 1 .. n
  BY DEF Table
<1>2. 0 \in S
  <2>1. After[0] = main
    BY <1>1, AfterStep
  <2>2. Had(0) = {}
    OBVIOUS
  <2> QED BY <1>1, <2>1, <2>2 DEF TookOver
<1>3. ASSUME NEW k \in 1 .. n, k - 1 \in S PROVE k \in S
  <2> DEFINE g == After[k - 1]
             v == temp.entries[k]
  <2>1. TookOver(g, main, Had(k - 1)) /\ k \in 0 .. n /\ k # 0
    BY <1>1, <1>3
  <2>2. After[k] = IF v = NULL THEN g ELSE Push(g, "transfers", v)
    BY <1>1, <2>1, AfterStep
  <2>3. Had(k) = Had(k - 1) \cup ({v} \ {NULL})
    <3>1. \A j : j \in 1 .. k <=> j \in 1 .. k - 1 \/ j = k
      BY <1>1
    <3> QED BY <3>1
  <2>4. v \in Block \cup {NULL}
    BY <1>1
  <2>5. CASE v = NULL
    BY <2>1, <2>2, <2>3, <2>5
  <2>6. CASE v # NULL
    <3>1. v \in Block /\ v \in Held(temp)
      BY <1>1, <2>4, <2>6, NullAssumption DEF Held, Values
    <3>2. v \notin Had(k - 1)
      <4>1. \A j \in 1 .. k - 1 : j \in DOMAIN temp.entries /\ k \in DOMAIN temp.entries /\ j # k
        BY <1>1
      <4> QED BY <3>1, <4>1 DEF Single, NoneTwice
    <3>3. v \notin Held(g)
      <4> HIDE DEF Had, g, v
      <4> QED BY <2>1, <3>1, <3>2 DEF TookOver
    <3>4. /\ After[k] \in Table /\ SlotsExact(After[k]) /\ Single(After[k])
          /\ Held(After[k]) = Held(g) \cup ({v} \ {JUNK})
      <4> HIDE DEF g, v
      <4> QED BY <2>1, <2>2, <2>6, <3>1, <3>3, TransferredTable DEF TookOver
    <3>5. After[k].entries = g.entries /\ After[k].availible = g.availible
      <4> HIDE DEF g, v
      <4> QED BY <2>1, <2>2, <2>6, <3>1, PushTransfer DEF TookOver
    <3>6. {v} \ {JUNK} = {v} \ {NULL}
      BY <2>6, <3>1, NullAssumption
    <3> HIDE DEF Had, g, v
    <3>7. TookOver(After[k], main, Had(k))
      BY <2>1, <2>3, <3>4, <3>5, <3>6 DEF TookOver
    <3> QED BY <2>1, <3>7
  <2> QED BY <2>5, <2>6
<1>4. 0 .. n \subseteq S
  <2> HIDE DEF S, n
  <2> QED BY <1>1, <1>2, <1>3, UpTo
<1> QED BY <1>4

-----------------------------------------------------------------------------
(* The inductive invariant: the live blocks are those the two tables hold  *)
(* and those that were lost, each of them in one of the three.             *)

HeldBy(t) == IF t = NULL THEN {} ELSE Held(t)

Owned(m, t, l, x) ==
  /\ m \in Table /\ SlotsExact(m) /\ Single(m)
  /\ t # NULL => t \in Table /\ SlotsExact(t) /\ Single(t) /\ t.transfers = << >>
  /\ l \subseteq Block
  /\ l = Held(m) \cup HeldBy(t) \cup x
  /\ Held(m) \cap HeldBy(t) = {}
  /\ x \cap (Held(m) \cup HeldBy(t)) = {}

IInv == Owned(main, temp, live, lost)

LEMMA Primed == IInv' <=> Owned(main', temp', live', lost')
  BY DEF IInv

LEMMA NewTableEmpty == NewTable \in Table /\ SlotsExact(NewTable) /\ Single(NewTable) /\ Held(NewTable) = {}
<1>1. NewTable \in Table /\ NewTable.entries = << >> /\ NewTable.availible = << >> /\ NewTable.transfers = << >>
  BY NewTableType
<1>2. DOMAIN << >> = {}
  OBVIOUS
<1> HIDE DEF NewTable
<1> QED BY <1>1, <1>2 DEF SlotsExact, Single, NoneTwice, Values, Held

LEMMA InitIInv == Init => IInv
  BY NewTableEmpty DEF Init, IInv, Owned, HeldBy

\* A table whose counters alone change holds what it held.
LEMMA GrowthKeeps ==
  ASSUME NEW g \in Table, SlotsExact(g), Single(g), NEW a \in Arrays
  PROVE  LET h == GrowthFailed(g, a)
         IN  h \in Table /\ SlotsExact(h) /\ Single(h) /\ Held(h) = Held(g)
<1>1. GrowthFailed(g, a) \in Table /\ SameArrays(GrowthFailed(g, a), g)
  BY GrownType
<1> QED BY <1>1 DEF SameArrays, SlotsExact, Single, Held

-----------------------------------------------------------------------------
(* Each step keeps the invariant and is one of Ownership, or none.         *)

Implements == IInv' /\ [O!Next]_(O!vars)

LEMMA MallocStep ==
  ASSUME IInv, NEW b \in Block, Malloc(b) PROVE Implements
<1>1. /\ main \in Table /\ SlotsExact(main) /\ Single(main) /\ b \notin Held(main)
      /\ b \notin live /\ main' = Entered(main, b) /\ live' = live \cup {b}
      /\ temp' = temp /\ lost' = lost /\ phase' = phase /\ phase = "run" /\ temp = NULL
  BY DEF IInv, Owned, Malloc, Idle
<1>2. main' \in Table /\ SlotsExact(main') /\ Single(main') /\ Held(main') = Held(main) \cup {b}
  BY <1>1, EnteredTable
<1>3. Owned(main', temp', live', lost')
  BY <1>1, <1>2 DEF IInv, Owned, HeldBy
<1>4. O!Acquire(b)
  BY <1>1 DEF IInv, Owned, O!Acquire
<1> QED BY <1>3, <1>4, Primed DEF Implements, O!Next

LEMMA MallocFailsStep ==
  ASSUME IInv, MallocFails PROVE Implements
<1>1. /\ main \in Table /\ SlotsExact(main) /\ Single(main)
      /\ main' = main \/ main' = GrowthFailed(main, "entries")
      /\ phase = "run" /\ phase' = "panic"
      /\ temp' = temp /\ live' = live /\ lost' = lost
  BY DEF IInv, Owned, MallocFails, Idle
<1>2. main' \in Table /\ SlotsExact(main') /\ Single(main') /\ Held(main') = Held(main)
  BY <1>1, GrowthKeeps DEF Arrays
<1>3. Owned(main', temp', live', lost')
  BY <1>1, <1>2 DEF IInv, Owned
<1>4. UNCHANGED O!vars
  BY <1>1 DEF O!vars
<1> QED BY <1>3, <1>4, Primed DEF Implements

LEMMA AddManagedStep ==
  ASSUME IInv, NEW b \in Block, AddManaged(b) PROVE Implements
<1>1. /\ main \in Table /\ SlotsExact(main) /\ Single(main) /\ b \notin Held(main)
      /\ b \notin live /\ live' = live \cup {b} /\ temp' = temp /\ phase = "run" /\ temp = NULL
  BY DEF IInv, Owned, AddManaged, Idle
<1>2. CASE main' = Entered(main, b) /\ lost' = lost /\ phase' = phase
  <2>1. main' \in Table /\ SlotsExact(main') /\ Single(main') /\ Held(main') = Held(main) \cup {b}
    BY <1>1, <1>2, EnteredTable
  <2>2. Owned(main', temp', live', lost')
    BY <1>1, <1>2, <2>1 DEF IInv, Owned, HeldBy
  <2>3. O!Acquire(b)
    BY <1>1, <1>2 DEF IInv, Owned, O!Acquire
  <2> QED BY <2>2, <2>3, Primed DEF Implements, O!Next
<1>3. CASE main' = GrowthFailed(main, "entries") /\ lost' = lost \cup {b} /\ phase' = "panic"
  <2>1. main' \in Table /\ SlotsExact(main') /\ Single(main') /\ Held(main') = Held(main)
    BY <1>1, <1>3, GrowthKeeps DEF Arrays
  <2>2. Owned(main', temp', live', lost')
    BY <1>1, <1>3, <2>1 DEF IInv, Owned, HeldBy
  <2>3. {b} \in SUBSET Block /\ O!Lose({b})
    BY <1>1, <1>3 DEF IInv, Owned, O!Lose
  <2> QED BY <2>2, <2>3, Primed DEF Implements, O!Next
<1> QED BY <1>2, <1>3 DEF AddManaged

LEMMA TransferMallocStep ==
  ASSUME IInv, NEW b \in Block, TransferMalloc(b) PROVE Implements
<1>1. /\ main \in Table /\ SlotsExact(main) /\ Single(main) /\ b \notin Held(main)
      /\ b \notin live /\ lost' = lost /\ temp' = temp /\ phase = "run" /\ temp = NULL
  BY DEF IInv, Owned, TransferMalloc, Idle
<1>2. CASE main' = Push(main, "transfers", b) /\ live' = live \cup {b} /\ phase' = phase
  <2>1. main' \in Table /\ SlotsExact(main') /\ Single(main') /\ Held(main') = Held(main) \cup {b}
    BY <1>1, <1>2, TransferredTable, NullAssumption
  <2>2. Owned(main', temp', live', lost')
    BY <1>1, <1>2, <2>1 DEF IInv, Owned, HeldBy
  <2>3. O!Acquire(b)
    BY <1>1, <1>2 DEF IInv, Owned, O!Acquire
  <2> QED BY <2>2, <2>3, Primed DEF Implements, O!Next
<1>3. CASE /\ main' = Push(main, "transfers", JUNK) \/ main' = GrowthFailed(main, "transfers")
           /\ live' = live /\ phase' = "panic"
  <2>1. JUNK \notin Held(main)
    BY DEF Held
  <2>2. main' \in Table /\ SlotsExact(main') /\ Single(main') /\ Held(main') = Held(main)
    <3>1. CASE main' = Push(main, "transfers", JUNK)
      <4>1. JUNK \in Block \cup {JUNK} /\ {JUNK} \ {JUNK} = {}
        OBVIOUS
      <4> QED BY <1>1, <2>1, <3>1, <4>1, TransferredTable
    <3>2. CASE main' = GrowthFailed(main, "transfers")
      BY <1>1, <3>2, GrowthKeeps DEF Arrays
    <3> QED BY <1>3, <3>1, <3>2
  <2>3. Owned(main', temp', live', lost')
    BY <1>1, <1>3, <2>2 DEF IInv, Owned
  <2>4. UNCHANGED O!vars
    BY <1>1, <1>3 DEF O!vars
  <2> QED BY <2>3, <2>4, Primed DEF Implements
<1> QED BY <1>2, <1>3 DEF TransferMalloc

LEMMA ReallocStep ==
  ASSUME IInv, NEW b \in Block, NEW c \in Block, Realloc(b, c) PROVE Implements
<1>1. /\ main \in Table /\ SlotsExact(main) /\ Single(main) /\ b \in Held(main)
      /\ c \notin live /\ c \notin Held(main)
      /\ main' = Moved(main, b, c)
      /\ live' = (live \ {b}) \cup {c}
      /\ lost' = lost /\ temp' = temp /\ phase = "run" /\ phase' = phase /\ temp = NULL
  BY DEF IInv, Owned, Realloc, Idle, Moved
<1>2. main' \in Table /\ SlotsExact(main') /\ Single(main') /\ Held(main') = (Held(main) \ {b}) \cup {c}
  BY <1>1, MovedTable
<1>3. Owned(main', temp', live', lost')
  BY <1>1, <1>2 DEF IInv, Owned, HeldBy
<1>4. O!Exchange(b, c)
  BY <1>1 DEF IInv, Owned, O!Exchange
<1> QED BY <1>3, <1>4, Primed DEF Implements, O!Next

LEMMA FreeStep ==
  ASSUME IInv, NEW b \in Block, Free(b) PROVE Implements
<1>1. /\ main \in Table /\ SlotsExact(main) /\ Single(main)
      /\ lost' = lost /\ temp' = temp /\ phase = "run" /\ phase' = phase /\ temp = NULL
  BY DEF IInv, Owned, Free, Idle
<1>2. PICK i \in DOMAIN main.entries :
        /\ main.entries[i] = b
        /\ \/ /\ main' = [Push(main, "availible", i) EXCEPT !.entries[i] = NULL]
              /\ live' = live \ {b}
           \/ /\ main' = GrowthFailed(main, "availible")
              /\ live' = live
  BY DEF Free
<1>3. b \in Held(main)
  BY <1>2, NullAssumption DEF Held, Values
<1>4. CASE main' = [Push(main, "availible", i) EXCEPT !.entries[i] = NULL] /\ live' = live \ {b}
  <2>1. main' \in Table /\ SlotsExact(main') /\ Single(main') /\ Held(main') = Held(main) \ {b}
    BY <1>1, <1>2, <1>4, FreedTable
  <2>2. Owned(main', temp', live', lost')
    BY <1>1, <1>3, <1>4, <2>1 DEF IInv, Owned, HeldBy
  <2>3. {b} \in SUBSET Block /\ O!Release({b})
    BY <1>1, <1>3, <1>4 DEF IInv, Owned, O!Release
  <2> QED BY <2>2, <2>3, Primed DEF Implements, O!Next
<1>5. CASE main' = GrowthFailed(main, "availible") /\ live' = live
  <2>1. main' \in Table /\ SlotsExact(main') /\ Single(main') /\ Held(main') = Held(main)
    BY <1>1, <1>5, GrowthKeeps DEF Arrays
  <2>2. Owned(main', temp', live', lost')
    BY <1>1, <1>5, <2>1 DEF IInv, Owned
  <2>3. UNCHANGED O!vars
    BY <1>1, <1>5 DEF O!vars
  <2> QED BY <2>2, <2>3, Primed DEF Implements
<1> QED BY <1>2, <1>4, <1>5

LEMMA OpenTempStep ==
  ASSUME IInv, OpenTemp PROVE Implements
<1>1. Owned(main', temp', live', lost')
  <2>1. /\ Held(NewTable) = {} /\ NewTable \in Table /\ SlotsExact(NewTable)
        /\ Single(NewTable) /\ NewTable.transfers = << >>
    BY NewTableEmpty, NewTableType
  <2> QED BY <2>1 DEF IInv, Owned, OpenTemp, Idle, HeldBy
<1>2. UNCHANGED O!vars
  BY DEF OpenTemp, O!vars
<1> QED BY <1>1, <1>2, Primed DEF Implements

LEMMA TempMallocStep ==
  ASSUME IInv, NEW b \in Block, TempMalloc(b) PROVE Implements
<1>1. /\ temp \in Table /\ SlotsExact(temp) /\ Single(temp) /\ temp.transfers = << >>
      /\ b \notin Held(temp) /\ b \notin live /\ temp' = Entered(temp, b) /\ live' = live \cup {b}
      /\ main' = main /\ lost' = lost /\ phase' = phase /\ phase = "run" /\ temp # NULL
  BY DEF IInv, Owned, TempMalloc, HeldBy
<1>2. /\ temp' \in Table /\ SlotsExact(temp') /\ Single(temp')
      /\ Held(temp') = Held(temp) \cup {b} /\ temp'.transfers = << >>
  BY <1>1, EnteredTable
<1>3. HeldBy(temp') = HeldBy(temp) \cup {b}
  <2>1. temp' # NULL
    BY <1>2, NullAssumption
  <2> QED BY <1>1, <1>2, <2>1 DEF HeldBy
<1>4. Owned(main', temp', live', lost')
  BY <1>1, <1>2, <1>3 DEF IInv, Owned
<1>5. O!Acquire(b)
  BY <1>1 DEF IInv, Owned, O!Acquire
<1> QED BY <1>4, <1>5, Primed DEF Implements, O!Next

LEMMA FreeTempStep ==
  ASSUME IInv, FreeTemp PROVE Implements
<1>1. Owned(main', temp', live', lost')
  BY DEF IInv, Owned, FreeTemp, HeldBy
<1>2. Held(temp) \in SUBSET Block /\ O!Release(Held(temp))
  BY DEF IInv, Owned, FreeTemp, HeldBy, O!Release
<1> QED BY <1>1, <1>2, Primed DEF Implements, O!Next

LEMMA TransferStep ==
  ASSUME IInv, Transfer PROVE Implements
<1> DEFINE n == Len(temp.entries)
           Had(k) == {temp.entries[j] : j \in 1 .. k} \ {NULL}
           Rest(k) == {temp.entries[j] : j \in k .. n} \ {NULL}
<1>1. /\ main \in Table /\ SlotsExact(main) /\ Single(main)
      /\ temp \in Table /\ SlotsExact(temp) /\ Single(temp) /\ temp.transfers = << >>
      /\ Held(main) \cap Held(temp) = {} /\ lost \cap (Held(main) \cup Held(temp)) = {}
      /\ live = Held(main) \cup Held(temp) \cup lost /\ live \subseteq Block
      /\ phase = "run" /\ phase' = phase /\ live' = live /\ temp' = NULL
  BY DEF IInv, Owned, Transfer, HeldBy
<1>2. n \in Nat /\ temp.entries \in Seq(Block \cup {NULL}) /\ DOMAIN temp.entries = 1 .. n
  BY <1>1 DEF Table
<1>3. Held(temp) = Had(n)
  <2>1. Values(temp.transfers) = {}
    BY <1>1 DEF Values
  <2>2. Values(temp.entries) = {temp.entries[j] : j \in 1 .. n}
    BY <1>2 DEF Values
  <2>3. JUNK \notin Values(temp.entries)
    BY <1>2, NullAssumption DEF Values
  <2> QED BY <2>1, <2>2, <2>3 DEF Held
<1>4. \A k \in 0 .. n : TookOver(After[k], main, Had(k))
  <2> HIDE DEF n
  <2> QED BY <1>1, AfterTable DEF n
<1>5. CASE main' = After[n] /\ lost' = lost
  <2>a. n \in 0 .. n
    BY <1>2
  <2>1. TookOver(main', main, Had(n))
    <3> HIDE DEF n, Had
    <3> QED BY <1>4, <1>5, <2>a
  <2> HIDE DEF Had, n
  <2>2. Owned(main', temp', live', lost')
    BY <1>1, <1>3, <1>5, <2>1 DEF Owned, HeldBy, TookOver
  <2>3. UNCHANGED O!vars
    BY <1>1, <1>5 DEF O!vars
  <2> QED BY <2>2, <2>3, Primed DEF Implements
<1>6. ASSUME NEW k \in DOMAIN temp.entries,
             main' = GrowthFailed(After[k - 1], "transfers"), lost' = lost \cup Rest(k)
      PROVE  Implements
  <2> DEFINE g == After[k - 1]
  <2>a. k - 1 \in 0 .. n
    BY <1>2
  <2>1. TookOver(g, main, Had(k - 1))
    <3> HIDE DEF n, Had
    <3> QED BY <1>4, <2>a
  <2>2. main' \in Table /\ SlotsExact(main') /\ Single(main') /\ Held(main') = Held(g)
    <3> HIDE DEF g, Had
    <3> QED BY <1>6, <2>1, GrowthKeeps DEF Arrays, TookOver, g
  <2>3. Had(k - 1) \cup Rest(k) = Held(temp)
    <3>1. \A j : j \in 1 .. n <=> j \in 1 .. k - 1 \/ j \in k .. n
      BY <1>2
    <3> HIDE DEF n
    <3> QED BY <1>3, <3>1
  <2>4. Had(k - 1) \cap Rest(k) = {}
    <3>1. \A i \in 1 .. k - 1, j \in k .. n : i # j /\ i \in DOMAIN temp.entries /\ j \in DOMAIN temp.entries
      BY <1>2
    <3>2. \A j \in DOMAIN temp.entries : temp.entries[j] # NULL => temp.entries[j] \in Block
      BY <1>2
    <3>3. \A i \in 1 .. k - 1, j \in k .. n : temp.entries[i] # NULL => temp.entries[i] # temp.entries[j]
      <4> HIDE DEF n
      <4> QED BY <1>1, <3>1, <3>2 DEF Single, NoneTwice
    <3> HIDE DEF n
    <3> QED BY <3>3
  <2> HIDE DEF Had, Rest, n, g
  <2>5. Owned(main', temp', live', lost')
    BY <1>1, <1>6, <2>1, <2>2, <2>3, <2>4 DEF Owned, HeldBy, TookOver
  <2>6. Rest(k) \in SUBSET Block /\ O!Lose(Rest(k))
    BY <1>1, <1>6, <2>3 DEF O!Lose
  <2> QED BY <2>5, <2>6, Primed DEF Implements, O!Next
<1> QED BY <1>5, <1>6 DEF Transfer

LEMMA FreeAllStep ==
  ASSUME IInv, FreeAll PROVE Implements
<1>1. Owned(main', temp', live', lost')
  BY NewTableEmpty DEF IInv, Owned, FreeAll, HeldBy
<1>2. O!Close
  BY DEF IInv, Owned, FreeAll, HeldBy, O!Close
<1> QED BY <1>1, <1>2, Primed DEF Implements, O!Next

LEMMA StepImplements == IInv /\ [Next]_vars => Implements
<1> SUFFICES ASSUME IInv, [Next]_vars PROVE Implements
  OBVIOUS
<1>1. CASE UNCHANGED vars
  BY <1>1, Primed DEF vars, IInv, Implements, O!vars
<1>2. CASE Next
  BY <1>2, MallocStep, AddManagedStep, TransferMallocStep, FreeStep, TempMallocStep, ReallocStep,
     MallocFailsStep, OpenTempStep, FreeTempStep, TransferStep, FreeAllStep DEF Next
<1> QED BY <1>1, <1>2

THEOREM TablesInvariant == Spec => []IInv
<1>1. IInv /\ [Next]_vars => IInv'
  BY StepImplements DEF Implements
<1> QED BY InitIInv, <1>1, PTL DEF Spec

\* Every address in the tables is that of a live block and stands in one slot of
\* one table, so nothing is freed twice.
THEOREM OneOwnerCorrect == Spec => []OneOwner
<1>1. IInv => OneOwner
  BY DEF IInv, Owned, HeldBy, TempHeld, OneOwner
<1> QED BY TablesInvariant, <1>1, PTL

\* The lists of free slots name each cleared slot, once, and no other.
THEOREM FreeSlotsCorrect == Spec => []FreeSlotsExact
<1>1. IInv => FreeSlotsExact
  BY DEF IInv, Owned, FreeSlotsExact
<1> QED BY TablesInvariant, <1>1, PTL

\* The tables implement single ownership: what the compiler still holds when it
\* stops is released by free_safe_gc, whatever happened before.
THEOREM OwnershipImplemented == Spec => ImplementsOwnership
<1>1. Init => O!Init
  BY DEF Init, O!Init
<1>2. IInv /\ [Next]_vars => [O!Next]_(O!vars)
  BY StepImplements DEF Implements
<1> QED BY TablesInvariant, <1>1, <1>2, PTL DEF Spec, ImplementsOwnership, O!Spec
=============================================================================
