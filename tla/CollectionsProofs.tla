-------------------------- MODULE CollectionsProofs --------------------------
(* The collections of the library, for any number of elements, any first      *)
(* length and any growth: lists and stacks implement AbstractList, a set      *)
(* loses nothing and is exact as long as it has no gaps, a map implements     *)
(* Dictionary, and arrays are sorted and searched. The constants are those of *)
(* whichever of them a theorem is of.                                         *)
EXTENDS Collections, Sequences, Recursion, FiniteSetTheorems, TLAPS

---------------------------------------------------------------------------
(* The list: what the operations do to the array.                             *)

\* memswap moves a stretch of the array as it was, wherever it is moved to.
LEMMA MemswapMoves ==
  ASSUME NEW a, DOMAIN a \subseteq Int, NEW dest \in Nat, NEW src \in Nat, NEW length \in Nat
  PROVE  /\ Memswap(a, dest, src, length) = [k \in DOMAIN a |-> Memswap(a, dest, src, length)[k]]
         /\ \A k \in DOMAIN a :
              Memswap(a, dest, src, length)[k] =
                IF k - dest \in 0..length - 1 THEN a[k - dest + src] ELSE a[k]
<1> DEFINE temp == Memcpy(New(length), a, 0, src, length)
<1>1. \A j \in 0..length - 1 : temp[j] = a[j + src]
  BY DEF Memcpy, New
<1>2. \A k \in DOMAIN a : k - dest \in 0..length - 1 => temp[k - dest + 0] = a[k - dest + src]
  BY <1>1
<1> HIDE DEF temp
<1>3. Memswap(a, dest, src, length) =
        [k \in DOMAIN a |-> IF k - dest \in 0..length - 1 THEN temp[k - dest + 0] ELSE a[k]]
  BY DEF Memswap, Memcpy, temp
<1> QED BY <1>2, <1>3

LEMMA GrownType ==
  ASSUME TypeOK
  PROVE  /\ Room \in Nat /\ count + 1 <= Room
         /\ Grown \in [0..Room - 1 -> Values \cup {Uninit}]
         /\ \A k \in 0..count - 1 : Grown[k] = elems[k]
BY ArrayListAssumption DEF TypeOK, Room, Grown

\* The array after an insertion at i, and after a removal at i.
LEMMA Inserted ==
  ASSUME TypeOK, NEW i \in 0..count, NEW v \in Values, ListInsert(i, v)
  PROVE  /\ elems' \in [0..Room - 1 -> Values \cup {Uninit}]
         /\ \A k \in 0..count :
              elems'[k] = IF k < i THEN elems[k] ELSE IF k = i THEN v ELSE elems[k - 1]
<1> DEFINE moved == Memswap(Grown, i + 1, i, count - i)
<1>1. i + 1 \in Nat /\ i \in Nat /\ count - i \in Nat /\ count \in Nat /\ Room \in Nat /\ count + 1 <= Room
  BY GrownType DEF TypeOK
<1>2. DOMAIN Grown = 0..Room - 1 /\ DOMAIN Grown \subseteq Int
  BY GrownType
<1>3. /\ moved = [k \in DOMAIN Grown |-> moved[k]]
      /\ \A k \in DOMAIN Grown :
           moved[k] = IF k - (i + 1) \in 0..count - i - 1 THEN Grown[k - (i + 1) + i] ELSE Grown[k]
  <2>1. \A d, s, l \in Nat :
          /\ Memswap(Grown, d, s, l) = [k \in DOMAIN Grown |-> Memswap(Grown, d, s, l)[k]]
          /\ \A k \in DOMAIN Grown :
               Memswap(Grown, d, s, l)[k] = IF k - d \in 0..l - 1 THEN Grown[k - d + s] ELSE Grown[k]
    BY <1>2, MemswapMoves
  <2> QED BY <1>1, <2>1
<1>4. \A k \in 0..Room - 1 : moved[k] = IF k - (i + 1) \in 0..count - i - 1 THEN Grown[k - 1] ELSE Grown[k]
  <2> HIDE DEF moved
  <2>1. \A k \in 0..Room - 1 : k - (i + 1) + i = k - 1
    BY <1>1
  <2> QED BY <1>2, <1>3, <2>1
<1>5. moved \in [0..Room - 1 -> Values \cup {Uninit}]
  <2>1. \A k \in 0..Room - 1 : k - (i + 1) \in 0..count - i - 1 => k - 1 \in 0..Room - 1
    BY <1>1
  <2>2. \A k \in 0..Room - 1 : moved[k] \in Values \cup {Uninit}
    BY <1>4, <2>1, GrownType
  <2> QED BY <1>2, <1>3, <2>2
<1>6. \A k \in 0..count : k # i => moved[k] = IF k < i THEN elems[k] ELSE elems[k - 1]
  BY <1>1, <1>4, GrownType
<1>7. elems' = [moved EXCEPT ![i] = v] /\ i \in 0..Room - 1
  BY <1>1 DEF ListInsert
<1> HIDE DEF moved
<1> QED BY <1>1, <1>5, <1>6, <1>7

LEMMA Removed ==
  ASSUME TypeOK, NEW i \in 0..count - 1
  PROVE  /\ Shifted(i) \in [0..limit - 1 -> Values \cup {Uninit}]
         /\ \A k \in 0..count - 2 : Shifted(i)[k] = IF k < i THEN elems[k] ELSE elems[k + 1]
<1>1. i \in Nat /\ i + 1 \in Nat /\ count - 1 - i \in Nat /\ count \in Nat /\ limit \in Nat /\ count <= limit
  BY DEF TypeOK
<1>2. DOMAIN elems = 0..limit - 1 /\ DOMAIN elems \subseteq Int
  BY DEF TypeOK
<1>3. /\ Shifted(i) = [k \in DOMAIN elems |-> Shifted(i)[k]]
      /\ \A k \in DOMAIN elems :
           Shifted(i)[k] = IF k - i \in 0..count - 1 - i - 1 THEN elems[k - i + (i + 1)] ELSE elems[k]
  <2>1. \A d, s, l \in Nat :
          /\ Memswap(elems, d, s, l) = [k \in DOMAIN elems |-> Memswap(elems, d, s, l)[k]]
          /\ \A k \in DOMAIN elems :
               Memswap(elems, d, s, l)[k] = IF k - d \in 0..l - 1 THEN elems[k - d + s] ELSE elems[k]
    BY <1>2, MemswapMoves
  <2> QED BY <1>1, <2>1 DEF Shifted
<1>4. \A k \in 0..limit - 1 : Shifted(i)[k] = IF k - i \in 0..count - 1 - i - 1 THEN elems[k + 1] ELSE elems[k]
  <2>1. \A k \in 0..limit - 1 : k - i + (i + 1) = k + 1
    BY <1>1
  <2> QED BY <1>2, <1>3, <2>1
<1>5. \A k \in 0..limit - 1 : Shifted(i)[k] \in Values \cup {Uninit}
  <2>1. \A k \in 0..limit - 1 : k - i \in 0..count - 1 - i - 1 => k + 1 \in 0..limit - 1
    BY <1>1
  <2> QED BY <1>4, <2>1 DEF TypeOK
<1>6. \A k \in 0..count - 2 : Shifted(i)[k] = IF k < i THEN elems[k] ELSE elems[k + 1]
  BY <1>1, <1>4
<1> QED BY <1>2, <1>3, <1>5, <1>6

\* An element that occurs has a first place, and no other place is the first one.
LEMMA FirstPlace ==
  ASSUME TypeOK, NEW v \in Values, Equal(v) # {}
  PROVE  /\ IndexOf(v) \in 0..count - 1
         /\ elems[IndexOf(v)] = v
         /\ \A j \in 0..IndexOf(v) - 1 : elems[j] # v
<1>1. Equal(v) \in SUBSET (0..count) /\ count \in Nat
  BY DEF Equal, TypeOK
<1>2. \E i \in Equal(v) : \A j \in 0..i - 1 : j \notin Equal(v)
  BY <1>1, LeastOf
<1>3. IndexOf(v) \in Equal(v) /\ \A j \in 0..IndexOf(v) - 1 : j \notin Equal(v)
  BY <1>2 DEF IndexOf
<1> QED BY <1>1, <1>3 DEF Equal

LEMMA SameFirst ==
  ASSUME TypeOK, NEW v \in Values
  PROVE  /\ List!Occurs(v) <=> Equal(v) # {}
         /\ Equal(v) # {} => List!First(v) = IndexOf(v)
<1>1. List!Occurs(v) <=> Equal(v) # {}
  BY DEF List!Occurs, Equal
<1>2. ASSUME Equal(v) # {} PROVE List!First(v) = IndexOf(v)
  <2> DEFINE isFirst(j) == /\ j \in 0..count - 1
                           /\ [k \in 0..count - 1 |-> elems[k]][j] = v
                           /\ \A k \in 0..j - 1 : [l \in 0..count - 1 |-> elems[l]][k] # v
  <2>1. isFirst(IndexOf(v))
    BY <1>2, FirstPlace DEF TypeOK
  <2>2. isFirst(List!First(v))
    BY <2>1 DEF List!First
  <2>3. \A i, j \in 0..count - 1 : isFirst(i) /\ isFirst(j) => i = j
    <3>1. \A i, j \in 0..count - 1 : isFirst(i) /\ isFirst(j) => ~(i < j)
      <4> SUFFICES ASSUME NEW i \in 0..count - 1, NEW j \in 0..count - 1, isFirst(i), isFirst(j), i < j PROVE FALSE OBVIOUS
      <4>1. i \in 0..j - 1
        BY DEF TypeOK
      <4> QED BY <4>1
    <3> HIDE DEF isFirst
    <3> QED BY <3>1 DEF TypeOK
  <2>4. IndexOf(v) \in 0..count - 1 /\ List!First(v) \in 0..count - 1
    BY <2>1, <2>2
  <2> HIDE DEF isFirst
  <2> QED BY <2>1, <2>2, <2>3, <2>4
<1> QED BY <1>1, <1>2
---------------------------------------------------------------------------
(* The array is right in every step, and every step is one of AbstractList.   *)

LEMMA ListAddType == ASSUME TypeOK, NEW v \in Values, ListAdd(v) PROVE TypeOK'
<1>1. count \in 0..Room - 1 /\ count' \in 0..limit'
  BY GrownType DEF TypeOK, ListAdd
<1> QED BY <1>1, GrownType DEF TypeOK, ListAdd

LEMMA ListInsertType == ASSUME TypeOK, NEW i \in 0..count, NEW v \in Values, ListInsert(i, v) PROVE TypeOK'
<1>1. limit' = Room /\ count' \in 0..limit'
  BY GrownType DEF TypeOK, ListInsert
<1> QED BY <1>1, Inserted, GrownType DEF TypeOK

LEMMA ShiftType ==
  ASSUME TypeOK, NEW i \in 0..count - 1, elems' = Shifted(i), count' = count - 1, limit' = limit
  PROVE  TypeOK'
BY Removed DEF TypeOK

LEMMA StepType == TypeOK /\ [Next]_vars => TypeOK'
<1> SUFFICES ASSUME TypeOK, [Next]_vars PROVE TypeOK' OBVIOUS
<1>1. CASE \E v \in Values : ListAdd(v)
  BY <1>1, ListAddType
<1>2. CASE \E v \in Values : ListIndexOf(v)
  BY <1>2 DEF TypeOK, ListIndexOf
<1>3. CASE \E v \in Values : ListRemove(v)
  BY <1>3, FirstPlace, ShiftType DEF TypeOK, ListRemove
<1>4. CASE \E i \in 0..count, v \in Values : ListInsert(i, v)
  BY <1>4, ListInsertType
<1>5. CASE \E i \in 0..count - 1 : ListRemoveAt(i)
  BY <1>5, ShiftType DEF ListRemoveAt
<1>6. CASE \E i \in 0..count - 1 : ListGet(i) \/ \E v \in Values : ListSet(i, v)
  BY <1>6 DEF TypeOK, ListGet, ListSet
<1>7. CASE StackPop
  BY <1>7 DEF TypeOK, StackPop
<1>8. CASE UNCHANGED vars
  BY <1>8 DEF TypeOK, vars
<1> QED BY <1>1, <1>2, <1>3, <1>4, <1>5, <1>6, <1>7, <1>8 DEF Next

LEMMA InitType == Init => TypeOK
BY ArrayListAssumption DEF Init, TypeOK, New

\* ListTypeCorrect: the array has the length it is said to have, and the elements fit in it.
THEOREM ListTypeCorrect == Spec => []TypeOK
BY InitType, StepType, PTL DEF Spec

\* Without a legal index left out, no call leaves the array.
LEMMA InsertImplements ==
  ASSUME TypeOK, NEW i \in 0..count, NEW v \in Values, ListInsert(i, v)
  PROVE  List!Insert(i, v)
<1>1. count \in Nat /\ i \in Nat /\ count' = count + 1 /\ Room \in Nat /\ count + 1 <= Room
  BY GrownType DEF TypeOK, ListInsert
<1>2. answer' = Nothing
  BY <1>1 DEF ListInsert, Touched
<1>3. \A k \in 0..count :
        elems'[k] = IF k < i THEN elems[k] ELSE IF k = i THEN v ELSE elems[k - 1]
  BY Inserted
<1>4. [k \in 0..count' - 1 |-> elems'[k]] = List!With(i, v)
  BY <1>1, <1>3 DEF List!With
<1> QED BY <1>1, <1>2, <1>4 DEF List!Insert

LEMMA AddImplements ==
  ASSUME TypeOK, NEW v \in Values, ListAdd(v)
  PROVE  List!Insert(count, v)
<1>1. count \in Nat /\ count' = count + 1 /\ Room \in Nat /\ count + 1 <= Room
  BY GrownType DEF TypeOK, ListAdd
<1>2. answer' = Nothing
  BY <1>1 DEF ListAdd, Touched
<1>3. \A k \in 0..count : elems'[k] = IF k < count THEN elems[k] ELSE v
  BY <1>1, GrownType DEF ListAdd
<1>4. [k \in 0..count' - 1 |-> elems'[k]] = List!With(count, v)
  BY <1>1, <1>3 DEF List!With
<1> QED BY <1>1, <1>2, <1>4 DEF List!Insert

LEMMA ShiftImplements ==
  ASSUME TypeOK, NEW i \in 0..count - 1, elems' = Shifted(i), count' = count - 1
  PROVE  [k \in 0..count' - 1 |-> elems'[k]] = List!Without(i)
<1>1. count \in Nat /\ i \in Nat
  BY DEF TypeOK
<1>2. \A k \in 0..count - 2 : elems'[k] = IF k < i THEN elems[k] ELSE elems[k + 1]
  BY Removed
<1> QED BY <1>1, <1>2 DEF List!Without

LEMMA RemoveAtImplements ==
  ASSUME TypeOK, NEW i \in 0..count - 1, ListRemoveAt(i)
  PROVE  List!RemoveAt(i)
<1>1. answer' = Nothing
  BY DEF TypeOK, ListRemoveAt, Touched
<1> QED BY <1>1, ShiftImplements DEF ListRemoveAt, List!RemoveAt

LEMMA SetImplements ==
  ASSUME TypeOK, NEW i \in 0..count - 1, NEW v \in Values, ListSet(i, v)
  PROVE  List!Set(i, v)
<1>1. answer' = Nothing
  BY DEF TypeOK, ListSet, Touched
<1>2. \A k \in 0..count - 1 : elems'[k] = IF k = i THEN v ELSE elems[k]
  BY DEF TypeOK, ListSet
<1> QED BY <1>1, <1>2 DEF ListSet, List!Set

LEMMA PopImplements ==
  ASSUME TypeOK, StackPop
  PROVE  List!Pop
<1>1. CASE count = 0
  BY <1>1 DEF StackPop, List!Pop
<1>2. CASE count # 0
  <2>1. count \in Nat /\ count - 1 \in 0..count - 1
    BY <1>2 DEF TypeOK
  <2>2. [k \in 0..count' - 1 |-> elems'[k]] = List!Without(count - 1)
    BY <1>2, <2>1 DEF StackPop, List!Without
  <2> QED BY <1>2, <2>1, <2>2 DEF StackPop, List!Pop
<1> QED BY <1>1, <1>2

LEMMA RemoveImplements ==
  ASSUME TypeOK, NEW v \in Values, ListRemove(v)
  PROVE  List!Remove(v)
<1>1. CASE Equal(v) = {}
  BY <1>1, SameFirst DEF ListRemove, List!Remove
<1>2. CASE Equal(v) # {}
  <2>1. IndexOf(v) \in 0..count - 1 /\ List!First(v) = IndexOf(v) /\ List!Occurs(v)
    BY <1>2, FirstPlace, SameFirst
  <2>2. [k \in 0..count' - 1 |-> elems'[k]] = List!Without(IndexOf(v))
    BY <1>2, <2>1, ShiftImplements DEF ListRemove
  <2> QED BY <1>2, <2>1, <2>2 DEF ListRemove, List!Remove
<1> QED BY <1>1, <1>2

LEMMA StepImplements == TypeOK /\ [Next]_vars => [List!Next]_List!vars
<1> SUFFICES ASSUME TypeOK, [Next]_vars PROVE [List!Next]_List!vars OBVIOUS
<1>1. CASE \E v \in Values : ListAdd(v)
  BY <1>1, AddImplements DEF TypeOK, List!Next
<1>2. CASE \E v \in Values : ListIndexOf(v)
  BY <1>2, SameFirst DEF ListIndexOf, List!IndexOf, List!Next
<1>3. CASE \E v \in Values : ListRemove(v)
  BY <1>3, RemoveImplements DEF List!Next
<1>4. CASE \E i \in 0..count, v \in Values : ListInsert(i, v)
  BY <1>4, InsertImplements DEF List!Next
<1>5. CASE \E i \in 0..count - 1 : ListRemoveAt(i)
  BY <1>5, RemoveAtImplements DEF List!Next
<1>6. CASE \E i \in 0..count - 1 : \E v \in Values : ListSet(i, v)
  BY <1>6, SetImplements DEF List!Next
<1>7. CASE \E i \in 0..count - 1 : ListGet(i)
  BY <1>7 DEF ListGet, List!Get, List!Next
<1>8. CASE StackPop
  BY <1>8, PopImplements DEF List!Next
<1>9. CASE UNCHANGED vars
  BY <1>9 DEF vars, List!vars
<1> QED BY <1>1, <1>2, <1>3, <1>4, <1>5, <1>6, <1>7, <1>8, <1>9 DEF Next

\* ListImplements: with arrays of any first length and any growth, every sequence of calls
\* treats the list and the stack as a sequence of elements, and leaves no array.
THEOREM ListImplements == Spec => ImplementsList
<1>1. Init => List!Init
  BY DEF Init, List!Init
<1> QED BY <1>1, InitType, StepType, StepImplements, PTL DEF Spec, List!Spec, ImplementsList

---------------------------------------------------------------------------
(* The set: searching an array.                                               *)

Cell == Hashes \cup {SetOf!Empty}
Outcome == [buckets : Seq(Cell), answer : BOOLEAN]

In(a) == {a[i] : i \in DOMAIN a} \ {SetOf!Empty}
Found(a, x) == \E i \in SetOf!Home(a, x)..Len(a) : a[i] = x

DenseIn(a) ==
  \A i \in DOMAIN a : a[i] # SetOf!Empty =>
    /\ SetOf!Home(a, a[i]) <= i
    /\ \A j \in SetOf!Home(a, a[i])..i : a[j] # SetOf!Empty
    /\ \A j \in DOMAIN a : a[j] = a[i] => i = j

\* An element's home is one of the buckets.
LEMMA HomeIn ==
  ASSUME SetOf!HashSetAssumption, NEW a \in Seq(Cell), Len(a) >= 1, NEW x \in Hashes
  PROVE  SetOf!Home(a, x) \in 1..Len(a)
<1>1. x \in Nat /\ Len(a) \in Nat /\ Len(a) >= 1
  BY DEF SetOf!HashSetAssumption
<1>2. \A n \in Nat : n >= 1 => x % n \in 0..n - 1
  BY <1>1
<1>3. x % Len(a) \in 0..Len(a) - 1
  BY <1>1, <1>2
<1>4. \A r, n \in Int : r \in 0..n - 1 => r + 1 \in 1..n
  OBVIOUS
<1>5. x % Len(a) \in Int
  BY <1>3
<1>6. (x % Len(a)) + 1 \in 1..Len(a)
  BY <1>1, <1>3, <1>4, <1>5
<1> QED BY <1>6 DEF SetOf!Home

\* What the searches for one of several elements return.
LEMMA FirstFromIs ==
  ASSUME SetOf!HashSetAssumption, NEW a \in Seq(Cell), Len(a) >= 1, NEW x \in Hashes, NEW wanted
  PROVE  LET at == SetOf!FirstFrom(a, x, wanted)
         IN  \/ at = 0 /\ \A i \in SetOf!Home(a, x)..Len(a) : a[i] \notin wanted
             \/ /\ at \in SetOf!Home(a, x)..Len(a) /\ at \in 1..Len(a) /\ a[at] \in wanted
                /\ \A i \in SetOf!Home(a, x)..at - 1 : a[i] \notin wanted
<1> DEFINE home == SetOf!Home(a, x)
           T == {i \in home..Len(a) : a[i] \in wanted}
           at == SetOf!FirstFrom(a, x, wanted)
<1>1. home \in 1..Len(a) /\ Len(a) \in Nat
  BY HomeIn
<1>2. at = IF T = {} THEN 0 ELSE CHOOSE i \in T : \A j \in T : i <= j
  BY DEF SetOf!FirstFrom
<1> HIDE DEF at, home
<1>3. CASE T = {}
  BY <1>2, <1>3 DEF at, home
<1>4. CASE T # {}
  <2>1. T \in SUBSET (0..Len(a))
    BY <1>1
  <2>2. \A i \in T : i \in home..Len(a) /\ a[i] \in wanted
    OBVIOUS
  <2>3. \A i \in home..Len(a) : a[i] \in wanted => i \in T
    OBVIOUS
  <2> HIDE DEF T
  <2>4. PICK i \in T : \A j \in 0..i - 1 : j \notin T
    BY <1>1, <1>4, <2>1, LeastOf
  <2>5. \A j \in T : i <= j
    BY <2>1, <2>4
  <2>6. at \in T /\ \A j \in T : at <= j
    BY <1>2, <1>4, <2>5
  <2>7. at \in home..Len(a) /\ a[at] \in wanted /\ at \in 1..Len(a)
    BY <1>1, <2>2, <2>6
  <2>8. \A j \in home..at - 1 : a[j] \notin wanted
    <3> SUFFICES ASSUME NEW j \in home..at - 1, a[j] \in wanted PROVE FALSE OBVIOUS
    <3>1. j \in home..Len(a) /\ ~(at <= j)
      BY <1>1, <2>7
    <3> QED BY <2>3, <2>6, <3>1
  <2> QED BY <2>7, <2>8 DEF at, home
<1> QED BY <1>3, <1>4

---------------------------------------------------------------------------
(* Adding one element to the set.                                             *)

\* The outcome of adding x to the array a: what was found still is, and unless a removal
\* has left gaps in it the array now holds x besides, and the answer tells if it is new.
\* An array beyond the bound may be anything.
Adds(a, out, x) ==
  /\ out \in Outcome /\ Len(out.buckets) >= Len(a)
  /\ Len(out.buckets) <= MAXSET =>
       /\ Found(out.buckets, x)
       /\ \A y \in Hashes : Found(a, y) => Found(out.buckets, y)
       /\ DenseIn(a) => /\ DenseIn(out.buckets)
                        /\ In(out.buckets) = In(a) \cup {x}
                        /\ out.answer = (x \notin In(a))

\* In an array without gaps an element lies where it is looked for.
LEMMA DenseFound ==
  ASSUME SetOf!HashSetAssumption, NEW a \in Seq(Cell), DenseIn(a), NEW x \in In(a)
  PROVE  Found(a, x)
<1>1. PICK i \in DOMAIN a : a[i] = x /\ x # SetOf!Empty
  BY DEF In
<1>2. SetOf!Home(a, x) <= i /\ i \in 1..Len(a)
  BY <1>1 DEF DenseIn
<1>3. Len(a) \in Nat /\ Len(a) >= 1 /\ x \in Hashes
  BY <1>1, <1>2 DEF Cell
<1>4. SetOf!Home(a, x) \in 1..Len(a)
  BY <1>3, HomeIn
<1>5. i \in SetOf!Home(a, x)..Len(a)
  BY <1>2, <1>3, <1>4
<1> QED BY <1>1, <1>5 DEF Found

\* An element put where its search ends.
LEMMA Placed ==
  ASSUME SetOf!HashSetAssumption, NEW a \in Seq(Cell), Len(a) >= 1, NEW x \in Hashes,
         NEW at, at = SetOf!FirstFrom(a, x, {SetOf!Empty, x}), at # 0
  PROVE  Adds(a, [buckets |-> [a EXCEPT ![at] = x], answer |-> a[at] = SetOf!Empty], x)
<1> DEFINE b == [a EXCEPT ![at] = x]
           home(y) == SetOf!Home(a, y)
<1>1. /\ at \in home(x)..Len(a) /\ at \in 1..Len(a) /\ a[at] \in {SetOf!Empty, x}
      /\ \A i \in home(x)..at - 1 : a[i] \notin {SetOf!Empty, x}
  BY FirstFromIs
<1>2. /\ b \in Seq(Cell) /\ Len(b) = Len(a) /\ Len(a) \in Nat /\ DOMAIN b = 1..Len(a) /\ DOMAIN a = 1..Len(a)
      /\ b[at] = x /\ \A i \in 1..Len(a) : i # at => b[i] = a[i]
  <2>1. x \in Cell
    BY DEF Cell
  <2> QED BY <1>1, <2>1
<1> HIDE DEF b
<1>3. \A y : SetOf!Home(b, y) = home(y)
  BY <1>2 DEF SetOf!Home
<1>4. x # SetOf!Empty /\ \A y \in Hashes : y # SetOf!Empty
  BY DEF SetOf!HashSetAssumption, SetOf!Empty
<1>5. \A y \in Hashes : home(y) \in 1..Len(a)
  BY HomeIn
<1> HIDE DEF home
<1>6. Found(b, x)
  BY <1>1, <1>2, <1>3 DEF Found, home
<1>7. ASSUME NEW y \in Hashes, Found(a, y) PROVE Found(b, y)
  <2>1. PICK i \in home(y)..Len(a) : a[i] = y
    BY <1>7 DEF Found, home
  <2>2. i \in 1..Len(a)
    BY <1>2, <1>5, <2>1
  <2>3. b[i] = y
    BY <1>1, <1>2, <1>4, <2>1, <2>2
  <2> QED BY <1>2, <1>3, <2>1, <2>3 DEF Found, home
<1>8. ASSUME DenseIn(a)
      PROVE  DenseIn(b) /\ In(b) = In(a) \cup {x} /\ (a[at] = SetOf!Empty) = (x \notin In(a))
  <2>0. \A i \in 1..Len(a) : a[i] # SetOf!Empty =>
          /\ home(a[i]) <= i
          /\ \A j \in home(a[i])..i : a[j] # SetOf!Empty
          /\ \A j \in 1..Len(a) : a[j] = a[i] => i = j
    BY <1>2, <1>8 DEF DenseIn, home
  <2>1. ASSUME a[at] = SetOf!Empty, NEW j \in 1..Len(a) PROVE a[j] # x
    <3> SUFFICES ASSUME a[j] = x PROVE FALSE OBVIOUS
    <3>1. home(x) <= j /\ \A i \in home(x)..j : a[i] # SetOf!Empty
      BY <1>4, <2>0
    <3>2. ~(at \in home(x)..j)
      BY <2>1, <3>1
    <3>3. j \in home(x)..at - 1
      BY <1>1, <1>2, <1>5, <3>1, <3>2
    <3> QED BY <1>1, <3>3
  <2>2. (a[at] = SetOf!Empty) = (x \notin In(a))
    <3>1. a[at] = SetOf!Empty => x \notin In(a)
      BY <1>2, <2>1 DEF In
    <3>2. a[at] # SetOf!Empty => x \in In(a)
      BY <1>1, <1>2, <1>4 DEF In
    <3> QED BY <3>1, <3>2
  <2>3. In(b) = In(a) \cup {x}
    <3>1. \A y \in In(b) : y \in In(a) \cup {x}
      BY <1>2 DEF In
    <3>2. x \in In(b)
      BY <1>1, <1>2, <1>4 DEF In
    <3>3. ASSUME NEW y \in In(a) PROVE y \in In(b)
      <4>1. PICK i \in 1..Len(a) : a[i] = y /\ y # SetOf!Empty
        BY <1>2 DEF In
      <4>2. b[i] = y
        BY <1>1, <1>2, <4>1
      <4> QED BY <1>2, <4>1, <4>2 DEF In
    <3> QED BY <3>1, <3>2, <3>3
  <2>4. ASSUME NEW i \in 1..Len(a), b[i] # SetOf!Empty
        PROVE  /\ home(b[i]) <= i
               /\ \A j \in home(b[i])..i : b[j] # SetOf!Empty
               /\ \A j \in 1..Len(a) : b[j] = b[i] => i = j
    <3>1. CASE a[at] = x
      <4>1. \A j \in 1..Len(a) : b[j] = a[j]
        BY <1>2, <3>1
      <4>2. b[i] \in Hashes
        BY <1>2, <2>4 DEF Cell
      <4>3. \A j \in home(b[i])..i : j \in 1..Len(a)
        BY <1>2, <1>5, <4>2
      <4> QED BY <2>0, <2>4, <4>1, <4>3
    <3>2. CASE a[at] = SetOf!Empty /\ i = at
      <4>1. b[i] = x /\ home(x) <= i
        BY <1>1, <1>2, <1>5, <3>2
      <4>2. ASSUME NEW j \in home(x)..i PROVE b[j] # SetOf!Empty
        <5>1. CASE j = at
          BY <1>2, <1>4, <5>1
        <5>2. CASE j # at
          <6>1. j \in home(x)..at - 1 /\ j \in 1..Len(a)
            BY <1>1, <1>2, <1>5, <3>2, <5>2
          <6> QED BY <1>1, <1>2, <5>2, <6>1
        <5> QED BY <5>1, <5>2
      <4>3. \A j \in 1..Len(a) : b[j] = x => j = at
        BY <1>2, <2>1, <3>2
      <4> QED BY <3>2, <4>1, <4>2, <4>3
    <3>3. CASE a[at] = SetOf!Empty /\ i # at
      <4>1. b[i] = a[i] /\ a[i] # SetOf!Empty /\ a[i] # x
        BY <1>2, <2>1, <2>4, <3>3
      <4>2. a[i] \in Hashes
        BY <1>2, <4>1 DEF Cell
      <4>3. \A j \in home(a[i])..i : j \in 1..Len(a)
        BY <1>2, <1>5, <4>2
      <4>4. /\ home(a[i]) <= i
            /\ \A j \in home(a[i])..i : a[j] # SetOf!Empty
            /\ \A j \in 1..Len(a) : a[j] = a[i] => i = j
        BY <2>0, <4>1
      <4>5. \A j \in home(a[i])..i : b[j] # SetOf!Empty
        BY <1>2, <1>4, <4>3, <4>4
      <4>6. \A j \in 1..Len(a) : b[j] = a[i] => i = j
        BY <1>2, <4>1, <4>4
      <4> QED BY <4>1, <4>4, <4>5, <4>6
    <3> QED BY <1>1, <3>1, <3>2, <3>3
  <2>5. DenseIn(b)
    BY <1>2, <1>3, <2>4 DEF DenseIn, home
  <2> QED BY <2>2, <2>3, <2>5
<1> DEFINE out == [buckets |-> b, answer |-> a[at] = SetOf!Empty]
<1>9. out \in Outcome /\ out.buckets = b /\ out.answer = (a[at] = SetOf!Empty)
  BY <1>2 DEF Outcome
<1> HIDE DEF out
<1>10. Len(out.buckets) >= Len(a)
  BY <1>2, <1>9
<1>11. Adds(a, out, x)
  BY <1>6, <1>7, <1>8, <1>9, <1>10 DEF Adds
<1> QED BY <1>11 DEF out, b
---------------------------------------------------------------------------
(* Growing the set.                                                           *)

Adders == [Seq(Cell) -> [Hashes -> Outcome]]

Moves(t, a, ins) ==
  /\ t[0] = SetOf!NewBuckets(Len(a) + MOREBUCKETS)
  /\ \A i \in 1..Len(a) :
       t[i] = IF a[i] = SetOf!Empty THEN t[i - 1] ELSE ins[t[i - 1]][a[i]].buckets

LEMMA EmptyArray ==
  ASSUME SetOf!HashSetAssumption, NEW n \in Nat
  PROVE  /\ SetOf!NewBuckets(n) \in Seq(Cell) /\ Len(SetOf!NewBuckets(n)) = n
         /\ DenseIn(SetOf!NewBuckets(n)) /\ In(SetOf!NewBuckets(n)) = {}
<1> DEFINE b == SetOf!NewBuckets(n)
<1>1. b \in Seq(Cell) /\ Len(b) = n /\ DOMAIN b = 1..n /\ \A i \in 1..n : b[i] = SetOf!Empty
  BY DEF SetOf!NewBuckets, Cell
<1> HIDE DEF b
<1> QED BY <1>1 DEF DenseIn, In, b

\* Grown is what it says: the recursion over the buckets of a is defined.
LEMMA GrownUp ==
  ASSUME SetOf!HashSetAssumption, NEW a \in Seq(Cell), NEW ins \in Adders
  PROVE  \E t \in [0..Len(a) -> Seq(Cell)] : Moves(t, a, ins) /\ SetOf!Grown(a, ins) = t[Len(a)]
<1> DEFINE n == Len(a)
           V == Seq(Cell)
           new == SetOf!NewBuckets(n + MOREBUCKETS)
           next(v, i) == IF a[i] = SetOf!Empty THEN v ELSE ins[v][a[i]].buckets
           Step(g, i) == IF i = 0 THEN new ELSE IF a[i] = SetOf!Empty THEN g[i - 1] ELSE ins[g[i - 1]][a[i]].buckets
           F == [i \in 1..n |-> [v \in V |-> next(v, i)]]
           moved == CHOOSE g : g = [i \in 0..n |-> Step(g, i)]
<1>1. n \in Nat /\ new \in V /\ \A i \in 1..n : \A v \in V : next(v, i) \in V
  <2>1. n \in Nat /\ n + MOREBUCKETS \in Nat
    BY DEF SetOf!HashSetAssumption
  <2>2. \A i \in 1..n : a[i] \in Cell
    OBVIOUS
  <2>3. \A v \in V : \A x \in Hashes : ins[v][x] \in Outcome
    BY DEF Adders
  <2>4. \A o \in Outcome : o.buckets \in V
    BY DEF Outcome
  <2>5. \A v \in V : \A i \in 1..n : a[i] # SetOf!Empty => ins[v][a[i]].buckets \in V
    <3> HIDE DEF V
    <3> QED BY <2>2, <2>3, <2>4 DEF Cell
  <2> QED BY <2>1, <2>5, EmptyArray
<1>2. F \in [1..n -> [V -> V]]
  <2> HIDE DEF next, V, n
  <2> QED BY <1>1
<1>3. \A i \in 1..n : \A v \in V : F[i][v] = next(v, i)
  OBVIOUS
<1> HIDE DEF F, V, n, new
<1>4. PICK g \in [0..n -> V] : Iterates(g, n, new, F)
  BY <1>1, <1>2, Recursion
<1>5. g[0] = new /\ \A i \in 1..n : g[i] = F[i][g[i - 1]]
  BY <1>4 DEF Iterates
<1>6. \A i \in 1..n : i - 1 \in 0..n /\ g[i] = next(g[i - 1], i)
  <2>1. \A i \in 1..n : i - 1 \in 0..n
    BY <1>1
  <2> HIDE DEF next
  <2> QED BY <1>3, <1>5, <2>1
<1>7. g = [i \in 0..n |-> Step(g, i)]
  <2>1. ASSUME NEW i \in 0..n PROVE g[i] = Step(g, i)
    <3>1. CASE i = 0
      BY <1>5, <3>1
    <3>2. CASE i # 0
      <4>1. i \in 1..n
        BY <1>1, <3>2
      <4> QED BY <1>6, <3>2, <4>1
    <3> QED BY <3>1, <3>2
  <2> HIDE DEF Step
  <2> QED BY <2>1
<1>8. moved = [i \in 0..n |-> Step(moved, i)]
  BY <1>7
<1>9. SetOf!Grown(a, ins) = moved[n]
  BY DEF SetOf!Grown, n, new
<1> HIDE DEF moved
<1>10. \A i \in 0..n : moved[i] = Step(moved, i)
  BY <1>8
<1>11. moved[0] = new /\ \A i \in 1..n : i - 1 \in 0..n /\ moved[i] = next(moved[i - 1], i)
  <2>1. 0 \in 0..n /\ \A i \in 1..n : i \in 0..n /\ i # 0 /\ i - 1 \in 0..n
    BY <1>1
  <2>2. moved[0] = Step(moved, 0)
    BY <1>10, <2>1
  <2> QED BY <1>10, <2>1, <2>2
<1>12. \A i \in 0..n : moved[i] \in V
  <2> DEFINE S == {i \in 0..n : moved[i] \in V}
  <2>1. 0 \in 0..n /\ moved[0] \in V
    BY <1>1, <1>11
  <2>2. ASSUME NEW i \in 1..n, moved[i - 1] \in V PROVE i \in 0..n /\ moved[i] \in V
    <3> HIDE DEF next
    <3> QED BY <1>1, <1>11, <2>2
  <2>3. 0 \in S /\ \A i \in 1..n : i - 1 \in S => i \in S
    BY <2>1, <2>2
  <2> HIDE DEF S
  <2>4. \A i \in 0..n : i \in S
    BY <1>1, <2>3, EachUpTo
  <2> QED BY <2>4 DEF S
<1>13. moved \in [0..n -> V]
  <2> HIDE DEF Step
  <2>1. moved = [i \in 0..n |-> moved[i]]
    BY <1>8
  <2> QED BY <1>12, <2>1
<1>14. Moves(moved, a, ins)
  BY <1>11 DEF Moves, n, new
<1> QED BY <1>9, <1>13, <1>14 DEF n, V

\* A larger array holds what the old one held, and has no gaps, if adding to larger arrays
\* does what it should.
LEMMA GrownKeeps ==
  ASSUME SetOf!HashSetAssumption, NEW a \in Seq(Cell), NEW ins \in Adders,
         \A c \in Seq(Cell) : \A x \in Hashes : Len(c) >= Len(a) + MOREBUCKETS => Adds(c, ins[c][x], x)
  PROVE  LET b == SetOf!Grown(a, ins)
         IN  /\ b \in Seq(Cell) /\ Len(b) >= Len(a) + MOREBUCKETS
             /\ Len(b) <= MAXSET => DenseIn(b) /\ In(b) = In(a)
<1>1. PICK t \in [0..Len(a) -> Seq(Cell)] : Moves(t, a, ins) /\ SetOf!Grown(a, ins) = t[Len(a)]
  BY GrownUp
<1>2. /\ t[0] = SetOf!NewBuckets(Len(a) + MOREBUCKETS)
      /\ \A i \in 1..Len(a) :
           t[i] = IF a[i] = SetOf!Empty THEN t[i - 1] ELSE ins[t[i - 1]][a[i]].buckets
  BY <1>1 DEF Moves
<1>3. Len(a) \in Nat /\ MOREBUCKETS \in Nat /\ MAXSET \in Nat /\ Len(a) + MOREBUCKETS \in Nat
  BY DEF SetOf!HashSetAssumption
<1> DEFINE before(i) == {a[j] : j \in 1..i} \ {SetOf!Empty}
           good(i) == /\ Len(t[i]) >= Len(a) + MOREBUCKETS
                      /\ Len(t[i]) <= MAXSET => DenseIn(t[i]) /\ In(t[i]) = before(i)
<1>4. good(0)
  <2>1. before(0) = {}
    <3>1. \A j \in 1..0 : FALSE
      OBVIOUS
    <3> QED BY <3>1
  <2>2. Len(t[0]) = Len(a) + MOREBUCKETS /\ DenseIn(t[0]) /\ In(t[0]) = {}
    BY <1>2, <1>3, EmptyArray
  <2> QED BY <1>3, <2>1, <2>2
<1>5. ASSUME NEW i \in 1..Len(a), good(i - 1) PROVE good(i)
  <2>1. i - 1 \in 0..Len(a) /\ i \in 0..Len(a)
    BY <1>3
  <2>2. t[i - 1] \in Seq(Cell) /\ t[i] \in Seq(Cell) /\ Len(t[i - 1]) \in Nat /\ Len(t[i]) \in Nat
    BY <2>1
  <2>3. before(i) = (before(i - 1) \cup {a[i]}) \ {SetOf!Empty}
    <3>1. \A j \in 1..i : j = i \/ j \in 1..i - 1
      OBVIOUS
    <3>2. i \in 1..i /\ \A j \in 1..i - 1 : j \in 1..i
      OBVIOUS
    <3> QED BY <3>1, <3>2
  <2>4. CASE a[i] = SetOf!Empty
    <3>1. t[i] = t[i - 1]
      BY <1>2, <2>4
    <3>2. before(i) = before(i - 1)
      BY <2>3, <2>4
    <3> HIDE DEF before
    <3> QED BY <1>5, <3>1, <3>2
  <2>5. CASE a[i] # SetOf!Empty
    <3>1. a[i] \in Hashes
      BY <2>5 DEF Cell
    <3>2. t[i] = ins[t[i - 1]][a[i]].buckets
      BY <1>2, <2>5
    <3>3. Adds(t[i - 1], ins[t[i - 1]][a[i]], a[i])
      BY <1>5, <2>2, <3>1
    <3>4. Len(t[i]) >= Len(t[i - 1])
      BY <3>2, <3>3 DEF Adds
    <3>5. before(i) = before(i - 1) \cup {a[i]}
      BY <2>3, <2>5
    <3> HIDE DEF before
    <3>6. Len(t[i]) >= Len(a) + MOREBUCKETS
      BY <1>3, <1>5, <2>2, <3>4
    <3>7. ASSUME Len(t[i]) <= MAXSET PROVE DenseIn(t[i]) /\ In(t[i]) = before(i)
      <4>1. Len(t[i - 1]) <= MAXSET
        BY <1>3, <2>2, <3>4, <3>7
      <4>2. DenseIn(t[i - 1]) /\ In(t[i - 1]) = before(i - 1)
        BY <1>5, <4>1
      <4> QED BY <3>2, <3>3, <3>5, <3>7, <4>2 DEF Adds
    <3> QED BY <3>6, <3>7
  <2> QED BY <2>4, <2>5
<1> HIDE DEF good
<1>6. \A i \in 0..Len(a) : good(i)
  <2> DEFINE S == {i \in 0..Len(a) : good(i)}
  <2>1. 0 \in S /\ \A i \in 1..Len(a) : i - 1 \in S => i \in S
    BY <1>3, <1>4, <1>5
  <2> HIDE DEF S
  <2>2. \A i \in 0..Len(a) : i \in S
    BY <1>3, <2>1, EachUpTo
  <2> QED BY <2>2 DEF S
<1>7. good(Len(a)) /\ t[Len(a)] \in Seq(Cell)
  BY <1>3, <1>6
<1>8. before(Len(a)) = In(a)
  BY DEF In
<1> QED BY <1>1, <1>7, <1>8 DEF good
\* The inner procedure itself: too many calls deep, it leaves the array as it is.
Inserts(t) ==
  \A n \in 0..MAXSET : \A c \in Seq(Cell) : \A x \in Hashes :
    LET at == SetOf!FirstFrom(c, x, {SetOf!Empty, x})
    IN  t[n][c][x] = IF at # 0 THEN [buckets |-> [c EXCEPT ![at] = x], answer |-> c[at] = SetOf!Empty]
                     ELSE IF n = 0 THEN [buckets |-> c, answer |-> FALSE]
                     ELSE t[n - 1][SetOf!Grown(c, t[n - 1])][x]

\* Insert is what it says: the recursion over the depth of the calls is defined.
LEMMA InsertUp ==
  ASSUME SetOf!HashSetAssumption
  PROVE  \E t \in [0..MAXSET -> Adders] :
           /\ Inserts(t)
           /\ \A a \in Seq(Cell) : \A x \in Hashes : SetOf!Insert(a, x) = t[MAXSET][a][x]
<1> DEFINE at(c, x) == SetOf!FirstFrom(c, x, {SetOf!Empty, x})
           placed(c, x) == [buckets |-> [c EXCEPT ![at(c, x)] = x], answer |-> c[at(c, x)] = SetOf!Empty]
           same(c) == [buckets |-> c, answer |-> FALSE]
           last == [c \in Seq(Cell) |-> [x \in Hashes |-> IF at(c, x) # 0 THEN placed(c, x) ELSE same(c)]]
           deeper(f) == [c \in Seq(Cell) |-> [x \in Hashes |->
                           IF at(c, x) # 0 THEN placed(c, x) ELSE f[SetOf!Grown(c, f)][x]]]
           F == [n \in 1..MAXSET |-> [f \in Adders |-> deeper(f)]]
           Step(g, n) == [c \in Seq(Hashes \cup {SetOf!Empty}) |-> [x \in Hashes |->
                            IF at(c, x) # 0 THEN placed(c, x)
                            ELSE IF n = 0 THEN same(c)
                            ELSE g[n - 1][SetOf!Grown(c, g[n - 1])][x]]]
           insert == CHOOSE g : g = [n \in 0..MAXSET |-> Step(g, n)]
<1>1. MAXSET \in Nat
  BY DEF SetOf!HashSetAssumption
<1>2. ASSUME NEW c \in Seq(Cell), NEW x \in Hashes
      PROVE  same(c) \in Outcome /\ placed(c, x) \in Outcome
  <2>1. x \in Cell
    BY DEF Cell
  <2>2. [c EXCEPT ![at(c, x)] = x] \in Seq(Cell)
    <3> HIDE DEF at
    <3>1. CASE at(c, x) \in DOMAIN c
      BY <2>1, <3>1
    <3>2. CASE at(c, x) \notin DOMAIN c
      <4>1. [c EXCEPT ![at(c, x)] = x] = c
        BY <3>2
      <4> QED BY <4>1
    <3> QED BY <3>1, <3>2
  <2> HIDE DEF at
  <2> QED BY <2>2 DEF Outcome
<1>3. \A f \in Adders : \A c \in Seq(Cell) : SetOf!Grown(c, f) \in Seq(Cell)
  <2> TAKE f \in Adders
  <2> TAKE c \in Seq(Cell)
  <2>1. PICK t \in [0..Len(c) -> Seq(Cell)] : Moves(t, c, f) /\ SetOf!Grown(c, f) = t[Len(c)]
    BY GrownUp
  <2>2. Len(c) \in 0..Len(c)
    OBVIOUS
  <2> QED BY <2>1, <2>2
<1> HIDE DEF placed, same, at
<1>4. last \in Adders
  BY <1>2 DEF Adders
<1>5. \A f \in Adders : deeper(f) \in Adders
  <2> SUFFICES ASSUME NEW f \in Adders, NEW c \in Seq(Cell), NEW x \in Hashes
               PROVE  (IF at(c, x) # 0 THEN placed(c, x) ELSE f[SetOf!Grown(c, f)][x]) \in Outcome
    BY DEF Adders
  <2>1. f[SetOf!Grown(c, f)][x] \in Outcome
    BY <1>3 DEF Adders
  <2> QED BY <1>2, <2>1
<1>6. F \in [1..MAXSET -> [Adders -> Adders]]
  <2> HIDE DEF deeper
  <2> QED BY <1>5
<1>7. \A n \in 1..MAXSET : \A f \in Adders : F[n][f] = deeper(f)
  OBVIOUS
<1> HIDE DEF F, last
<1>8. PICK g \in [0..MAXSET -> Adders] : Iterates(g, MAXSET, last, F)
  BY <1>1, <1>4, <1>6, Recursion
<1>9. g[0] = last /\ \A n \in 1..MAXSET : g[n] = F[n][g[n - 1]]
  BY <1>8 DEF Iterates
<1>10. g = [n \in 0..MAXSET |-> Step(g, n)]
  <2>1. ASSUME NEW n \in 0..MAXSET PROVE g[n] = Step(g, n)
    <3>1. CASE n = 0
      <4>1. last = Step(g, 0)
        BY DEF last, Cell
      <4> HIDE DEF Step
      <4> QED BY <1>9, <3>1, <4>1
    <3>2. CASE n # 0
      <4>1. n \in 1..MAXSET /\ n - 1 \in 0..MAXSET
        BY <1>1, <3>2
      <4>2. g[n] = deeper(g[n - 1])
        <5> HIDE DEF deeper
        <5> QED BY <1>7, <1>9, <4>1
      <4>3. deeper(g[n - 1]) = Step(g, n)
        BY <3>2 DEF Cell
      <4> HIDE DEF deeper, Step
      <4> QED BY <4>2, <4>3
    <3> QED BY <3>1, <3>2
  <2> HIDE DEF Step
  <2> QED BY <2>1
<1>11. insert = [n \in 0..MAXSET |-> Step(insert, n)]
  <2> HIDE DEF Step
  <2> QED BY <1>10
<1>12. \A a, x : SetOf!Insert(a, x) = insert[MAXSET][a][x]
  BY DEF SetOf!Insert, at, placed, same
<1> HIDE DEF insert
<1>13. \A n \in 0..MAXSET : insert[n] = Step(insert, n)
  <2> HIDE DEF Step
  <2> QED BY <1>11
<1>14. /\ insert[0] = last
       /\ \A n \in 1..MAXSET : n - 1 \in 0..MAXSET /\ insert[n] = deeper(insert[n - 1])
  <2>1. 0 \in 0..MAXSET /\ \A n \in 1..MAXSET : n \in 0..MAXSET /\ n # 0 /\ n - 1 \in 0..MAXSET
    BY <1>1
  <2>2. insert[0] = last
    <3>1. last = Step(insert, 0)
      BY DEF last, Cell
    <3> HIDE DEF Step
    <3> QED BY <1>13, <2>1, <3>1
  <2>3. ASSUME NEW n \in 1..MAXSET PROVE insert[n] = deeper(insert[n - 1])
    <3>1. deeper(insert[n - 1]) = Step(insert, n)
      BY <2>1 DEF Cell
    <3> HIDE DEF Step, deeper
    <3> QED BY <1>13, <2>1, <3>1
  <2> QED BY <2>1, <2>2, <2>3
<1>15. \A n \in 0..MAXSET : insert[n] \in Adders
  <2> DEFINE S == {n \in 0..MAXSET : insert[n] \in Adders}
  <2>1. 0 \in 0..MAXSET /\ insert[0] \in Adders
    BY <1>1, <1>4, <1>14
  <2>2. ASSUME NEW n \in 1..MAXSET, insert[n - 1] \in Adders PROVE n \in 0..MAXSET /\ insert[n] \in Adders
    <3> HIDE DEF deeper
    <3> QED BY <1>1, <1>5, <1>14, <2>2
  <2>3. 0 \in S /\ \A n \in 1..MAXSET : n - 1 \in S => n \in S
    BY <2>1, <2>2
  <2> HIDE DEF S
  <2>4. \A n \in 0..MAXSET : n \in S
    BY <1>1, <2>3, EachUpTo
  <2> QED BY <2>4 DEF S
<1>16. insert \in [0..MAXSET -> Adders]
  <2> HIDE DEF Step
  <2>1. insert = [n \in 0..MAXSET |-> insert[n]]
    BY <1>11
  <2> QED BY <1>15, <2>1
<1>17. Inserts(insert)
  <2> SUFFICES ASSUME NEW n \in 0..MAXSET, NEW c \in Seq(Cell), NEW x \in Hashes
               PROVE  insert[n][c][x] = IF at(c, x) # 0 THEN placed(c, x) ELSE IF n = 0 THEN same(c)
                                        ELSE insert[n - 1][SetOf!Grown(c, insert[n - 1])][x]
    BY DEF Inserts, at, placed, same
  <2>1. insert[n] = Step(insert, n)
    BY <1>13
  <2>2. Step(insert, n)[c][x] = IF at(c, x) # 0 THEN placed(c, x) ELSE IF n = 0 THEN same(c)
                                ELSE insert[n - 1][SetOf!Grown(c, insert[n - 1])][x]
    BY DEF Cell
  <2> QED BY <2>1, <2>2
<1> QED BY <1>12, <1>16, <1>17

\* Insert adds an element: the calls n deep are given arrays that with n growths more are
\* beyond the bound.
LEMMA InsertAdds ==
  ASSUME SetOf!HashSetAssumption, NEW a \in Seq(Cell), Len(a) >= 1, NEW x \in Hashes
  PROVE  Adds(a, SetOf!Insert(a, x), x)
<1>1. PICK t \in [0..MAXSET -> Adders] :
        /\ Inserts(t)
        /\ \A b \in Seq(Cell) : \A y \in Hashes : SetOf!Insert(b, y) = t[MAXSET][b][y]
  BY InsertUp
<1>2. MAXSET \in Nat /\ MOREBUCKETS \in Nat /\ MOREBUCKETS >= 1 /\ Len(a) \in Nat
  BY DEF SetOf!HashSetAssumption
<1> DEFINE deep(n, c) == Len(c) >= 1 /\ Len(c) + n >= MAXSET + 1
           good(n) == \A c \in Seq(Cell) : \A y \in Hashes : deep(n, c) => Adds(c, t[n][c][y], y)
           at(c, y) == SetOf!FirstFrom(c, y, {SetOf!Empty, y})
<1>3. ASSUME NEW n \in 0..MAXSET, n # 0 => good(n - 1)
      PROVE  good(n)
  <2> SUFFICES ASSUME NEW c \in Seq(Cell), NEW y \in Hashes, deep(n, c)
               PROVE  Adds(c, t[n][c][y], y)
    OBVIOUS
  <2>1. t[n][c][y] = IF at(c, y) # 0 THEN [buckets |-> [c EXCEPT ![at(c, y)] = y], answer |-> c[at(c, y)] = SetOf!Empty]
                     ELSE IF n = 0 THEN [buckets |-> c, answer |-> FALSE]
                     ELSE t[n - 1][SetOf!Grown(c, t[n - 1])][y]
    BY <1>1 DEF Inserts
  <2>2. Len(c) \in Nat
    OBVIOUS
  <2>3. CASE at(c, y) # 0
    BY <2>1, <2>3, Placed
  <2>4. CASE at(c, y) = 0 /\ n = 0
    <3> DEFINE out == [buckets |-> c, answer |-> FALSE]
    <3>1. out \in Outcome /\ out.buckets = c
      BY DEF Outcome
    <3>2. ~(Len(c) <= MAXSET) /\ Len(c) >= Len(c)
      BY <1>2, <2>2, <2>4
    <3> HIDE DEF out
    <3>3. Adds(c, out, y)
      BY <3>1, <3>2 DEF Adds
    <3> QED BY <2>1, <2>4, <3>3 DEF out
  <2>5. CASE at(c, y) = 0 /\ n # 0
    <3> DEFINE f == t[n - 1]
               b == SetOf!Grown(c, f)
               out == f[b][y]
    <3>1. n - 1 \in 0..MAXSET /\ n \in Nat /\ f \in Adders
      BY <1>2, <2>5
    <3>2. \A d \in Seq(Cell) : \A z \in Hashes : Len(d) >= Len(c) + MOREBUCKETS => Adds(d, f[d][z], z)
      <4> SUFFICES ASSUME NEW d \in Seq(Cell), NEW z \in Hashes, Len(d) >= Len(c) + MOREBUCKETS
                   PROVE  Adds(d, f[d][z], z)
        OBVIOUS
      <4>1. deep(n - 1, d)
        BY <1>2, <2>2, <3>1
      <4> HIDE DEF deep
      <4> QED BY <1>3, <2>5, <4>1
    <3> HIDE DEF f
    <3>3. /\ b \in Seq(Cell) /\ Len(b) >= Len(c) + MOREBUCKETS
          /\ Len(b) <= MAXSET => DenseIn(b) /\ In(b) = In(c)
      BY <3>1, <3>2, GrownKeeps
    <3> HIDE DEF b
    <3>4. Adds(b, out, y)
      BY <3>2, <3>3
    <3>5. t[n][c][y] = out
      BY <2>1, <2>5 DEF f, b
    <3> HIDE DEF out
    <3>6. out \in Outcome /\ Len(out.buckets) >= Len(b) /\ out.buckets \in Seq(Cell) /\ Len(out.buckets) \in Nat /\ Len(b) \in Nat
      BY <3>3, <3>4 DEF Adds, Outcome
    <3>7. Len(out.buckets) >= Len(c)
      BY <1>2, <2>2, <3>3, <3>6
    <3>8. ASSUME Len(out.buckets) <= MAXSET
          PROVE  /\ DenseIn(out.buckets) /\ In(out.buckets) = In(c) \cup {y} /\ out.answer = (y \notin In(c))
                 /\ Found(out.buckets, y)
                 /\ \A z \in Hashes : Found(c, z) => Found(out.buckets, z)
      <4>1. Len(b) <= MAXSET
        BY <1>2, <3>6, <3>8
      <4>2. DenseIn(out.buckets) /\ In(out.buckets) = In(c) \cup {y} /\ out.answer = (y \notin In(c)) /\ Found(out.buckets, y)
        BY <3>3, <3>4, <3>8, <4>1 DEF Adds
      <4>3. ASSUME NEW z \in Hashes, Found(c, z) PROVE Found(out.buckets, z)
        <5>1. PICK i \in SetOf!Home(c, z)..Len(c) : c[i] = z
          BY <4>3 DEF Found
        <5>2. i \in 1..Len(c)
          BY <2>2, HomeIn
        <5>3. z # SetOf!Empty
          BY DEF SetOf!HashSetAssumption, SetOf!Empty
        <5>4. z \in In(c)
          BY <5>1, <5>2, <5>3 DEF In
        <5> QED BY <3>6, <4>2, <5>4, DenseFound
      <4> QED BY <4>2, <4>3
    <3>9. Adds(c, out, y)
      BY <3>6, <3>7, <3>8 DEF Adds
    <3> QED BY <3>5, <3>9
  <2> QED BY <2>3, <2>4, <2>5
<1> HIDE DEF good
<1>4. \A n \in 0..MAXSET : good(n)
  <2> DEFINE S == {n \in 0..MAXSET : good(n)}
  <2>1. 0 \in S
    BY <1>2, <1>3
  <2>2. ASSUME NEW n \in 1..MAXSET, n - 1 \in S PROVE n \in S
    <3>1. n \in 0..MAXSET /\ n # 0
      BY <1>2
    <3> QED BY <1>3, <2>2, <3>1
  <2> HIDE DEF S
  <2>3. \A n \in 0..MAXSET : n \in S
    BY <1>2, <2>1, <2>2, EachUpTo
  <2> QED BY <2>3 DEF S
<1>5. good(MAXSET) /\ deep(MAXSET, a)
  BY <1>2, <1>4
<1> QED BY <1>1, <1>5 DEF good
---------------------------------------------------------------------------
(* What the operations of the set do.                                         *)

SetTypeOK == setBuckets \in Seq(Cell) /\ Len(setBuckets) >= 1 /\ held \subseteq Hashes

SetInv == SetTypeOK /\ SetOf!NothingLost

\* setFind finds what lies between an element's home and the end of the array.
LEMMA FindsIs ==
  ASSUME SetOf!HashSetAssumption, SetTypeOK, NEW h \in Hashes
  PROVE  SetOf!Finds(h) <=> Found(setBuckets, h)
<1> DEFINE at == SetOf!FirstFrom(setBuckets, h, {h})
<1>1. \/ at = 0 /\ \A i \in SetOf!Home(setBuckets, h)..Len(setBuckets) : setBuckets[i] \notin {h}
      \/ /\ at \in SetOf!Home(setBuckets, h)..Len(setBuckets) /\ at \in 1..Len(setBuckets) /\ setBuckets[at] \in {h}
         /\ \A i \in SetOf!Home(setBuckets, h)..at - 1 : setBuckets[i] \notin {h}
  BY FirstFromIs DEF SetTypeOK
<1>2. SetOf!Finds(h) <=> at # 0
  BY DEF SetOf!Finds
<1> HIDE DEF at
<1> QED BY <1>1, <1>2 DEF Found

\* An addition within the bound.
LEMMA SetAddAdds ==
  ASSUME SetOf!HashSetAssumption, SetTypeOK, NEW h \in Hashes, SetOf!SetAdd(h)
  PROVE  /\ setBuckets' \in Seq(Cell) /\ Len(setBuckets') >= 1
         /\ Found(setBuckets', h)
         /\ \A y \in Hashes : Found(setBuckets, y) => Found(setBuckets', y)
         /\ DenseIn(setBuckets) => setAnswer' = (h \notin In(setBuckets)) /\ In(setBuckets') = In(setBuckets) \cup {h}
<1> DEFINE out == SetOf!Insert(setBuckets, h)
<1>1. Adds(setBuckets, out, h)
  BY InsertAdds DEF SetTypeOK
<1>2. Len(out.buckets) <= MAXSET /\ setBuckets' = out.buckets /\ setAnswer' = out.answer
  BY DEF SetOf!SetAdd
<1> HIDE DEF out
<1>3. out.buckets \in Seq(Cell) /\ Len(out.buckets) \in Nat /\ Len(setBuckets) \in Nat
  BY <1>1 DEF Adds, Outcome, SetTypeOK
<1>4. Len(out.buckets) >= 1
  BY <1>1, <1>3 DEF Adds, SetTypeOK
<1> QED BY <1>1, <1>2, <1>3, <1>4 DEF Adds

\* A removal: at most one bucket is emptied, and that held the element.
LEMMA SetRemoveEmpties ==
  ASSUME SetOf!HashSetAssumption, SetTypeOK, NEW h \in Hashes, SetOf!SetRemove(h)
  PROVE  \/ /\ setAnswer' = FALSE /\ UNCHANGED <<setBuckets, held>>
            /\ DenseIn(setBuckets) => h \notin In(setBuckets)
         \/ /\ setAnswer' = TRUE /\ held' = held \ {h}
            /\ \E at \in 1..Len(setBuckets) :
                 setBuckets[at] = h /\ setBuckets' = [setBuckets EXCEPT ![at] = SetOf!Empty]
<1> DEFINE at == SetOf!FirstFrom(setBuckets, h, {SetOf!Empty, h})
           home == SetOf!Home(setBuckets, h)
<1>1. \/ at = 0 /\ \A i \in home..Len(setBuckets) : setBuckets[i] \notin {SetOf!Empty, h}
      \/ /\ at \in home..Len(setBuckets) /\ at \in 1..Len(setBuckets) /\ setBuckets[at] \in {SetOf!Empty, h}
         /\ \A i \in home..at - 1 : setBuckets[i] \notin {SetOf!Empty, h}
  BY FirstFromIs DEF SetTypeOK
<1>2. /\ setBuckets' = IF at # 0 /\ setBuckets[at] = h THEN [setBuckets EXCEPT ![at] = SetOf!Empty] ELSE setBuckets
      /\ setAnswer' = (at # 0 /\ setBuckets[at] = h)
      /\ held' = IF at # 0 /\ setBuckets[at] = h THEN held \ {h} ELSE held
  BY DEF SetOf!SetRemove
<1>3. home \in 1..Len(setBuckets) /\ Len(setBuckets) \in Nat
  BY HomeIn DEF SetTypeOK
<1>4. ASSUME DenseIn(setBuckets), h \in In(setBuckets) PROVE at # 0 /\ setBuckets[at] = h
  <2>1. PICK i \in DOMAIN setBuckets : setBuckets[i] = h /\ h # SetOf!Empty
    BY <1>4 DEF In
  <2>2. i \in 1..Len(setBuckets) /\ home <= i /\ \A j \in home..i : setBuckets[j] # SetOf!Empty
    BY <1>4, <2>1 DEF DenseIn, SetTypeOK
  <2> HIDE DEF at, home
  <2>3. i \in home..Len(setBuckets)
    BY <1>3, <2>2
  <2>4. at # 0 /\ at \in home..Len(setBuckets) /\ setBuckets[at] \in {SetOf!Empty, h}
    BY <1>1, <2>1, <2>3
  <2>5. at <= i
    <3> SUFFICES ASSUME ~(at <= i) PROVE FALSE OBVIOUS
    <3>1. i \in home..at - 1
      BY <1>3, <2>3, <2>4
    <3> QED BY <1>1, <2>1, <2>4, <3>1
  <2>6. setBuckets[at] # SetOf!Empty
    BY <1>3, <2>2, <2>4, <2>5
  <2> QED BY <2>4, <2>6
<1> HIDE DEF at, home
<1>5. CASE at # 0 /\ setBuckets[at] = h
  BY <1>1, <1>2, <1>5
<1>6. CASE ~(at # 0 /\ setBuckets[at] = h)
  BY <1>2, <1>4, <1>6
<1> QED BY <1>5, <1>6

LEMMA SetInit == SetOf!HashSetAssumption /\ SetOf!Init => SetInv
<1> SUFFICES ASSUME SetOf!HashSetAssumption, SetOf!Init PROVE SetInv
  OBVIOUS
<1>1. FIRSTBUCKETS \in Nat /\ FIRSTBUCKETS >= 1
  BY DEF SetOf!HashSetAssumption
<1>2. SetOf!NewBuckets(FIRSTBUCKETS) \in Seq(Cell) /\ Len(SetOf!NewBuckets(FIRSTBUCKETS)) = FIRSTBUCKETS
  BY <1>1, EmptyArray
<1> QED BY <1>1, <1>2 DEF SetOf!Init, SetInv, SetTypeOK, SetOf!NothingLost

LEMMA SetStep ==
  ASSUME SetOf!HashSetAssumption, SetInv, [SetOf!Next]_SetOf!vars
  PROVE  SetInv'
<1>0. \A h \in held : Found(setBuckets, h)
  BY FindsIs DEF SetInv, SetTypeOK, SetOf!NothingLost
<1>1. SUFFICES SetTypeOK' /\ \A h \in held' : Found(setBuckets', h)
  <2> SUFFICES ASSUME SetTypeOK', \A h \in held' : Found(setBuckets', h), NEW h \in held' PROVE SetOf!Finds(h)'
    BY DEF SetInv, SetOf!NothingLost
  <2>1. h \in Hashes
    BY DEF SetTypeOK
  <2> DEFINE b == setBuckets'
             at == SetOf!FirstFrom(b, h, {h})
  <2>2. b \in Seq(Cell) /\ Len(b) >= 1
    BY DEF SetTypeOK
  <2> HIDE DEF b
  <2>3. at = 0 => \A i \in SetOf!Home(b, h)..Len(b) : b[i] \notin {h}
    BY <2>1, <2>2, FirstFromIs
  <2>4. at # 0
    BY <2>3 DEF Found, b
  <2> QED BY <2>4 DEF SetOf!Finds, b
<1>2. CASE \E h \in Hashes : SetOf!SetAdd(h)
  <2>1. PICK h \in Hashes : SetOf!SetAdd(h)
    BY <1>2
  <2>2. held' = held \cup {h}
    BY <2>1 DEF SetOf!SetAdd
  <2> QED BY <1>0, <2>1, <2>2, SetAddAdds DEF SetInv, SetTypeOK
<1>3. CASE \E h \in Hashes : SetOf!SetRemove(h)
  <2>1. PICK h \in Hashes : SetOf!SetRemove(h)
    BY <1>3
  <2>2. CASE UNCHANGED <<setBuckets, held>>
    BY <1>0, <2>2 DEF SetInv, SetTypeOK
  <2>3. CASE ~UNCHANGED <<setBuckets, held>>
    <3>1. PICK at \in 1..Len(setBuckets) :
            setBuckets[at] = h /\ setBuckets' = [setBuckets EXCEPT ![at] = SetOf!Empty] /\ held' = held \ {h}
      BY <2>1, <2>3, SetRemoveEmpties DEF SetInv
    <3> DEFINE b == setBuckets'
    <3>2. /\ b \in Seq(Cell) /\ Len(b) = Len(setBuckets) /\ Len(b) >= 1
          /\ \A i \in 1..Len(b) : i # at => b[i] = setBuckets[i]
      BY <3>1 DEF SetInv, SetTypeOK, Cell
    <3>3. ASSUME NEW y \in held \ {h} PROVE Found(b, y)
      <4>1. PICK i \in SetOf!Home(setBuckets, y)..Len(setBuckets) : setBuckets[i] = y
        BY <1>0 DEF Found
      <4>2. y \in Hashes /\ Len(setBuckets) \in Nat
        BY DEF SetInv, SetTypeOK
      <4>3. SetOf!Home(setBuckets, y) \in 1..Len(setBuckets)
        BY <4>2, HomeIn DEF SetInv, SetTypeOK
      <4>4. i \in 1..Len(setBuckets) /\ i # at
        BY <3>1, <4>1, <4>2, <4>3
      <4>5. SetOf!Home(b, y) = SetOf!Home(setBuckets, y)
        BY <3>2 DEF SetOf!Home
      <4> HIDE DEF b
      <4>6. b[i] = y /\ i \in SetOf!Home(b, y)..Len(b)
        BY <3>2, <4>1, <4>4, <4>5
      <4> QED BY <4>6 DEF Found
    <3> QED BY <3>1, <3>2, <3>3 DEF SetInv, SetTypeOK
  <2> QED BY <2>2, <2>3
<1>4. CASE (\E h \in Hashes : SetOf!SetFind(h)) \/ UNCHANGED SetOf!vars
  BY <1>0, <1>4 DEF SetOf!SetFind, SetOf!vars, SetInv, SetTypeOK
<1> QED BY <1>2, <1>3, <1>4 DEF SetOf!Next

\* NothingLostCorrect: whatever is added to a set, and however often its array grows, also
\* while it is growing, what has been added and not removed is found (setAdd, setFind).
THEOREM NothingLostCorrect ==
  ASSUME SetOf!HashSetAssumption
  PROVE  SetOf!Spec => []NothingLost
<1>1. SetInv /\ [SetOf!Next]_SetOf!vars => SetInv'
  BY SetStep
<1>2. SetOf!Init => SetInv
  BY SetInit
<1>3. SetInv => NothingLost
  BY DEF SetInv, NothingLost
<1> QED BY <1>1, <1>2, <1>3, PTL DEF SetOf!Spec

\* A removal from an array without gaps takes the element out of it.
LEMMA EmptiedIn ==
  ASSUME NEW a \in Seq(Cell), DenseIn(a), NEW at \in 1..Len(a), a[at] # SetOf!Empty
  PROVE  In([a EXCEPT ![at] = SetOf!Empty]) = In(a) \ {a[at]}
<1> DEFINE b == [a EXCEPT ![at] = SetOf!Empty]
<1>1. /\ DOMAIN b = 1..Len(a) /\ DOMAIN a = 1..Len(a)
      /\ b[at] = SetOf!Empty /\ \A i \in 1..Len(a) : i # at => b[i] = a[i]
  OBVIOUS
<1>2. \A i \in 1..Len(a) : a[i] = a[at] => i = at
  BY <1>1 DEF DenseIn
<1> HIDE DEF b
<1>3. \A y \in In(b) : y \in In(a) \ {a[at]}
  BY <1>1, <1>2 DEF In
<1>4. ASSUME NEW y \in In(a) \ {a[at]} PROVE y \in In(b)
  <2>1. PICK i \in 1..Len(a) : a[i] = y /\ y # SetOf!Empty
    BY <1>1 DEF In
  <2>2. b[i] = y
    BY <1>1, <2>1
  <2> QED BY <1>1, <2>1, <2>2 DEF In
<1> QED BY <1>3, <1>4 DEF b

\* ExactCorrect: as long as no removal has left a gap in the way of an element, the next
\* answer of a set of any size is that of a set of elements (setAdd, setRemove, setFind).
THEOREM ExactCorrect ==
  ASSUME SetOf!HashSetAssumption
  PROVE  SetOf!Spec => ExactWhileDense
<1> DEFINE Exact(h) ==
             /\ SetOf!SetAdd(h)    => setAnswer' = (h \notin SetOf!Stored) /\ SetOf!Stored' = SetOf!Stored \cup {h}
             /\ SetOf!SetRemove(h) => setAnswer' = (h \in SetOf!Stored) /\ SetOf!Stored' = SetOf!Stored \ {h}
             /\ SetOf!SetFind(h)   => setAnswer' = (h \in SetOf!Stored)
<1>1. ASSUME SetInv, SetOf!Dense, NEW h \in Hashes PROVE Exact(h)
  <2>1. DenseIn(setBuckets) /\ SetTypeOK
    BY <1>1 DEF SetOf!Dense, DenseIn, SetInv
  <2>2. SetOf!Stored = In(setBuckets) /\ SetOf!Stored' = In(setBuckets')
    BY DEF SetOf!Stored, In
  <2>3. h # SetOf!Empty
    BY DEF SetOf!HashSetAssumption, SetOf!Empty
  <2>4. ASSUME SetOf!SetAdd(h) PROVE setAnswer' = (h \notin In(setBuckets)) /\ In(setBuckets') = In(setBuckets) \cup {h}
    BY <2>1, <2>4, SetAddAdds
  <2>5. ASSUME SetOf!SetRemove(h) PROVE setAnswer' = (h \in In(setBuckets)) /\ In(setBuckets') = In(setBuckets) \ {h}
    <3>1. CASE /\ setAnswer' = FALSE /\ UNCHANGED <<setBuckets, held>>
               /\ DenseIn(setBuckets) => h \notin In(setBuckets)
      <4>1. setBuckets' = setBuckets /\ h \notin In(setBuckets) /\ setAnswer' = FALSE
        BY <2>1, <3>1
      <4>2. In(setBuckets') = In(setBuckets)
        BY <4>1
      <4>3. (h \in In(setBuckets)) = FALSE
        BY <4>1
      <4>4. setAnswer' = (h \in In(setBuckets))
        BY ONLY <4>1, <4>3
      <4>5. In(setBuckets') = In(setBuckets) \ {h}
        BY <4>1, <4>2
      <4> QED BY <4>4, <4>5
    <3>2. CASE /\ setAnswer' = TRUE /\ held' = held \ {h}
               /\ \E at \in 1..Len(setBuckets) :
                    setBuckets[at] = h /\ setBuckets' = [setBuckets EXCEPT ![at] = SetOf!Empty]
      <4>1. PICK at \in 1..Len(setBuckets) :
              setBuckets[at] = h /\ setBuckets' = [setBuckets EXCEPT ![at] = SetOf!Empty]
        BY <3>2
      <4>2. h \in In(setBuckets)
        BY <2>1, <2>3, <4>1 DEF In, SetTypeOK
      <4>3. In(setBuckets') = In(setBuckets) \ {h}
        BY <2>1, <2>3, <4>1, EmptiedIn DEF SetTypeOK
      <4> QED BY <3>2, <4>2, <4>3
    <3> QED BY <2>1, <2>5, <3>1, <3>2, SetRemoveEmpties
  <2>6. ASSUME SetOf!SetFind(h) PROVE setAnswer' = (h \in In(setBuckets))
    <3>1. setAnswer' = SetOf!Finds(h)
      BY <2>6 DEF SetOf!SetFind
    <3>2. SetOf!Finds(h) <=> Found(setBuckets, h)
      BY <2>1, FindsIs
    <3>3. h \in In(setBuckets) => Found(setBuckets, h)
      BY <2>1, DenseFound DEF SetTypeOK
    <3>4. ASSUME Found(setBuckets, h) PROVE h \in In(setBuckets)
      <4>1. PICK i \in SetOf!Home(setBuckets, h)..Len(setBuckets) : setBuckets[i] = h
        BY <3>4 DEF Found
      <4>2. SetOf!Home(setBuckets, h) \in 1..Len(setBuckets) /\ Len(setBuckets) \in Nat /\ DOMAIN setBuckets = 1..Len(setBuckets)
        BY <2>1, HomeIn DEF SetTypeOK
      <4>3. i \in DOMAIN setBuckets
        BY <4>1, <4>2
      <4> QED BY <2>3, <4>1, <4>3 DEF In
    <3>5. SetOf!Finds(h) \in BOOLEAN
      BY DEF SetOf!Finds
    <3> QED BY <3>1, <3>2, <3>3, <3>4, <3>5
  <2> QED BY <2>2, <2>4, <2>5, <2>6
<1>2. SetInv /\ [SetOf!Next]_SetOf!vars =>
        [SetOf!Dense => \A h \in Hashes : Exact(h)]_SetOf!vars
  BY <1>1
<1>3. SetInv /\ [SetOf!Next]_SetOf!vars => SetInv'
  BY SetStep
<1>4. SetOf!Init => SetInv
  BY SetInit
<1> QED BY <1>2, <1>3, <1>4, PTL DEF SetOf!Spec, ExactWhileDense, SetOf!ExactWhileDense

---------------------------------------------------------------------------
(* The map: searching an array.                                               *)

MapArray == Seq(MapOf!Bucket)

Kept(a) == {a[i] : i \in DOMAIN a} \ {MapOf!Empty}

\* Each pair lies behind its home, with no empty bucket between, and none has the key of another.
InPlace(a) ==
  \A i \in DOMAIN a : a[i] # MapOf!Empty =>
    /\ MapOf!Home(a, a[i].key) <= i
    /\ \A j \in MapOf!Home(a, a[i].key)..i : a[j] # MapOf!Empty
    /\ \A j \in DOMAIN a : a[j] # MapOf!Empty /\ a[j].key = a[i].key => i = j

LEMMA PairIs ==
  /\ \A p \in MapOf!Pair : p # MapOf!Empty /\ p.key \in Keys /\ p.value \in MapValues /\ p \in MapOf!Bucket
  /\ MapOf!Empty \in MapOf!Bucket
  /\ \A b \in MapOf!Bucket : b # MapOf!Empty => b \in MapOf!Pair
BY DEF MapOf!Pair, MapOf!Empty, MapOf!Bucket

LEMMA KeyHomeIn ==
  ASSUME MapOf!HashMapAssumption, NEW a \in MapArray, Len(a) >= 1, NEW k \in Keys
  PROVE  MapOf!Home(a, k) \in 1..Len(a)
<1>1. KeyHash[k] \in Nat /\ Len(a) \in Nat /\ Len(a) >= 1
  BY DEF MapOf!HashMapAssumption, MapArray
<1>2. \A x, n \in Nat : n >= 1 => x % n \in 0..n - 1
  OBVIOUS
<1>3. KeyHash[k] % Len(a) \in 0..Len(a) - 1
  BY <1>1, <1>2
<1>4. \A r, n \in Int : r \in 0..n - 1 => r + 1 \in 1..n
  OBVIOUS
<1>5. (KeyHash[k] % Len(a)) + 1 \in 1..Len(a)
  BY <1>1, <1>3, <1>4
<1> QED BY <1>5 DEF MapOf!Home

\* What the search for a key returns.
LEMMA PlaceIs ==
  ASSUME MapOf!HashMapAssumption, NEW a \in MapArray, Len(a) >= 1, NEW k \in Keys
  PROVE  LET at == MapOf!Place(a, k)
         IN  \/ at = 0 /\ \A i \in MapOf!Home(a, k)..Len(a) : a[i] # MapOf!Empty /\ a[i].key # k
             \/ /\ at \in MapOf!Home(a, k)..Len(a) /\ at \in 1..Len(a)
                /\ a[at] = MapOf!Empty \/ a[at].key = k
                /\ \A i \in MapOf!Home(a, k)..at - 1 : a[i] # MapOf!Empty /\ a[i].key # k
<1> DEFINE home == MapOf!Home(a, k)
           T == {i \in home..Len(a) : a[i] = MapOf!Empty \/ a[i].key = k}
           at == MapOf!Place(a, k)
<1>1. home \in 1..Len(a) /\ Len(a) \in Nat
  BY KeyHomeIn DEF MapArray
<1>2. at = IF T = {} THEN 0 ELSE CHOOSE i \in T : \A j \in T : i <= j
  BY DEF MapOf!Place
<1> HIDE DEF at, home
<1>3. CASE T = {}
  BY <1>2, <1>3 DEF at, home
<1>4. CASE T # {}
  <2>1. T \in SUBSET (0..Len(a))
    BY <1>1
  <2>2. \A i \in T : i \in home..Len(a) /\ (a[i] = MapOf!Empty \/ a[i].key = k)
    OBVIOUS
  <2>3. \A i \in home..Len(a) : a[i] = MapOf!Empty \/ a[i].key = k => i \in T
    OBVIOUS
  <2> HIDE DEF T
  <2>4. PICK i \in T : \A j \in 0..i - 1 : j \notin T
    BY <1>1, <1>4, <2>1, LeastOf
  <2>5. \A j \in T : i <= j
    BY <2>1, <2>4
  <2>6. at \in T /\ \A j \in T : at <= j
    BY <1>2, <1>4, <2>5
  <2>7. at \in home..Len(a) /\ (a[at] = MapOf!Empty \/ a[at].key = k) /\ at \in 1..Len(a)
    BY <1>1, <2>2, <2>6
  <2>8. \A j \in home..at - 1 : a[j] # MapOf!Empty /\ a[j].key # k
    <3> SUFFICES ASSUME NEW j \in home..at - 1, a[j] = MapOf!Empty \/ a[j].key = k PROVE FALSE OBVIOUS
    <3>1. j \in home..Len(a) /\ ~(at <= j)
      BY <1>1, <2>7
    <3> QED BY <2>3, <2>6, <3>1
  <2> QED BY <2>7, <2>8 DEF at, home
<1> QED BY <1>3, <1>4

\* In an array without gaps the search ends at the pair of the key, if there is one.
LEMMA PlaceFinds ==
  ASSUME MapOf!HashMapAssumption, NEW a \in MapArray, Len(a) >= 1, InPlace(a), NEW i \in 1..Len(a), a[i] # MapOf!Empty
  PROVE  MapOf!Place(a, a[i].key) = i
<1> DEFINE k == a[i].key
           at == MapOf!Place(a, k)
           home == MapOf!Home(a, k)
<1>1. DOMAIN a = 1..Len(a) /\ Len(a) \in Nat /\ a[i] \in MapOf!Bucket
  BY DEF MapArray
<1>2. k \in Keys
  BY <1>1, PairIs
<1>3. /\ home <= i /\ \A j \in home..i : a[j] # MapOf!Empty
      /\ \A j \in 1..Len(a) : a[j] # MapOf!Empty /\ a[j].key = k => i = j
  BY <1>1 DEF InPlace
<1>4. home \in 1..Len(a)
  BY <1>2, KeyHomeIn
<1>5. \/ at = 0 /\ \A j \in home..Len(a) : a[j] # MapOf!Empty /\ a[j].key # k
      \/ /\ at \in home..Len(a) /\ at \in 1..Len(a)
         /\ a[at] = MapOf!Empty \/ a[at].key = k
         /\ \A j \in home..at - 1 : a[j] # MapOf!Empty /\ a[j].key # k
  BY <1>2, PlaceIs
<1> HIDE DEF at, home
<1>6. i \in home..Len(a)
  BY <1>1, <1>3, <1>4
<1>7. at # 0
  BY <1>5, <1>6
<1>8. at <= i
  <2> SUFFICES ASSUME ~(at <= i) PROVE FALSE OBVIOUS
  <2>1. i \in home..at - 1
    BY <1>4, <1>5, <1>6, <1>7
  <2> QED BY <1>5, <1>7, <2>1
<1>9. a[at] # MapOf!Empty
  BY <1>3, <1>4, <1>5, <1>7, <1>8
<1>10. i = at
  BY <1>3, <1>5, <1>7, <1>9
<1> QED BY <1>10 DEF at

---------------------------------------------------------------------------
(* Storing one pair in the map.                                               *)

\* What holds of an array without gaps when the pair p is stored in it: there are none
\* after, and p has taken the place of the pair with its key, if there was one. An array
\* beyond the bound may be anything.
Stores(a, b, p) ==
  /\ b \in MapArray /\ Len(b) >= Len(a)
  /\ Len(b) <= MAXMAP /\ InPlace(a) =>
       InPlace(b) /\ Kept(b) = {q \in Kept(a) : q.key # p.key} \cup {p}

\* A pair put where its search ends.
LEMMA PutInPlace ==
  ASSUME MapOf!HashMapAssumption, NEW a \in MapArray, Len(a) >= 1, NEW p \in MapOf!Pair,
         NEW at, at = MapOf!Place(a, p.key), at # 0
  PROVE  Stores(a, [a EXCEPT ![at] = p], p)
<1> DEFINE b == [a EXCEPT ![at] = p]
           k == p.key
           home(x) == MapOf!Home(a, x)
<1>0. p # MapOf!Empty /\ k \in Keys /\ p \in MapOf!Bucket
  BY PairIs
<1>1. /\ at \in home(k)..Len(a) /\ at \in 1..Len(a)
      /\ a[at] = MapOf!Empty \/ a[at].key = k
      /\ \A i \in home(k)..at - 1 : a[i] # MapOf!Empty /\ a[i].key # k
  BY <1>0, PlaceIs
<1>2. /\ b \in MapArray /\ Len(b) = Len(a) /\ Len(a) \in Nat /\ DOMAIN b = 1..Len(a) /\ DOMAIN a = 1..Len(a)
      /\ b[at] = p /\ \A i \in 1..Len(a) : i # at => b[i] = a[i]
      /\ \A i \in 1..Len(a) : a[i] \in MapOf!Bucket
  BY <1>0, <1>1 DEF MapArray
<1> HIDE DEF b
<1>3. \A x : MapOf!Home(b, x) = home(x)
  BY <1>2 DEF MapOf!Home
<1>5. \A x \in Keys : home(x) \in 1..Len(a)
  BY KeyHomeIn
<1>6. ASSUME InPlace(a)
      PROVE  InPlace(b) /\ Kept(b) = {q \in Kept(a) : q.key # k} \cup {p}
  <2>0. \A i \in 1..Len(a) : a[i] # MapOf!Empty =>
          /\ home(a[i].key) <= i
          /\ \A j \in home(a[i].key)..i : a[j] # MapOf!Empty
          /\ \A j \in 1..Len(a) : a[j] # MapOf!Empty /\ a[j].key = a[i].key => i = j
    BY <1>2, <1>6 DEF InPlace
  <2>1. ASSUME NEW j \in 1..Len(a), j # at, a[j] # MapOf!Empty PROVE a[j].key # k
    BY <1>2, <1>6, <2>1, PlaceFinds
  <2> HIDE DEF home, k
  <2>2. ASSUME NEW i \in 1..Len(a), b[i] # MapOf!Empty
        PROVE  /\ home(b[i].key) <= i
               /\ \A j \in home(b[i].key)..i : b[j] # MapOf!Empty
               /\ \A j \in 1..Len(a) : b[j] # MapOf!Empty /\ b[j].key = b[i].key => i = j
    <3>1. CASE i = at
      <4>1. b[i] = p /\ b[i].key = k /\ home(k) <= i
        BY <1>1, <1>2, <1>0, <1>5, <3>1 DEF k
      <4>2. ASSUME NEW j \in home(k)..i PROVE b[j] # MapOf!Empty
        <5>1. CASE j = at
          BY <1>0, <1>2, <1>1, <5>1
        <5>2. CASE j # at
          <6>1. j \in home(k)..at - 1 /\ j \in 1..Len(a)
            BY <1>0, <1>1, <1>2, <1>5, <3>1, <5>2
          <6> QED BY <1>1, <1>2, <5>2, <6>1
        <5> QED BY <5>1, <5>2
      <4>3. ASSUME NEW j \in 1..Len(a), b[j] # MapOf!Empty, b[j].key = k PROVE i = j
        BY <1>2, <2>1, <3>1, <4>3
      <4> QED BY <4>1, <4>2, <4>3
    <3>2. CASE i # at
      <4>1. b[i] = a[i] /\ a[i] # MapOf!Empty
        BY <1>2, <2>2, <3>2
      <4>2. a[i].key \in Keys /\ a[i].key # k
        BY <1>2, <2>1, <3>2, <4>1, PairIs
      <4>3. \A j \in home(a[i].key)..i : j \in 1..Len(a)
        BY <1>2, <1>5, <4>2
      <4>4. /\ home(a[i].key) <= i
            /\ \A j \in home(a[i].key)..i : a[j] # MapOf!Empty
            /\ \A j \in 1..Len(a) : a[j] # MapOf!Empty /\ a[j].key = a[i].key => i = j
        BY <2>0, <4>1
      <4>5. ASSUME NEW j \in home(a[i].key)..i PROVE b[j] # MapOf!Empty
        BY <1>0, <1>2, <4>3, <4>4
      <4>6. ASSUME NEW j \in 1..Len(a), b[j] # MapOf!Empty, b[j].key = a[i].key PROVE i = j
        <5>1. j # at
          BY <1>2, <4>2, <4>6 DEF k
        <5> QED BY <1>2, <4>4, <4>6, <5>1
      <4> QED BY <4>1, <4>4, <4>5, <4>6
    <3> QED BY <3>1, <3>2
  <2>3. InPlace(b)
    BY <1>2, <1>3, <2>2 DEF InPlace
  <2>4. ASSUME NEW q \in Kept(b) PROVE q \in {r \in Kept(a) : r.key # k} \cup {p}
    <3>1. PICK i \in 1..Len(a) : b[i] = q /\ q # MapOf!Empty
      BY <1>2 DEF Kept
    <3>2. CASE i = at
      BY <1>2, <3>1, <3>2
    <3>3. CASE i # at
      <4>1. a[i] = q
        BY <1>2, <3>1, <3>3
      <4>2. q.key # k
        BY <2>1, <3>1, <3>3, <4>1
      <4>3. q \in Kept(a)
        BY <1>2, <3>1, <4>1 DEF Kept
      <4> QED BY <4>2, <4>3
    <3> QED BY <3>2, <3>3
  <2>5. ASSUME NEW q \in Kept(a), q.key # k PROVE q \in Kept(b)
    <3>1. PICK i \in 1..Len(a) : a[i] = q /\ q # MapOf!Empty
      BY <1>2 DEF Kept
    <3>2. i # at
      BY <1>1, <2>5, <3>1
    <3>3. b[i] = q
      BY <1>2, <3>1, <3>2
    <3> QED BY <1>2, <3>1, <3>3 DEF Kept
  <2>6. p \in Kept(b)
    BY <1>0, <1>1, <1>2 DEF Kept
  <2>7. Kept(b) = {q \in Kept(a) : q.key # k} \cup {p}
    BY <2>4, <2>5, <2>6
  <2> QED BY <2>3, <2>7
<1>7. Len(b) >= Len(a)
  BY <1>2
<1> QED BY <1>2, <1>6, <1>7 DEF Stores, b, k
---------------------------------------------------------------------------
(* Growing the map.                                                           *)

Putters == [MapArray -> [MapOf!Pair -> MapArray]]

MovesPairs(t, a, put) ==
  /\ t[0] = MapOf!NewBuckets(Len(a) + MOREBUCKETS)
  /\ \A i \in 1..Len(a) : t[i] = IF a[i] = MapOf!Empty THEN t[i - 1] ELSE put[t[i - 1]][a[i]]

LEMMA EmptyMap ==
  ASSUME NEW n \in Nat
  PROVE  /\ MapOf!NewBuckets(n) \in MapArray /\ Len(MapOf!NewBuckets(n)) = n
         /\ InPlace(MapOf!NewBuckets(n)) /\ Kept(MapOf!NewBuckets(n)) = {}
<1> DEFINE b == MapOf!NewBuckets(n)
<1>1. b \in MapArray /\ Len(b) = n /\ DOMAIN b = 1..n /\ \A i \in 1..n : b[i] = MapOf!Empty
  BY DEF MapOf!NewBuckets, MapArray, MapOf!Bucket
<1> HIDE DEF b
<1> QED BY <1>1 DEF InPlace, Kept, b

\* Grown is what it says: the recursion over the buckets of a is defined.
LEMMA GrownMapUp ==
  ASSUME MapOf!HashMapAssumption, NEW a \in MapArray, NEW put \in Putters
  PROVE  \E t \in [0..Len(a) -> MapArray] : MovesPairs(t, a, put) /\ MapOf!Grown(a, put) = t[Len(a)]
<1> DEFINE n == Len(a)
           V == MapArray
           new == MapOf!NewBuckets(n + MOREBUCKETS)
           next(v, i) == IF a[i] = MapOf!Empty THEN v ELSE put[v][a[i]]
           Step(g, i) == IF i = 0 THEN new ELSE IF a[i] = MapOf!Empty THEN g[i - 1] ELSE put[g[i - 1]][a[i]]
           F == [i \in 1..n |-> [v \in V |-> next(v, i)]]
           moved == CHOOSE g : g = [i \in 0..n |-> Step(g, i)]
<1>1. n \in Nat /\ new \in V /\ \A i \in 1..n : \A v \in V : next(v, i) \in V
  <2>1. n \in Nat /\ n + MOREBUCKETS \in Nat
    BY DEF MapArray, MapOf!HashMapAssumption
  <2>2. \A i \in 1..n : a[i] # MapOf!Empty => a[i] \in MapOf!Pair
    BY PairIs DEF MapArray
  <2>3. \A v \in V : \A p \in MapOf!Pair : put[v][p] \in V
    BY DEF Putters
  <2>4. \A v \in V : \A i \in 1..n : a[i] # MapOf!Empty => put[v][a[i]] \in V
    BY <2>2, <2>3
  <2> QED BY <2>1, <2>4, EmptyMap
<1>2. F \in [1..n -> [V -> V]]
  <2> HIDE DEF next, V, n
  <2> QED BY <1>1
<1>3. \A i \in 1..n : \A v \in V : F[i][v] = next(v, i)
  OBVIOUS
<1> HIDE DEF F, V, n, new
<1>4. PICK g \in [0..n -> V] : Iterates(g, n, new, F)
  BY <1>1, <1>2, Recursion
<1>5. g[0] = new /\ \A i \in 1..n : g[i] = F[i][g[i - 1]]
  BY <1>4 DEF Iterates
<1>6. \A i \in 1..n : i - 1 \in 0..n /\ g[i] = next(g[i - 1], i)
  <2>1. \A i \in 1..n : i - 1 \in 0..n
    BY <1>1
  <2> HIDE DEF next
  <2> QED BY <1>3, <1>5, <2>1
<1>7. g = [i \in 0..n |-> Step(g, i)]
  <2>1. ASSUME NEW i \in 0..n PROVE g[i] = Step(g, i)
    <3>1. CASE i = 0
      BY <1>5, <3>1
    <3>2. CASE i # 0
      <4>1. i \in 1..n
        BY <1>1, <3>2
      <4> QED BY <1>6, <3>2, <4>1
    <3> QED BY <3>1, <3>2
  <2> HIDE DEF Step
  <2> QED BY <2>1
<1>8. moved = [i \in 0..n |-> Step(moved, i)]
  BY <1>7
<1>9. MapOf!Grown(a, put) = moved[n]
  BY DEF MapOf!Grown, n, new
<1> HIDE DEF moved
<1>10. \A i \in 0..n : moved[i] = Step(moved, i)
  BY <1>8
<1>11. moved[0] = new /\ \A i \in 1..n : i - 1 \in 0..n /\ moved[i] = next(moved[i - 1], i)
  <2>1. 0 \in 0..n /\ \A i \in 1..n : i \in 0..n /\ i # 0 /\ i - 1 \in 0..n
    BY <1>1
  <2>2. moved[0] = Step(moved, 0)
    BY <1>10, <2>1
  <2> QED BY <1>10, <2>1, <2>2
<1>12. \A i \in 0..n : moved[i] \in V
  <2> DEFINE S == {i \in 0..n : moved[i] \in V}
  <2>1. 0 \in 0..n /\ moved[0] \in V
    BY <1>1, <1>11
  <2>2. ASSUME NEW i \in 1..n, moved[i - 1] \in V PROVE i \in 0..n /\ moved[i] \in V
    <3> HIDE DEF next
    <3> QED BY <1>1, <1>11, <2>2
  <2>3. 0 \in S /\ \A i \in 1..n : i - 1 \in S => i \in S
    BY <2>1, <2>2
  <2> HIDE DEF S
  <2>4. \A i \in 0..n : i \in S
    BY <1>1, <2>3, EachUpTo
  <2> QED BY <2>4 DEF S
<1>13. moved \in [0..n -> V]
  <2> HIDE DEF Step
  <2>1. moved = [i \in 0..n |-> moved[i]]
    BY <1>8
  <2> QED BY <1>12, <2>1
<1>14. MovesPairs(moved, a, put)
  BY <1>11 DEF MovesPairs, n, new
<1> QED BY <1>9, <1>13, <1>14 DEF n, V

\* A larger array keeps the pairs, if storing in larger arrays does what it should.
LEMMA GrownMapKeeps ==
  ASSUME MapOf!HashMapAssumption, NEW a \in MapArray, NEW put \in Putters,
         \A c \in MapArray : \A p \in MapOf!Pair : Len(c) >= Len(a) + MOREBUCKETS => Stores(c, put[c][p], p)
  PROVE  LET b == MapOf!Grown(a, put)
         IN  /\ b \in MapArray /\ Len(b) >= Len(a) + MOREBUCKETS
             /\ Len(b) <= MAXMAP /\ InPlace(a) => InPlace(b) /\ Kept(b) = Kept(a)
<1>1. PICK t \in [0..Len(a) -> MapArray] : MovesPairs(t, a, put) /\ MapOf!Grown(a, put) = t[Len(a)]
  BY GrownMapUp
<1>2. /\ t[0] = MapOf!NewBuckets(Len(a) + MOREBUCKETS)
      /\ \A i \in 1..Len(a) : t[i] = IF a[i] = MapOf!Empty THEN t[i - 1] ELSE put[t[i - 1]][a[i]]
  BY <1>1 DEF MovesPairs
<1>3. /\ Len(a) \in Nat /\ MOREBUCKETS \in Nat /\ MAXMAP \in Nat /\ Len(a) + MOREBUCKETS \in Nat
      /\ DOMAIN a = 1..Len(a) /\ \A i \in 1..Len(a) : a[i] \in MapOf!Bucket
  BY DEF MapOf!HashMapAssumption, MapArray
<1> DEFINE before(i) == {a[j] : j \in 1..i} \ {MapOf!Empty}
           good(i) == /\ Len(t[i]) >= Len(a) + MOREBUCKETS
                      /\ Len(t[i]) <= MAXMAP /\ InPlace(a) => InPlace(t[i]) /\ Kept(t[i]) = before(i)
<1>4. good(0)
  <2>1. before(0) = {}
    <3>1. \A j \in 1..0 : FALSE
      OBVIOUS
    <3> QED BY <3>1
  <2>2. Len(t[0]) = Len(a) + MOREBUCKETS /\ InPlace(t[0]) /\ Kept(t[0]) = {}
    BY <1>2, <1>3, EmptyMap
  <2> QED BY <1>3, <2>1, <2>2
<1>5. ASSUME NEW i \in 1..Len(a), good(i - 1) PROVE good(i)
  <2>1. i - 1 \in 0..Len(a) /\ i \in 0..Len(a)
    BY <1>3
  <2>2. t[i - 1] \in MapArray /\ t[i] \in MapArray /\ Len(t[i - 1]) \in Nat /\ Len(t[i]) \in Nat
    BY <2>1 DEF MapArray
  <2>3. before(i) = (before(i - 1) \cup {a[i]}) \ {MapOf!Empty}
    <3>1. \A j \in 1..i : j = i \/ j \in 1..i - 1
      OBVIOUS
    <3>2. i \in 1..i /\ \A j \in 1..i - 1 : j \in 1..i
      OBVIOUS
    <3> QED BY <3>1, <3>2
  <2>4. CASE a[i] = MapOf!Empty
    <3>1. t[i] = t[i - 1]
      BY <1>2, <2>4
    <3>2. before(i) = before(i - 1)
      BY <2>3, <2>4
    <3> HIDE DEF before
    <3> QED BY <1>5, <3>1, <3>2
  <2>5. CASE a[i] # MapOf!Empty
    <3>1. a[i] \in MapOf!Pair
      BY <1>3, <2>5, PairIs
    <3>2. t[i] = put[t[i - 1]][a[i]]
      BY <1>2, <2>5
    <3>3. Stores(t[i - 1], t[i], a[i])
      BY <1>5, <2>2, <3>1, <3>2
    <3>4. Len(t[i]) >= Len(t[i - 1])
      BY <3>3 DEF Stores
    <3>5. before(i) = before(i - 1) \cup {a[i]}
      BY <2>3, <2>5
    <3>6. ASSUME InPlace(a), NEW q \in before(i - 1) PROVE q.key # a[i].key
      <4>1. PICK j \in 1..i - 1 : q = a[j] /\ q # MapOf!Empty
        OBVIOUS
      <4>2. j \in 1..Len(a) /\ j # i
        BY <1>3
      <4> QED BY <1>3, <2>5, <3>6, <4>1, <4>2 DEF InPlace
    <3> HIDE DEF before
    <3>7. Len(t[i]) >= Len(a) + MOREBUCKETS
      BY <1>3, <1>5, <2>2, <3>4
    <3>8. ASSUME Len(t[i]) <= MAXMAP, InPlace(a) PROVE InPlace(t[i]) /\ Kept(t[i]) = before(i)
      <4>1. Len(t[i - 1]) <= MAXMAP
        BY <1>3, <2>2, <3>4, <3>8
      <4>2. InPlace(t[i - 1]) /\ Kept(t[i - 1]) = before(i - 1)
        BY <1>5, <3>8, <4>1
      <4>3. InPlace(t[i]) /\ Kept(t[i]) = {q \in before(i - 1) : q.key # a[i].key} \cup {a[i]}
        BY <3>3, <3>8, <4>2 DEF Stores
      <4>4. {q \in before(i - 1) : q.key # a[i].key} = before(i - 1)
        BY <3>6, <3>8
      <4> QED BY <3>5, <4>3, <4>4
    <3> QED BY <3>7, <3>8
  <2> QED BY <2>4, <2>5
<1> HIDE DEF good
<1>6. \A i \in 0..Len(a) : good(i)
  <2> DEFINE S == {i \in 0..Len(a) : good(i)}
  <2>1. 0 \in S /\ \A i \in 1..Len(a) : i - 1 \in S => i \in S
    BY <1>3, <1>4, <1>5
  <2> HIDE DEF S
  <2>2. \A i \in 0..Len(a) : i \in S
    BY <1>3, <2>1, EachUpTo
  <2> QED BY <2>2 DEF S
<1>7. good(Len(a)) /\ t[Len(a)] \in MapArray
  BY <1>3, <1>6
<1>8. before(Len(a)) = Kept(a)
  BY <1>3 DEF Kept
<1> QED BY <1>1, <1>7, <1>8 DEF good

\* The inner procedure of mapEmplace, likewise.
Puts(t) ==
  \A n \in 0..MAXMAP : \A c \in MapArray : \A p \in MapOf!Pair :
    LET at == MapOf!Place(c, p.key)
    IN  t[n][c][p] = IF at # 0 THEN [c EXCEPT ![at] = p]
                     ELSE IF n = 0 THEN c
                     ELSE t[n - 1][MapOf!Grown(c, t[n - 1])][p]

\* Stored is what it says: the recursion over the depth of the calls is defined.
LEMMA StoredUp ==
  ASSUME MapOf!HashMapAssumption
  PROVE  \E t \in [0..MAXMAP -> Putters] :
           /\ Puts(t)
           /\ \A a \in MapArray : \A p \in MapOf!Pair : MapOf!Stored(a, p) = t[MAXMAP][a][p]
<1> DEFINE at(c, p) == MapOf!Place(c, p.key)
           placed(c, p) == [c EXCEPT ![at(c, p)] = p]
           last == [c \in MapArray |-> [p \in MapOf!Pair |-> IF at(c, p) # 0 THEN placed(c, p) ELSE c]]
           deeper(f) == [c \in MapArray |-> [p \in MapOf!Pair |->
                           IF at(c, p) # 0 THEN placed(c, p) ELSE f[MapOf!Grown(c, f)][p]]]
           F == [n \in 1..MAXMAP |-> [f \in Putters |-> deeper(f)]]
           Step(g, n) == [c \in Seq(MapOf!Bucket) |-> [p \in MapOf!Pair |->
                            IF at(c, p) # 0 THEN placed(c, p)
                            ELSE IF n = 0 THEN c
                            ELSE g[n - 1][MapOf!Grown(c, g[n - 1])][p]]]
           put == CHOOSE g : g = [n \in 0..MAXMAP |-> Step(g, n)]
<1>1. MAXMAP \in Nat
  BY DEF MapOf!HashMapAssumption
<1>2. ASSUME NEW c \in MapArray, NEW p \in MapOf!Pair PROVE placed(c, p) \in MapArray
  <2>1. p \in MapOf!Bucket
    BY PairIs
  <2> HIDE DEF at
  <2>2. CASE at(c, p) \in DOMAIN c
    BY <2>1, <2>2 DEF MapArray
  <2>3. CASE at(c, p) \notin DOMAIN c
    <3>1. placed(c, p) = c
      BY <2>3 DEF MapArray
    <3> QED BY <3>1
  <2> QED BY <2>2, <2>3
<1>3. \A f \in Putters : \A c \in MapArray : MapOf!Grown(c, f) \in MapArray
  <2> TAKE f \in Putters
  <2> TAKE c \in MapArray
  <2>1. PICK t \in [0..Len(c) -> MapArray] : MovesPairs(t, c, f) /\ MapOf!Grown(c, f) = t[Len(c)]
    BY GrownMapUp
  <2>2. Len(c) \in 0..Len(c)
    BY DEF MapArray
  <2> QED BY <2>1, <2>2
<1> HIDE DEF placed, at
<1>4. last \in Putters
  BY <1>2 DEF Putters
<1>5. \A f \in Putters : deeper(f) \in Putters
  <2> SUFFICES ASSUME NEW f \in Putters, NEW c \in MapArray, NEW p \in MapOf!Pair
               PROVE  (IF at(c, p) # 0 THEN placed(c, p) ELSE f[MapOf!Grown(c, f)][p]) \in MapArray
    BY DEF Putters
  <2>1. f[MapOf!Grown(c, f)][p] \in MapArray
    BY <1>3 DEF Putters
  <2> QED BY <1>2, <2>1
<1>6. F \in [1..MAXMAP -> [Putters -> Putters]]
  <2> HIDE DEF deeper
  <2> QED BY <1>5
<1>7. \A n \in 1..MAXMAP : \A f \in Putters : F[n][f] = deeper(f)
  OBVIOUS
<1> HIDE DEF F, last
<1>8. PICK g \in [0..MAXMAP -> Putters] : Iterates(g, MAXMAP, last, F)
  BY <1>1, <1>4, <1>6, Recursion
<1>9. g[0] = last /\ \A n \in 1..MAXMAP : g[n] = F[n][g[n - 1]]
  BY <1>8 DEF Iterates
<1>10. g = [n \in 0..MAXMAP |-> Step(g, n)]
  <2>1. ASSUME NEW n \in 0..MAXMAP PROVE g[n] = Step(g, n)
    <3>1. CASE n = 0
      <4>1. last = Step(g, 0)
        BY DEF last, MapArray
      <4> HIDE DEF Step
      <4> QED BY <1>9, <3>1, <4>1
    <3>2. CASE n # 0
      <4>1. n \in 1..MAXMAP /\ n - 1 \in 0..MAXMAP
        BY <1>1, <3>2
      <4>2. g[n] = deeper(g[n - 1])
        <5> HIDE DEF deeper
        <5> QED BY <1>7, <1>9, <4>1
      <4>3. deeper(g[n - 1]) = Step(g, n)
        BY <3>2 DEF MapArray
      <4> HIDE DEF deeper, Step
      <4> QED BY <4>2, <4>3
    <3> QED BY <3>1, <3>2
  <2> HIDE DEF Step
  <2> QED BY <2>1
<1>11. put = [n \in 0..MAXMAP |-> Step(put, n)]
  <2> HIDE DEF Step
  <2> QED BY <1>10
<1>12. \A a, p : MapOf!Stored(a, p) = put[MAXMAP][a][p]
  BY DEF MapOf!Stored, at, placed
<1> HIDE DEF put
<1>13. \A n \in 0..MAXMAP : put[n] = Step(put, n)
  <2> HIDE DEF Step
  <2> QED BY <1>11
<1>14. /\ put[0] = last
       /\ \A n \in 1..MAXMAP : n - 1 \in 0..MAXMAP /\ put[n] = deeper(put[n - 1])
  <2>1. 0 \in 0..MAXMAP /\ \A n \in 1..MAXMAP : n \in 0..MAXMAP /\ n # 0 /\ n - 1 \in 0..MAXMAP
    BY <1>1
  <2>2. put[0] = last
    <3>1. last = Step(put, 0)
      BY DEF last, MapArray
    <3> HIDE DEF Step
    <3> QED BY <1>13, <2>1, <3>1
  <2>3. ASSUME NEW n \in 1..MAXMAP PROVE put[n] = deeper(put[n - 1])
    <3>1. deeper(put[n - 1]) = Step(put, n)
      BY <2>1 DEF MapArray
    <3> HIDE DEF Step, deeper
    <3> QED BY <1>13, <2>1, <3>1
  <2> QED BY <2>1, <2>2, <2>3
<1>15. \A n \in 0..MAXMAP : put[n] \in Putters
  <2> DEFINE S == {n \in 0..MAXMAP : put[n] \in Putters}
  <2>1. 0 \in 0..MAXMAP /\ put[0] \in Putters
    BY <1>1, <1>4, <1>14
  <2>2. ASSUME NEW n \in 1..MAXMAP, put[n - 1] \in Putters PROVE n \in 0..MAXMAP /\ put[n] \in Putters
    <3> HIDE DEF deeper
    <3> QED BY <1>1, <1>5, <1>14, <2>2
  <2>3. 0 \in S /\ \A n \in 1..MAXMAP : n - 1 \in S => n \in S
    BY <2>1, <2>2
  <2> HIDE DEF S
  <2>4. \A n \in 0..MAXMAP : n \in S
    BY <1>1, <2>3, EachUpTo
  <2> QED BY <2>4 DEF S
<1>16. put \in [0..MAXMAP -> Putters]
  <2> HIDE DEF Step
  <2>1. put = [n \in 0..MAXMAP |-> put[n]]
    BY <1>11
  <2> QED BY <1>15, <2>1
<1>17. Puts(put)
  <2> SUFFICES ASSUME NEW n \in 0..MAXMAP, NEW c \in MapArray, NEW p \in MapOf!Pair
               PROVE  put[n][c][p] = IF at(c, p) # 0 THEN placed(c, p) ELSE IF n = 0 THEN c
                                     ELSE put[n - 1][MapOf!Grown(c, put[n - 1])][p]
    BY DEF Puts, at, placed
  <2>1. put[n] = Step(put, n)
    BY <1>13
  <2>2. Step(put, n)[c][p] = IF at(c, p) # 0 THEN placed(c, p) ELSE IF n = 0 THEN c
                             ELSE put[n - 1][MapOf!Grown(c, put[n - 1])][p]
    BY DEF MapArray
  <2> QED BY <2>1, <2>2
<1> QED BY <1>12, <1>16, <1>17

\* A pair is stored as it should, however often the array grows.
LEMMA StoredStores ==
  ASSUME MapOf!HashMapAssumption, NEW a \in MapArray, Len(a) >= 1, NEW p \in MapOf!Pair
  PROVE  Stores(a, MapOf!Stored(a, p), p)
<1>1. PICK t \in [0..MAXMAP -> Putters] :
        /\ Puts(t)
        /\ \A b \in MapArray : \A q \in MapOf!Pair : MapOf!Stored(b, q) = t[MAXMAP][b][q]
  BY StoredUp
<1>2. MAXMAP \in Nat /\ MOREBUCKETS \in Nat /\ MOREBUCKETS >= 1 /\ Len(a) \in Nat
  BY DEF MapOf!HashMapAssumption, MapArray
<1> DEFINE deep(n, c) == Len(c) >= 1 /\ Len(c) + n >= MAXMAP + 1
           good(n) == \A c \in MapArray : \A q \in MapOf!Pair : deep(n, c) => Stores(c, t[n][c][q], q)
           at(c, q) == MapOf!Place(c, q.key)
<1>3. ASSUME NEW n \in 0..MAXMAP, n # 0 => good(n - 1)
      PROVE  good(n)
  <2> SUFFICES ASSUME NEW c \in MapArray, NEW q \in MapOf!Pair, deep(n, c)
               PROVE  Stores(c, t[n][c][q], q)
    OBVIOUS
  <2>1. t[n][c][q] = IF at(c, q) # 0 THEN [c EXCEPT ![at(c, q)] = q]
                     ELSE IF n = 0 THEN c
                     ELSE t[n - 1][MapOf!Grown(c, t[n - 1])][q]
    BY <1>1 DEF Puts
  <2>2. Len(c) \in Nat
    BY DEF MapArray
  <2>3. CASE at(c, q) # 0
    BY <2>1, <2>3, PutInPlace
  <2>4. CASE at(c, q) = 0 /\ n = 0
    <3>1. ~(Len(c) <= MAXMAP) /\ Len(c) >= Len(c)
      BY <1>2, <2>2, <2>4
    <3> QED BY <2>1, <2>4, <3>1 DEF Stores
  <2>5. CASE at(c, q) = 0 /\ n # 0
    <3> DEFINE f == t[n - 1]
               b == MapOf!Grown(c, f)
               out == f[b][q]
    <3>1. n - 1 \in 0..MAXMAP /\ n \in Nat /\ f \in Putters
      BY <1>2, <2>5
    <3>2. \A d \in MapArray : \A r \in MapOf!Pair : Len(d) >= Len(c) + MOREBUCKETS => Stores(d, f[d][r], r)
      <4> SUFFICES ASSUME NEW d \in MapArray, NEW r \in MapOf!Pair, Len(d) >= Len(c) + MOREBUCKETS
                   PROVE  Stores(d, f[d][r], r)
        OBVIOUS
      <4>0. Len(d) \in Nat
        BY DEF MapArray
      <4>1. deep(n - 1, d)
        BY <1>2, <2>2, <3>1, <4>0
      <4> HIDE DEF deep
      <4> QED BY <1>3, <2>5, <4>1
    <3> HIDE DEF f
    <3>3. /\ b \in MapArray /\ Len(b) >= Len(c) + MOREBUCKETS
          /\ Len(b) <= MAXMAP /\ InPlace(c) => InPlace(b) /\ Kept(b) = Kept(c)
      BY <3>1, <3>2, GrownMapKeeps
    <3> HIDE DEF b
    <3>4. Stores(b, out, q)
      BY <3>2, <3>3
    <3>5. t[n][c][q] = out
      BY <2>1, <2>5 DEF f, b
    <3> HIDE DEF out
    <3>6. out \in MapArray /\ Len(out) >= Len(b) /\ Len(out) \in Nat /\ Len(b) \in Nat
      BY <3>3, <3>4 DEF Stores, MapArray
    <3>7. Len(out) >= Len(c)
      BY <1>2, <2>2, <3>3, <3>6
    <3>8. ASSUME Len(out) <= MAXMAP, InPlace(c)
          PROVE  InPlace(out) /\ Kept(out) = {r \in Kept(c) : r.key # q.key} \cup {q}
      <4>1. Len(b) <= MAXMAP
        BY <1>2, <3>6, <3>8
      <4>2. InPlace(b) /\ Kept(b) = Kept(c)
        BY <3>3, <3>8, <4>1
      <4>3. InPlace(out) /\ Kept(out) = {r \in Kept(b) : r.key # q.key} \cup {q}
        BY <3>4, <3>8, <4>2 DEF Stores
      <4> QED BY <4>2, <4>3
    <3>9. Stores(c, out, q)
      BY <3>6, <3>7, <3>8 DEF Stores
    <3> QED BY <3>5, <3>9
  <2> QED BY <2>3, <2>4, <2>5
<1> HIDE DEF good
<1>4. \A n \in 0..MAXMAP : good(n)
  <2> DEFINE S == {n \in 0..MAXMAP : good(n)}
  <2>1. 0 \in S
    BY <1>2, <1>3
  <2>2. ASSUME NEW n \in 1..MAXMAP, n - 1 \in S PROVE n \in S
    <3>1. n \in 0..MAXMAP /\ n # 0
      BY <1>2
    <3> QED BY <1>3, <2>2, <3>1
  <2> HIDE DEF S
  <2>3. \A n \in 0..MAXMAP : n \in S
    BY <1>2, <2>1, <2>2, EachUpTo
  <2> QED BY <2>3 DEF S
<1>5. good(MAXMAP) /\ deep(MAXMAP, a)
  BY <1>2, <1>4
<1> QED BY <1>1, <1>5 DEF good
---------------------------------------------------------------------------
(* The map is a dictionary.                                                   *)

MapInv == MapOf!HashMapAssumption /\ mapBuckets \in MapArray /\ Len(mapBuckets) >= 1 /\ InPlace(mapBuckets)

\* The dictionary that a set of pairs with different keys is.
DictOf(P) == [k \in {p.key : p \in P} |-> (CHOOSE p \in P : p.key = k).value]

Keyed(P) == P \subseteq MapOf!Pair /\ \A p, q \in P : p.key = q.key => p = q

LEMMA DictOfIs ==
  ASSUME NEW P, Keyed(P), NEW p \in P
  PROVE  p.key \in DOMAIN DictOf(P) /\ DictOf(P)[p.key] = p.value
<1> DEFINE c == CHOOSE q \in P : q.key = p.key
<1>1. c \in P /\ c.key = p.key
  OBVIOUS
<1>2. c = p
  BY <1>1 DEF Keyed
<1> QED BY <1>2 DEF DictOf

\* Pairs in one array have different keys.
LEMMA KeptKeyed ==
  ASSUME NEW a \in MapArray, InPlace(a)
  PROVE  Keyed(Kept(a))
<1>1. DOMAIN a = 1..Len(a) /\ \A i \in 1..Len(a) : a[i] \in MapOf!Bucket
  BY DEF MapArray
<1>2. \A p \in Kept(a) : p \in MapOf!Pair /\ \E i \in 1..Len(a) : a[i] = p /\ p # MapOf!Empty
  BY <1>1, PairIs DEF Kept
<1>3. \A i, j \in 1..Len(a) : a[i] # MapOf!Empty /\ a[j] # MapOf!Empty /\ a[j].key = a[i].key => i = j
  BY <1>1 DEF InPlace
<1> QED BY <1>2, <1>3 DEF Keyed

\* A pair that takes the place of the one with its key, or is new.
LEMMA DictOfPut ==
  ASSUME NEW P, Keyed(P), NEW p \in MapOf!Pair
  PROVE  DictOf({q \in P : q.key # p.key} \cup {p}) =
           [k \in DOMAIN DictOf(P) \cup {p.key} |-> IF k = p.key THEN p.value ELSE DictOf(P)[k]]
<1> DEFINE Q == {q \in P : q.key # p.key} \cup {p}
           d == [k \in DOMAIN DictOf(P) \cup {p.key} |-> IF k = p.key THEN p.value ELSE DictOf(P)[k]]
<1>1. Keyed(Q)
  BY DEF Keyed
<1>2. \A q \in Q : q = p \/ (q \in P /\ q.key # p.key)
  OBVIOUS
<1>3. p \in Q /\ \A q \in P : q.key # p.key => q \in Q
  OBVIOUS
<1>4. DOMAIN DictOf(Q) = {q.key : q \in Q} /\ DOMAIN DictOf(P) = {q.key : q \in P}
  BY DEF DictOf
<1> HIDE DEF Q
<1>5. DOMAIN DictOf(Q) = DOMAIN d
  <2>1. DOMAIN d = DOMAIN DictOf(P) \cup {p.key}
    OBVIOUS
  <2>2. \A q \in Q : q.key \in {r.key : r \in P} \cup {p.key}
    BY <1>2
  <2>3. \A q \in P : q.key \in {r.key : r \in Q}
    BY <1>3
  <2>4. p.key \in {r.key : r \in Q}
    BY <1>3
  <2> QED BY <1>4, <2>1, <2>2, <2>3, <2>4
<1>6. ASSUME NEW k \in DOMAIN d PROVE DictOf(Q)[k] = d[k]
  <2>1. PICK q \in Q : q.key = k
    BY <1>4, <1>5
  <2>2. DictOf(Q)[k] = q.value
    BY <1>1, <2>1, DictOfIs
  <2>3. CASE q = p
    BY <2>1, <2>2, <2>3
  <2>4. CASE q # p
    <3>1. q \in P /\ k # p.key
      BY <1>2, <2>1, <2>4
    <3>2. DictOf(P)[k] = q.value
      BY <2>1, <3>1, DictOfIs
    <3> QED BY <2>2, <3>1, <3>2
  <2> QED BY <2>3, <2>4
<1>7. DictOf(Q) = [k \in DOMAIN DictOf(Q) |-> DictOf(Q)[k]] /\ d = [k \in DOMAIN d |-> d[k]]
  BY DEF DictOf
<1> HIDE DEF d
<1>8. DictOf(Q) = d
  BY <1>5, <1>6, <1>7
<1> QED BY <1>8 DEF Q, d

\* What the search for a key finds: its pair, or that there is none.
LEMMA PlaceTells ==
  ASSUME MapInv, NEW k \in Keys
  PROVE  LET at == MapOf!Place(mapBuckets, k)
             D  == DictOf(Kept(mapBuckets))
         IN  /\ k \in DOMAIN D <=> at # 0 /\ mapBuckets[at] # MapOf!Empty
             /\ k \in DOMAIN D => D[k] = mapBuckets[at].value
<1> DEFINE at == MapOf!Place(mapBuckets, k)
           D  == DictOf(Kept(mapBuckets))
<1>1. mapBuckets \in MapArray /\ Len(mapBuckets) >= 1 /\ InPlace(mapBuckets) /\ Keyed(Kept(mapBuckets))
      /\ MapOf!HashMapAssumption /\ DOMAIN mapBuckets = 1..Len(mapBuckets)
  BY KeptKeyed DEF MapInv, MapArray
<1>2. at = 0 \/ (at \in 1..Len(mapBuckets) /\ (mapBuckets[at] = MapOf!Empty \/ mapBuckets[at].key = k))
  BY <1>1, PlaceIs
<1>3. DOMAIN D = {p.key : p \in Kept(mapBuckets)}
  BY DEF DictOf
<1> HIDE DEF at, D
<1>4. ASSUME k \in DOMAIN D PROVE at # 0 /\ mapBuckets[at] # MapOf!Empty
  <2>1. PICK p \in Kept(mapBuckets) : p.key = k
    BY <1>3, <1>4
  <2>2. PICK i \in 1..Len(mapBuckets) : mapBuckets[i] = p /\ p # MapOf!Empty
    BY <1>1 DEF Kept
  <2>3. at = i
    BY <1>1, <2>1, <2>2, PlaceFinds DEF at
  <2> QED BY <2>2, <2>3
<1>5. ASSUME at # 0, mapBuckets[at] # MapOf!Empty PROVE k \in DOMAIN D /\ D[k] = mapBuckets[at].value
  <2>1. mapBuckets[at] \in Kept(mapBuckets) /\ mapBuckets[at].key = k
    BY <1>1, <1>2, <1>5 DEF Kept
  <2> QED BY <1>1, <2>1, DictOfIs DEF D
<1> QED BY <1>4, <1>5 DEF at, D

LEMMA MapDict == MapOf!Pairs = Kept(mapBuckets)
BY DEF MapOf!Pairs, Kept

\* A pair put into the map: the array keeps its form, and the dictionary has the pair.
LEMMA EmplaceStep ==
  ASSUME MapInv, NEW k \in Keys, NEW v \in MapValues, MapOf!MapEmplace(k, v)
  PROVE  /\ MapInv'
         /\ DictOf(Kept(mapBuckets')) =
              [x \in DOMAIN DictOf(Kept(mapBuckets)) \cup {k} |-> IF x = k THEN v ELSE DictOf(Kept(mapBuckets))[x]]
<1> DEFINE p == [key |-> k, value |-> v]
           b == MapOf!Stored(mapBuckets, p)
<1>1. p \in MapOf!Pair /\ p.key = k /\ p.value = v
  BY DEF MapOf!Pair
<1>2. mapBuckets \in MapArray /\ Len(mapBuckets) >= 1 /\ InPlace(mapBuckets) /\ MapOf!HashMapAssumption
  BY DEF MapInv
<1>3. mapBuckets' = b /\ Len(b) <= MAXMAP
  BY DEF MapOf!MapEmplace
<1> HIDE DEF p
<1>4. Stores(mapBuckets, b, p)
  BY <1>1, <1>2, StoredStores
<1> HIDE DEF b
<1>5. b \in MapArray /\ Len(b) >= Len(mapBuckets) /\ InPlace(b) /\ Kept(b) = {q \in Kept(mapBuckets) : q.key # p.key} \cup {p}
  BY <1>2, <1>3, <1>4 DEF Stores
<1>6. Len(b) >= 1
  BY <1>2, <1>5 DEF MapArray
<1>7. Keyed(Kept(mapBuckets))
  BY <1>2, KeptKeyed
<1>8. DictOf(Kept(b)) =
        [x \in DOMAIN DictOf(Kept(mapBuckets)) \cup {k} |-> IF x = k THEN v ELSE DictOf(Kept(mapBuckets))[x]]
  BY <1>1, <1>5, <1>7, DictOfPut
<1>9. MapInv'
  BY <1>2, <1>3, <1>5, <1>6 DEF MapInv, MapOf!HashMapAssumption
<1> QED BY <1>3, <1>8, <1>9

LEMMA MapStep ==
  ASSUME MapInv, [MapOf!Next]_MapOf!vars
  PROVE  MapInv' /\ [MapOf!Dict!Next]_MapOf!Dict!vars
<1> DEFINE D == DictOf(Kept(mapBuckets))
           E == DictOf(Kept(mapBuckets'))
<1>0. /\ [k \in {p.key : p \in MapOf!Pairs} |-> (CHOOSE p \in MapOf!Pairs : p.key = k).value] = D
      /\ [k \in {p.key : p \in MapOf!Pairs'} |-> (CHOOSE p \in MapOf!Pairs' : p.key = k).value] = E
  <2>1. MapOf!Pairs = Kept(mapBuckets) /\ MapOf!Pairs' = Kept(mapBuckets')
    BY DEF MapOf!Pairs, Kept
  <2> QED BY <2>1 DEF DictOf
<1>1. CASE \E k \in Keys : MapOf!MapFind(k)
  <2>1. PICK k \in Keys : MapOf!MapFind(k)
    BY <1>1
  <2>2. /\ mapAnswer' = IF MapOf!Place(mapBuckets, k) = 0 \/ mapBuckets[MapOf!Place(mapBuckets, k)] = MapOf!Empty THEN NotFound
                        ELSE mapBuckets[MapOf!Place(mapBuckets, k)].value
        /\ UNCHANGED <<mapBuckets, status>>
    BY <2>1 DEF MapOf!MapFind
  <2>3. mapAnswer' = IF k \in DOMAIN D THEN D[k] ELSE NotFound
    BY <2>2, PlaceTells
  <2>4. E = D
    BY <2>2
  <2>5. MapInv'
    BY <2>2 DEF MapInv, MapOf!HashMapAssumption
  <2> HIDE DEF D, E
  <2>6. MapOf!Dict!Find(k)
    BY <1>0, <2>3, <2>4 DEF MapOf!Dict!Find
  <2> QED BY <2>5, <2>6 DEF MapOf!Dict!Next
<1>2. CASE \E k \in Keys : \E v \in MapValues : MapOf!MapEmplace(k, v)
  <2>1. PICK k \in Keys, v \in MapValues : MapOf!MapEmplace(k, v)
    BY <1>2
  <2>2. MapInv' /\ E = [x \in DOMAIN D \cup {k} |-> IF x = k THEN v ELSE D[x]]
    BY <2>1, EmplaceStep
  <2>3. /\ status' = IF MapOf!Place(mapBuckets, k) # 0 /\ mapBuckets[MapOf!Place(mapBuckets, k)] # MapOf!Empty
                     THEN "aborted" ELSE status
        /\ status = "running"
        /\ mapAnswer' = IF status' = "aborted" THEN NotFound ELSE mapAnswer
    BY <2>1 DEF MapOf!MapEmplace
  <2>4. k \in DOMAIN D <=> MapOf!Place(mapBuckets, k) # 0 /\ mapBuckets[MapOf!Place(mapBuckets, k)] # MapOf!Empty
    BY PlaceTells
  <2>5. D = [x \in DOMAIN D |-> D[x]]
    BY DEF DictOf
  <2> HIDE DEF D, E
  <2>6. CASE k \notin DOMAIN D
    <3>1. mapAnswer' = mapAnswer
      BY <2>3, <2>4, <2>6
    <3>2. MapOf!Dict!Emplace(k, v)
      BY <2>2, <2>6, <3>1 DEF MapOf!Dict!Emplace, D, E, DictOf, Kept, MapOf!Pairs
    <3> QED BY <2>2, <3>2 DEF MapOf!Dict!Next
  <2>7. CASE k \in DOMAIN D
    <3>1. mapAnswer' = NotFound
      BY <2>3, <2>4, <2>7
    <3>2. E = [D EXCEPT ![k] = v]
      <4>1. DOMAIN D \cup {k} = DOMAIN D
        BY <2>7
      <4>2. E = [x \in DOMAIN D |-> IF x = k THEN v ELSE D[x]]
        BY <2>2, <4>1
      <4>3. [D EXCEPT ![k] = v] = [x \in DOMAIN D |-> IF x = k THEN v ELSE D[x]]
        BY <2>5
      <4> QED BY <4>2, <4>3
    <3>3. MapOf!Dict!EmplaceAgain(k, v)
      BY <1>0, <2>7, <3>1, <3>2 DEF MapOf!Dict!EmplaceAgain
    <3> QED BY <2>2, <3>3 DEF MapOf!Dict!Next
  <2> QED BY <2>6, <2>7
<1>3. CASE UNCHANGED MapOf!vars
  <2>1. mapBuckets' = mapBuckets /\ mapAnswer' = mapAnswer
    BY <1>3 DEF MapOf!vars
  <2>2. E = D
    BY <2>1
  <2>3. MapInv'
    BY <2>1 DEF MapInv, MapOf!HashMapAssumption
  <2> HIDE DEF D, E
  <2>4. UNCHANGED MapOf!Dict!vars
    BY <1>0, <2>1, <2>2 DEF MapOf!Dict!vars
  <2> QED BY <2>3, <2>4
<1> QED BY <1>1, <1>2, <1>3 DEF MapOf!Next

LEMMA MapInit ==
  ASSUME MapOf!HashMapAssumption, MapOf!Init
  PROVE  MapInv /\ MapOf!Dict!Init
<1>1. FIRSTBUCKETS \in Nat /\ FIRSTBUCKETS >= 1
  BY DEF MapOf!HashMapAssumption
<1>2. mapBuckets \in MapArray /\ Len(mapBuckets) >= 1 /\ InPlace(mapBuckets) /\ Kept(mapBuckets) = {} /\ mapAnswer = NotFound
  BY <1>1, EmptyMap DEF MapOf!Init
<1>3. [k \in {p.key : p \in MapOf!Pairs} |-> (CHOOSE p \in MapOf!Pairs : p.key = k).value] = [k \in {} |-> NotFound]
  <2>1. MapOf!Pairs = {}
    BY <1>2, MapDict
  <2> QED BY <2>1
<1> QED BY <1>2, <1>3 DEF MapInv, MapOf!Dict!Init

\* DictionaryImplemented: with hashes that differ, a map of any size is a dictionary: each
\* step puts a pair into it or looks one up, through all growths (mapEmplace, mapFind).
THEOREM DictionaryImplemented ==
  ASSUME MapOf!HashMapAssumption
  PROVE  MapOf!Spec => ImplementsDictionary
<1>1. MapOf!Init => MapInv /\ MapOf!Dict!Init
  BY MapInit
<1>2. MapInv /\ [MapOf!Next]_MapOf!vars => MapInv' /\ [MapOf!Dict!Next]_MapOf!Dict!vars
  BY MapStep
<1> QED BY <1>1, <1>2, PTL DEF MapOf!Spec, ImplementsDictionary, MapOf!ImplementsDictionary, MapOf!Dict!Spec

---------------------------------------------------------------------------
(* Sorting: exchanging elements of an array.                                  *)

Arrays(n) == [1..n -> Elements]

\* The arrays of a length are the sequences of that length.
LEMMA ArraySeq ==
  ASSUME NEW n \in Nat, NEW b \in Arrays(n)
  PROVE  b \in Seq(Elements) /\ Len(b) = n /\ DOMAIN b = 1..n
BY DEF Arrays

LEMMA SeqArray ==
  ASSUME NEW b \in Seq(Elements)
  PROVE  Len(b) \in Nat /\ b \in Arrays(Len(b)) /\ DOMAIN b = 1..Len(b)
BY DEF Arrays

\* r is c with the elements from low to high in another order.
Rearranged(n, c, r, low, high) ==
  /\ r \in Arrays(n)
  /\ ArrayOf!Occurrences(r) = ArrayOf!Occurrences(c)
  /\ \A x \in 1..n : x \notin low..high => r[x] = c[x]
  /\ \A x \in low..high : \E y \in low..high : r[x] = c[y]

LEMMA SwapRearranges ==
  ASSUME NEW n \in Nat, NEW b \in Arrays(n), NEW low \in 1..n, NEW high \in 1..n,
         NEW i \in low..high, NEW j \in low..high
  PROVE  LET c == ArrayOf!SwapElems(b, i, j)
         IN  /\ Rearranged(n, b, c, low, high)
             /\ c[i] = b[j] /\ c[j] = b[i] /\ \A k \in 1..n : k # i /\ k # j => c[k] = b[k]
<1> DEFINE c == ArrayOf!SwapElems(b, i, j)
<1>1. i \in 1..n /\ j \in 1..n /\ DOMAIN b = 1..n
  BY DEF Arrays
<1>2. c \in Arrays(n)
  BY <1>1 DEF Arrays, ArrayOf!SwapElems
<1>3. c[i] = b[j] /\ c[j] = b[i] /\ \A k \in 1..n : k # i /\ k # j => c[k] = b[k]
  BY <1>1 DEF Arrays, ArrayOf!SwapElems
<1> HIDE DEF c
<1>4. DOMAIN c = 1..n
  BY <1>2 DEF Arrays
<1>5. ASSUME NEW x \in Elements
      PROVE  Cardinality({k \in DOMAIN c : c[k] = x}) = Cardinality({k \in DOMAIN b : b[k] = x})
  <2> DEFINE S == {k \in 1..n : b[k] = x}
             T == {k \in 1..n : c[k] = x}
             f == [k \in S |-> IF k = i THEN j ELSE IF k = j THEN i ELSE k]
  <2>1. \A k \in S : f[k] \in T
    BY <1>1, <1>3
  <2>2. \A k, l \in S : k # l => f[k] # f[l]
    OBVIOUS
  <2>3. ASSUME NEW t \in T PROVE \E k \in S : f[k] = t
    <3> DEFINE k == IF t = i THEN j ELSE IF t = j THEN i ELSE t
    <3>1. k \in S
      BY <1>1, <1>3
    <3>2. f[k] = t
      BY <3>1
    <3> QED BY <3>1, <3>2
  <2>4. f \in [S -> T]
    <3> HIDE DEF S, T
    <3> QED BY <2>1
  <2> HIDE DEF f
  <2>5. f \in Bijection(S, T)
    <3> HIDE DEF S, T
    <3> QED BY <2>2, <2>3, <2>4 DEF Bijection, Injection, Surjection, IsInjective
  <2>6. IsFiniteSet(S)
    <3>1. IsFiniteSet(1..n) /\ S \in SUBSET (1..n)
      BY FS_Interval
    <3> HIDE DEF S
    <3> QED BY <3>1, FS_Subset
  <2>7. ExistsBijection(S, T)
    <3> HIDE DEF S, T
    <3> QED BY <2>5 DEF ExistsBijection
  <2>8. Cardinality(T) = Cardinality(S)
    <3> HIDE DEF S, T
    <3> QED BY <2>6, <2>7, FS_Bijection
  <2> QED BY <1>1, <1>4, <2>8
<1>6. ArrayOf!Occurrences(c) = ArrayOf!Occurrences(b)
  <2>1. \A x \in Elements : ArrayOf!Cardinality({k \in DOMAIN c : c[k] = x}) = ArrayOf!Cardinality({k \in DOMAIN b : b[k] = x})
    BY <1>5 DEF ArrayOf!Cardinality, Cardinality
  <2> QED BY <2>1 DEF ArrayOf!Occurrences
<1>7. \A x \in low..high : \E y \in low..high : c[x] = b[y]
  <2> TAKE x \in low..high
  <2>1. x \in 1..n
    OBVIOUS
  <2>2. CASE x = i BY <1>3, <2>2
  <2>3. CASE x = j BY <1>3, <2>3
  <2>4. CASE x # i /\ x # j BY <1>3, <2>1, <2>4
  <2> QED BY <2>2, <2>3, <2>4
<1>8. Rearranged(n, b, c, low, high)
  BY <1>1, <1>2, <1>3, <1>6, <1>7 DEF Rearranged
<1> QED BY <1>3, <1>8 DEF c

LEMMA RearrangedSame ==
  ASSUME NEW n \in Nat, NEW b \in Arrays(n), NEW low, NEW high
  PROVE  Rearranged(n, b, b, low, high)
BY DEF Rearranged

\* One rearrangement after another, of a part of what the first one rearranged.
LEMMA RearrangedTwice ==
  ASSUME NEW n \in Nat, NEW b, NEW c, NEW d, NEW low \in Int, NEW high \in Int, low >= 1, high <= n,
         NEW from \in Int, NEW to \in Int, from >= low, to <= high,
         Rearranged(n, b, c, low, high), Rearranged(n, c, d, from, to)
  PROVE  Rearranged(n, b, d, low, high)
<1>1. ASSUME NEW x \in 1..n, x \notin low..high PROVE d[x] = b[x]
  BY <1>1 DEF Rearranged
<1>2. ASSUME NEW x \in low..high PROVE \E y \in low..high : d[x] = b[y]
  <2>1. \E y \in low..high : d[x] = c[y]
    <3>1. CASE x \in from..to
      BY <3>1 DEF Rearranged
    <3>2. CASE x \notin from..to /\ x \in 1..n
      BY <3>2 DEF Rearranged
    <3>3. CASE x \notin 1..n
      <4>1. x \notin from..to => x \notin DOMAIN d /\ x \notin DOMAIN c
        BY <3>3 DEF Rearranged, Arrays
      <4> QED BY <3>1, <3>3, <4>1
    <3> QED BY <3>1, <3>2, <3>3
  <2> QED BY <2>1 DEF Rearranged
<1> QED BY <1>1, <1>2 DEF Rearranged

LEMMA RearrangedWider ==
  ASSUME NEW n \in Nat, NEW b, NEW c, NEW low \in 1..n + 1, NEW high \in 0..n,
         NEW from \in Int, NEW to \in Int, from >= low, to <= high, Rearranged(n, b, c, from, to)
  PROVE  Rearranged(n, b, c, low, high)
<1>1. ASSUME NEW x \in low..high PROVE \E y \in low..high : c[x] = b[y]
  <2>1. CASE x \in from..to
    BY <2>1 DEF Rearranged
  <2>2. CASE x \notin from..to
    <3>1. x \in 1..n
      OBVIOUS
    <3> QED BY <2>2, <3>1 DEF Rearranged
  <2> QED BY <2>1, <2>2
<1> QED BY <1>1 DEF Rearranged

---------------------------------------------------------------------------
(* sort: runs until one of them swaps nothing.                                *)

Acc(n) == [a : Arrays(n), unsorted : BOOLEAN]

\* What comparing an element with the one before it makes of the array.
Compared(p, i) ==
  IF p.a[i] < p.a[i - 1] THEN [a |-> ArrayOf!SwapElems(p.a, i, i - 1), unsorted |-> TRUE] ELSE p

\* One run, element by element.
Passes(t, b, n) ==
  /\ t[0] = [a |-> b, unsorted |-> FALSE]
  /\ \A i \in 1..n : t[i] = IF i <= 1 THEN [a |-> b, unsorted |-> FALSE] ELSE Compared(t[i - 1], i)

LEMMA PassUp ==
  ASSUME NEW n \in Nat, NEW b \in Arrays(n)
  PROVE  \E t \in [0..n -> Acc(n)] : Passes(t, b, n) /\ ArrayOf!Pass(b) = t[n]
<1> DEFINE V == Acc(n)
           first == [a |-> b, unsorted |-> FALSE]
           next(p, i) == IF i <= 1 THEN first
                         ELSE IF p.a[i] < p.a[i - 1] THEN [a |-> ArrayOf!SwapElems(p.a, i, i - 1), unsorted |-> TRUE] ELSE p
           F == [i \in 1..n |-> [p \in V |-> next(p, i)]]
           pass == CHOOSE g : g = [i \in 0..n |-> next(g[i - 1], i)]
<1>1. Len(b) = n
  BY ArraySeq
<1>2. first \in V
  BY DEF Acc
<1>3. \A i \in 1..n : \A p \in V : next(p, i) \in V
  <2> TAKE i \in 1..n
  <2> TAKE p \in V
  <2>1. p.a \in Arrays(n)
    BY DEF Acc
  <2>2. ASSUME i > 1 PROVE [a |-> ArrayOf!SwapElems(p.a, i, i - 1), unsorted |-> TRUE] \in V
    <3>1. i \in 1..n /\ i - 1 \in 1..n /\ 1 \in 1..n /\ n \in 1..n
      BY <2>2
    <3>2. ArrayOf!SwapElems(p.a, i, i - 1) \in Arrays(n)
      BY <2>1, <3>1 DEF Arrays, ArrayOf!SwapElems
    <3> QED BY <3>2 DEF Acc
  <2> HIDE DEF V, first
  <2> QED BY <1>2, <2>2
<1> HIDE DEF V, first
<1>4. F \in [1..n -> [V -> V]]
  <2> HIDE DEF next
  <2> QED BY <1>3
<1>5. \A i \in 1..n : \A p \in V : F[i][p] = next(p, i)
  OBVIOUS
<1> HIDE DEF F
<1>6. PICK g \in [0..n -> V] : Iterates(g, n, first, F)
  BY <1>2, <1>4, Recursion
<1>7. g[0] = first /\ \A i \in 1..n : g[i] = next(g[i - 1], i)
  <2>1. \A i \in 1..n : i - 1 \in 0..n
    OBVIOUS
  <2> HIDE DEF next
  <2> QED BY <1>5, <1>6, <2>1 DEF Iterates
<1>8. g = [i \in 0..n |-> next(g[i - 1], i)]
  <2>1. \A i \in 0..n : g[i] = next(g[i - 1], i)
    <3>1. next(g[0 - 1], 0) = first
      OBVIOUS
    <3> HIDE DEF next
    <3> QED BY <1>7, <3>1
  <2> HIDE DEF next
  <2> QED BY <2>1
<1>9. pass = [i \in 0..n |-> next(pass[i - 1], i)]
  <2> HIDE DEF next
  <2> QED BY <1>8
<1>10. ArrayOf!Pass(b) = pass[n]
  BY <1>1 DEF ArrayOf!Pass, first
<1> HIDE DEF pass
<1>11. pass[0] = first /\ \A i \in 1..n : pass[i] = next(pass[i - 1], i)
  <2>1. next(pass[0 - 1], 0) = first
    OBVIOUS
  <2> HIDE DEF next
  <2> QED BY <1>9, <2>1
<1>12. \A i \in 0..n : pass[i] \in V
  <2> DEFINE S == {i \in 0..n : pass[i] \in V}
  <2>1. ASSUME NEW i \in 1..n, pass[i - 1] \in V PROVE i \in 0..n /\ pass[i] \in V
    <3> HIDE DEF next
    <3> QED BY <1>3, <1>11, <2>1
  <2>2. 0 \in S /\ \A i \in 1..n : i - 1 \in S => i \in S
    <3> HIDE DEF next
    <3> QED BY <1>2, <1>11, <2>1
  <2> HIDE DEF S
  <2>3. \A i \in 0..n : i \in S
    BY <2>2, EachUpTo
  <2> QED BY <2>3 DEF S
<1>13. pass \in [0..n -> V]
  <2> HIDE DEF next
  <2> QED BY <1>9, <1>12
<1>14. Passes(pass, b, n)
  BY <1>11 DEF Passes, Compared, first
<1> QED BY <1>10, <1>13, <1>14 DEF V

\* From m + 1 on, every element is in its place.
Settled(n, b, m) == \A i \in 1..n, j \in m + 1..n : i < j => b[i] <= b[j]

\* No element is smaller than the one before it: so none is smaller than any before it.
LEMMA StepwiseSorted ==
  ASSUME ArrayOf!SortingAssumption, NEW n \in Nat, NEW b \in Arrays(n), NEW k \in 0..n,
         \A i \in 2..k : b[i] >= b[i - 1]
  PROVE  \A i, j \in 1..k : i < j => b[i] <= b[j]
<1> DEFINE S == {j \in 0..k : \A i \in 1..k : i < j => b[i] <= b[j]}
<1>1. \A i \in 1..n : b[i] \in Int
  BY DEF Arrays, ArrayOf!SortingAssumption
<1>2. ASSUME NEW j \in 1..k, j - 1 \in S PROVE j \in S
  <2> SUFFICES ASSUME NEW i \in 1..k, i < j PROVE b[i] <= b[j]
    OBVIOUS
  <2>1. i \in 1..n /\ j \in 1..n /\ j - 1 \in 1..n /\ j \in 2..k
    OBVIOUS
  <2>2. i = j - 1 \/ i < j - 1
    OBVIOUS
  <2>3. b[i] <= b[j - 1]
    BY <1>1, <1>2, <2>1, <2>2
  <2> QED BY <1>1, <2>1, <2>3
<1>3. 0 \in S
  OBVIOUS
<1> HIDE DEF S
<1>4. \A j \in 0..k : j \in S
  BY <1>2, <1>3, EachUpTo
<1> QED BY <1>4 DEF S

\* What a run does: it rearranges the array, puts the greatest of the first m elements last
\* of them, and, if it swaps nothing, has found the array in order.
LEMMA PassDoes ==
  ASSUME ArrayOf!SortingAssumption, NEW n \in Nat, NEW b \in Arrays(n)
  PROVE  LET p == ArrayOf!Pass(b)
         IN  /\ p \in Acc(n)
             /\ Rearranged(n, b, p.a, 1, n)
             /\ ~p.unsorted => p.a = b /\ Settled(n, b, 0)
             /\ \A m \in 1..n : Settled(n, b, m) => Settled(n, p.a, m - 1)
             /\ Settled(n, b, 0) => ~p.unsorted
<1>1. PICK t \in [0..n -> Acc(n)] : Passes(t, b, n) /\ ArrayOf!Pass(b) = t[n]
  BY PassUp
<1> DEFINE p(k) == t[k]
           good(k) ==
             /\ p(k).a \in Arrays(n)
             /\ Rearranged(n, b, p(k).a, 1, k)
             /\ \A i \in 1..k : p(k).a[i] <= p(k).a[k]
             /\ ~p(k).unsorted => p(k).a = b /\ \A i \in 2..k : b[i] >= b[i - 1]
             /\ Settled(n, b, 0) => ~p(k).unsorted
<1>2. \A i \in 1..n : b[i] \in Int
  BY DEF Arrays, ArrayOf!SortingAssumption
<1>3. good(0)
  <2>1. t[0].a = b /\ t[0].unsorted = FALSE
    BY <1>1 DEF Passes
  <2>2. Rearranged(n, b, b, 1, 0)
    BY RearrangedSame
  <2> QED BY <2>1, <2>2
<1>4. ASSUME NEW k \in 1..n, good(k - 1) PROVE good(k)
  <2>1. k - 1 \in 0..n /\ t[k - 1] \in Acc(n) /\ t[k] = IF k <= 1 THEN [a |-> b, unsorted |-> FALSE] ELSE Compared(t[k - 1], k)
    <3>1. k - 1 \in 0..n
      OBVIOUS
    <3>2. t[k - 1] \in Acc(n)
      BY <3>1
    <3>3. t[k] = IF k <= 1 THEN [a |-> b, unsorted |-> FALSE] ELSE Compared(t[k - 1], k)
      BY <1>1 DEF Passes
    <3> QED BY <3>1, <3>2, <3>3
  <2>2. CASE k = 1
    <3>1. t[1].a = b /\ t[1].unsorted = FALSE
      BY <2>1, <2>2
    <3>2. Rearranged(n, b, b, 1, 1)
      BY RearrangedSame
    <3>3. 1 \in 1..n /\ b[1] <= b[1]
      BY <1>2, <2>2
    <3> QED BY <2>2, <3>1, <3>2, <3>3
  <2>3. CASE k > 1
    <3> DEFINE q == t[k - 1]
    <3>1. q.a \in Arrays(n) /\ q.unsorted \in BOOLEAN /\ \A i \in 1..n : q.a[i] \in Int
      BY <2>1 DEF Acc, Arrays, ArrayOf!SortingAssumption
    <3>2. Rearranged(n, b, q.a, 1, k - 1) /\ (\A i \in 1..k - 1 : q.a[i] <= q.a[k - 1])
          /\ (~q.unsorted => q.a = b /\ \A i \in 2..k - 1 : b[i] >= b[i - 1])
          /\ (Settled(n, b, 0) => ~q.unsorted)
      BY <1>4
    <3>3. t[k] = Compared(q, k)
      BY <2>1, <2>3
    <3> HIDE DEF q
    <3>4. k \in 1..n /\ k - 1 \in 1..n /\ k \in 1..k /\ k - 1 \in 1..k /\ 1 \in 1..n /\ 1 \in 1..n + 1 /\ k \in 0..n
      BY <2>3
    <3>5. Rearranged(n, b, q.a, 1, k)
      BY <3>2, <3>4, RearrangedWider
    <3>6. CASE q.a[k] < q.a[k - 1]
      <4> DEFINE c == ArrayOf!SwapElems(q.a, k, k - 1)
      <4>1. t[k].a = c /\ t[k].unsorted = TRUE
        BY <3>3, <3>6 DEF Compared
      <4>2. /\ Rearranged(n, q.a, c, 1, k)
            /\ c[k] = q.a[k - 1] /\ c[k - 1] = q.a[k] /\ \A i \in 1..n : i # k /\ i # k - 1 => c[i] = q.a[i]
        BY <3>1, <3>4, SwapRearranges
      <4> HIDE DEF c
      <4>3. Rearranged(n, b, c, 1, k)
        BY <3>4, <3>5, <4>2, RearrangedTwice
      <4>4. ASSUME NEW i \in 1..k PROVE c[i] <= c[k]
        <5>1. CASE i = k
          BY <3>1, <3>4, <4>2, <5>1
        <5>2. CASE i = k - 1
          BY <3>1, <3>4, <3>6, <4>2, <5>2
        <5>3. CASE i # k /\ i # k - 1
          <6>1. i \in 1..k - 1 /\ i \in 1..n
            BY <5>3
          <6> QED BY <3>2, <4>2, <5>3, <6>1
        <5> QED BY <5>1, <5>2, <5>3
      <4>5. ~Settled(n, b, 0)
        <5> SUFFICES ASSUME Settled(n, b, 0) PROVE FALSE
          OBVIOUS
        <5>1. q.a = b
          BY <3>2
        <5>2. k - 1 \in 1..n /\ k \in 0 + 1..n /\ k - 1 < k
          BY <3>4
        <5>3. b[k - 1] <= b[k]
          BY <5>2 DEF Settled
        <5> QED BY <1>2, <3>4, <3>6, <5>1, <5>3
      <4>6. c \in Arrays(n)
        BY <4>2 DEF Rearranged
      <4> QED BY <4>1, <4>3, <4>4, <4>5, <4>6
    <3>7. CASE ~(q.a[k] < q.a[k - 1])
      <4>1. t[k] = q
        BY <3>3, <3>7 DEF Compared
      <4>2. q.a[k - 1] <= q.a[k]
        BY <3>1, <3>4, <3>7
      <4>3. ASSUME NEW i \in 1..k PROVE q.a[i] <= q.a[k]
        <5>1. CASE i = k
          BY <3>1, <3>4, <5>1
        <5>2. CASE i # k
          <6>1. i \in 1..k - 1 /\ i \in 1..n
            BY <5>2
          <6> QED BY <3>1, <3>2, <3>4, <4>2, <6>1
        <5> QED BY <5>1, <5>2
      <4>4. ASSUME ~q.unsorted PROVE q.a = b /\ \A i \in 2..k : b[i] >= b[i - 1]
        <5>1. q.a = b /\ \A i \in 2..k - 1 : b[i] >= b[i - 1]
          BY <3>2, <4>4
        <5>2. b[k] >= b[k - 1]
          BY <1>2, <3>4, <4>2, <5>1
        <5>3. \A i \in 2..k : i = k \/ i \in 2..k - 1
          OBVIOUS
        <5> QED BY <5>1, <5>2, <5>3
      <4> QED BY <3>1, <3>2, <3>5, <4>1, <4>3, <4>4
    <3> QED BY <3>6, <3>7
  <2> QED BY <2>2, <2>3
<1> DEFINE S == {k \in 0..n : good(k)}
<1>5. 0 \in S /\ \A k \in 1..n : k - 1 \in S => k \in S
  <2> HIDE DEF good
  <2> QED BY <1>3, <1>4
<1>6. \A k \in 0..n : good(k)
  <2> HIDE DEF S
  <2>1. \A k \in 0..n : k \in S
    BY <1>5, EachUpTo
  <2> HIDE DEF good
  <2> QED BY <2>1 DEF S
<1>7. n \in 0..n /\ t[n] \in Acc(n)
  OBVIOUS
<1>8. ASSUME ~t[n].unsorted PROVE t[n].a = b /\ Settled(n, b, 0)
  <2>1. t[n].a = b /\ \A i \in 2..n : b[i] >= b[i - 1]
    BY <1>6, <1>7, <1>8
  <2>2. \A i, j \in 1..n : i < j => b[i] <= b[j]
    BY <1>7, <2>1, StepwiseSorted
  <2> QED BY <2>1, <2>2 DEF Settled
<1>9. ASSUME NEW m \in 1..n, Settled(n, b, m) PROVE Settled(n, t[n].a, m - 1)
  <2> DEFINE kept(k) == k >= m => /\ \A i \in 1..m : t[k].a[i] = t[m].a[i]
                                  /\ \A j \in m + 1..n : t[k].a[j] = b[j]
  <2>1. /\ \A i \in 1..m : t[m].a[i] <= t[m].a[m] /\ \E l \in 1..m : t[m].a[i] = b[l]
        /\ \A j \in m + 1..n : t[m].a[j] = b[j]
        /\ t[m].a \in Arrays(n)
    <3>1. m \in 0..n /\ good(m)
      BY <1>6
    <3>2. \A j \in m + 1..n : j \in 1..n /\ j \notin 1..m
      OBVIOUS
    <3> QED BY <3>1, <3>2 DEF Rearranged
  <2>2. ASSUME NEW k \in 1..n, kept(k - 1) PROVE kept(k)
    <3>1. CASE k <= m
      <4>1. k >= m => k = m
        BY <3>1
      <4> QED BY <2>1, <4>1
    <3>2. CASE k > m
      <4>1. k - 1 >= m /\ k > 1 /\ k \in m + 1..n /\ k - 1 \in 1..n /\ k - 1 \in 0..n /\ m \in 1..m
        BY <3>2
      <4>2. /\ \A i \in 1..m : t[k - 1].a[i] = t[m].a[i]
            /\ \A j \in m + 1..n : t[k - 1].a[j] = b[j]
        BY <2>2, <4>1
      <4>3. t[k - 1].a[k] = b[k]
        BY <4>1, <4>2
      <4>4. \E l \in 1..n : l < k /\ t[k - 1].a[k - 1] = b[l]
        <5>1. CASE k - 1 = m
          <6>1. t[k - 1].a[k - 1] = t[m].a[m]
            BY <5>1
          <6>2. PICK l \in 1..m : t[m].a[m] = b[l]
            BY <2>1, <4>1
          <6>3. l \in 1..n /\ l < k
            BY <3>2
          <6> QED BY <6>1, <6>2, <6>3
        <5>2. CASE k - 1 # m
          <6>1. k - 1 \in m + 1..n
            BY <4>1, <5>2
          <6>2. t[k - 1].a[k - 1] = b[k - 1]
            BY <4>2, <6>1
          <6> QED BY <4>1, <6>2
        <5> QED BY <5>1, <5>2
      <4>5. t[k - 1].a[k - 1] <= t[k - 1].a[k]
        <5>1. PICK l \in 1..n : l < k /\ t[k - 1].a[k - 1] = b[l]
          BY <4>4
        <5>2. b[l] <= b[k]
          BY <1>9, <4>1, <5>1 DEF Settled
        <5> QED BY <4>3, <5>1, <5>2
      <4>6. ~(t[k - 1].a[k] < t[k - 1].a[k - 1])
        <5>1. t[k - 1].a[k] \in Int /\ t[k - 1].a[k - 1] \in Int
          BY <4>1 DEF Acc, Arrays, ArrayOf!SortingAssumption
        <5> QED BY <4>5, <5>1
      <4>7. t[k] = t[k - 1]
        <5>1. t[k] = Compared(t[k - 1], k)
          BY <1>1, <4>1 DEF Passes
        <5> QED BY <4>6, <5>1 DEF Compared
      <4> QED BY <4>2, <4>7
    <3> QED BY <3>1, <3>2
  <2>3. kept(0)
    OBVIOUS
  <2> DEFINE T == {k \in 0..n : kept(k)}
  <2>4. 0 \in T /\ \A k \in 1..n : k - 1 \in T => k \in T
    <3> HIDE DEF kept
    <3> QED BY <2>2, <2>3
  <2>5. kept(n)
    <3> HIDE DEF T
    <3>1. \A k \in 0..n : k \in T
      BY <2>4, EachUpTo
    <3> HIDE DEF kept
    <3> QED BY <1>7, <3>1 DEF T
  <2>6. ASSUME NEW i \in 1..n, NEW j \in m..n, i < j PROVE t[n].a[i] <= t[n].a[j]
    <3>1. CASE j = m
      <4>1. i \in 1..m /\ m \in 1..m
        BY <2>6, <3>1
      <4>2. t[n].a[i] = t[m].a[i] /\ t[n].a[m] = t[m].a[m]
        BY <2>5, <4>1
      <4>3. t[m].a[i] <= t[m].a[m]
        BY <2>1, <4>1
      <4> QED BY <3>1, <4>2, <4>3
    <3>2. CASE j > m /\ i <= m
      <4>1. i \in 1..m /\ j \in m + 1..n
        BY <3>2
      <4>2. PICK l \in 1..m : t[n].a[i] = b[l]
        BY <2>1, <2>5, <4>1
      <4>3. l \in 1..n /\ l < j
        BY <3>2
      <4>4. b[l] <= b[j]
        BY <1>9, <4>1, <4>3 DEF Settled
      <4> QED BY <2>5, <4>1, <4>2, <4>4
    <3>3. CASE j > m /\ i > m
      <4>1. i \in m + 1..n /\ j \in m + 1..n
        BY <3>3
      <4>2. b[i] <= b[j]
        BY <1>9, <2>6, <4>1 DEF Settled
      <4> QED BY <2>5, <4>1, <4>2
    <3> QED BY <3>1, <3>2, <3>3
  <2>7. (m - 1) + 1 = m
    OBVIOUS
  <2> QED BY <2>6, <2>7 DEF Settled
<1>10. Rearranged(n, b, t[n].a, 1, n) /\ (Settled(n, b, 0) => ~t[n].unsorted)
  BY <1>6, <1>7
<1> QED BY <1>1, <1>7, <1>8, <1>9, <1>10

\* The runs of sort, one by one.
AllRuns(t, b, n) ==
  /\ t[0] = [a |-> b, unsorted |-> TRUE]
  /\ \A k \in 1..n + 1 : t[k] = IF t[k - 1].unsorted THEN ArrayOf!Pass(t[k - 1].a) ELSE t[k - 1]

LEMMA RunsUp ==
  ASSUME ArrayOf!SortingAssumption, NEW n \in Nat, NEW b \in Arrays(n)
  PROVE  \E t \in [0..n + 1 -> Acc(n)] : AllRuns(t, b, n) /\ ArrayOf!Runs(b) = t[n + 1]
<1> DEFINE V == Acc(n)
           N == n + 1
           first == [a |-> b, unsorted |-> TRUE]
           next(p, k) == IF k = 0 THEN first ELSE IF p.unsorted THEN ArrayOf!Pass(p.a) ELSE p
           F == [k \in 1..N |-> [p \in V |-> next(p, k)]]
           runs == CHOOSE g : g = [k \in 0..N |-> next(g[k - 1], k)]
<1>1. Len(b) = n /\ N \in Nat
  BY ArraySeq
<1>2. first \in V
  BY DEF Acc
<1>3. \A k \in 1..N : \A p \in V : next(p, k) \in V
  <2> TAKE k \in 1..N
  <2> TAKE p \in V
  <2>1. p.a \in Arrays(n)
    BY DEF Acc
  <2>2. ArrayOf!Pass(p.a) \in V
    BY <2>1, PassDoes
  <2> HIDE DEF V, first
  <2> QED BY <2>2
<1>4. ArrayOf!Runs(b) = runs[N]
  BY <1>1 DEF ArrayOf!Runs
<1> HIDE DEF V, first, N
<1>5. F \in [1..N -> [V -> V]]
  <2> HIDE DEF next
  <2> QED BY <1>3
<1>6. \A k \in 1..N : \A p \in V : F[k][p] = next(p, k)
  OBVIOUS
<1> HIDE DEF F
<1>7. PICK g \in [0..N -> V] : Iterates(g, N, first, F)
  BY <1>1, <1>2, <1>5, Recursion
<1>8. g[0] = first /\ \A k \in 1..N : g[k] = next(g[k - 1], k)
  <2>1. \A k \in 1..N : k - 1 \in 0..N
    BY <1>1
  <2> HIDE DEF next
  <2> QED BY <1>6, <1>7, <2>1 DEF Iterates
<1>9. next(g[0 - 1], 0) = first /\ next(runs[0 - 1], 0) = first
  OBVIOUS
<1> HIDE DEF next
<1>10. g = [k \in 0..N |-> next(g[k - 1], k)]
  <2>1. \A k \in 0..N : g[k] = next(g[k - 1], k)
    BY <1>1, <1>8, <1>9
  <2> QED BY <2>1
<1>11. runs = [k \in 0..N |-> next(runs[k - 1], k)]
  BY <1>10
<1> HIDE DEF runs
<1>12. runs[0] = first /\ \A k \in 1..N : runs[k] = next(runs[k - 1], k)
  BY <1>1, <1>9, <1>11
<1>13. \A k \in 0..N : runs[k] \in V
  <2> DEFINE S == {k \in 0..N : runs[k] \in V}
  <2>1. 0 \in S /\ \A k \in 1..N : k - 1 \in S => k \in S
    BY <1>1, <1>2, <1>3, <1>12
  <2> HIDE DEF S
  <2>2. \A k \in 0..N : k \in S
    BY <1>1, <2>1, EachUpTo
  <2> QED BY <2>2 DEF S
<1>14. runs \in [0..N -> V]
  BY <1>11, <1>13
<1>15. AllRuns(runs, b, n)
  <2>1. \A k \in 1..N : k # 0
    BY <1>1
  <2> QED BY <1>12, <2>1 DEF AllRuns, next, first, N
<1> QED BY <1>4, <1>14, <1>15 DEF V, N

\* sort ends, with the elements in order.
LEMMA SortSorts ==
  ASSUME ArrayOf!SortingAssumption, NEW n \in Nat, NEW b \in Arrays(n)
  PROVE  /\ Rearranged(n, b, ArrayOf!Sort(b), 1, n)
         /\ Settled(n, ArrayOf!Sort(b), 0)
         /\ ~ArrayOf!Runs(b).unsorted
<1>1. PICK t \in [0..n + 1 -> Acc(n)] : AllRuns(t, b, n) /\ ArrayOf!Runs(b) = t[n + 1]
  BY RunsUp
<1> DEFINE good(k) ==
             /\ Rearranged(n, b, t[k].a, 1, n)
             /\ IF t[k].unsorted THEN k <= n /\ Settled(n, t[k].a, n - k) ELSE Settled(n, t[k].a, 0)
           N == n + 1
<1>2. good(0)
  <2>1. t[0].a = b /\ t[0].unsorted
    BY <1>1 DEF AllRuns
  <2>2. Rearranged(n, b, b, 1, n)
    BY RearrangedSame
  <2>3. Settled(n, b, n - 0)
    BY DEF Settled
  <2> QED BY <2>1, <2>2, <2>3
<1>3. ASSUME NEW k \in 1..N, good(k - 1) PROVE good(k)
  <2> DEFINE q == t[k - 1]
             p == ArrayOf!Pass(q.a)
  <2>1. k - 1 \in 0..n + 1 /\ q \in Acc(n)
    OBVIOUS
  <2>2. q.a \in Arrays(n)
    BY <2>1 DEF Acc
  <2>3. t[k] = IF q.unsorted THEN p ELSE q
    BY <1>1 DEF AllRuns
  <2>4. Rearranged(n, b, q.a, 1, n) /\ IF q.unsorted THEN k - 1 <= n /\ Settled(n, q.a, n - (k - 1)) ELSE Settled(n, q.a, 0)
    BY <1>3
  <2> HIDE DEF q
  <2>5. CASE ~q.unsorted
    BY <2>3, <2>4, <2>5
  <2>6. CASE q.unsorted
    <3>1. /\ p \in Acc(n)
          /\ Rearranged(n, q.a, p.a, 1, n)
          /\ ~p.unsorted => p.a = q.a /\ Settled(n, q.a, 0)
          /\ \A m \in 1..n : Settled(n, q.a, m) => Settled(n, p.a, m - 1)
          /\ Settled(n, q.a, 0) => ~p.unsorted
      BY <2>2, PassDoes
    <3>2. t[k] = p
      BY <2>3, <2>6
    <3> HIDE DEF p
    <3>3. Rearranged(n, b, p.a, 1, n)
      <4>1. 1 \in Int /\ n \in Int /\ 1 >= 1 /\ n <= n
        OBVIOUS
      <4> QED BY <2>4, <3>1, <4>1, RearrangedTwice
    <3>4. ASSUME p.unsorted PROVE k <= n /\ Settled(n, p.a, n - k)
      <4>1. n - (k - 1) # 0
        BY <2>4, <2>6, <3>1, <3>4
      <4>2. n - (k - 1) \in 1..n /\ (n - (k - 1)) - 1 = n - k /\ k <= n
        BY <2>4, <2>6, <4>1
      <4>3. Settled(n, p.a, (n - (k - 1)) - 1)
        BY <2>4, <2>6, <3>1, <4>2
      <4> QED BY <4>2, <4>3
    <3>5. ~p.unsorted => Settled(n, p.a, 0)
      BY <3>1
    <3> QED BY <3>2, <3>3, <3>4, <3>5
  <2> QED BY <2>5, <2>6
<1> DEFINE S == {k \in 0..N : good(k)}
<1>4. 0 \in S /\ \A k \in 1..N : k - 1 \in S => k \in S
  <2> HIDE DEF good
  <2> QED BY <1>2, <1>3
<1>5. good(N)
  <2> HIDE DEF S
  <2>1. N \in Nat /\ N \in 0..N
    OBVIOUS
  <2> HIDE DEF good, N
  <2>2. \A k \in 0..N : k \in S
    BY <1>4, <2>1, EachUpTo
  <2> QED BY <2>1, <2>2 DEF S
<1>6. ~(N <= n)
  OBVIOUS
<1> QED BY <1>1, <1>5, <1>6 DEF ArrayOf!Sort

---------------------------------------------------------------------------
(* quicksort: parting the elements.                                           *)

\* A part of an array that is to be sorted, and one that is.
Part(n, low, high) == low \in 1..n /\ high \in 1..n /\ low < high

Spot(n) == [a : Arrays(n), i : 0..n]

\* The loop of partition, element by element; its steps are those of the code as long as i
\* has not passed j.
Parts(t, b, n, low, high) ==
  /\ t[0] = [a |-> b, i |-> low - 1]
  /\ \A k \in 1..high - low :
       t[k] = IF t[k - 1].a[low + k - 1] < b[high]
              THEN [a |-> ArrayOf!SwapElems(t[k - 1].a, t[k - 1].i + 1, low + k - 1), i |-> t[k - 1].i + 1]
              ELSE t[k - 1]
  /\ \A k \in 0..high - low : t[k] \in Spot(n) /\ t[k].i \in low - 1..low + k - 1

LEMMA PartitionUp ==
  ASSUME NEW n \in Nat, NEW b \in Arrays(n), NEW low, NEW high, Part(n, low, high)
  PROVE  \E t : /\ Parts(t, b, n, low, high)
                /\ LET last == t[high - low]
                   IN  ArrayOf!Partition(b, low, high) = [a |-> ArrayOf!SwapElems(last.a, last.i + 1, high), i |-> last.i + 1]
<1> DEFINE V == Spot(n)
           N == high - low
           first == [a |-> b, i |-> low - 1]
           step(p, k) == IF p.a[low + k - 1] < b[high]
                         THEN [a |-> ArrayOf!SwapElems(p.a, p.i + 1, low + k - 1), i |-> p.i + 1] ELSE p
           next(p, k) == IF k = 0 THEN first ELSE step(p, k)
           F == [k \in 1..N |-> [p \in V |-> IF next(p, k) \in V THEN next(p, k) ELSE p]]
           move == CHOOSE g : g = [k \in 0..N |-> next(g[k - 1], k)]
           ok(p, k) == p \in V /\ p.i \in low - 1..low + k - 1
<1>1. N \in Nat /\ low \in Nat /\ high \in Nat /\ low \in 1..n /\ high \in 1..n /\ low < high
  BY DEF Part
<1>2. first \in V /\ ok(first, 0)
  BY <1>1 DEF Spot
<1>3. \A k \in 1..N : \A p : ok(p, k - 1) => ok(next(p, k), k)
  <2> SUFFICES ASSUME NEW k \in 1..N, NEW p, ok(p, k - 1) PROVE ok(step(p, k), k)
    OBVIOUS
  <2>1. p.a \in Arrays(n) /\ p.i \in 0..n /\ p \in V
    BY DEF Spot
  <2>2. p.i \in low - 1..low + (k - 1) - 1 /\ p.i \in Int
    BY <1>1
  <2>3. low + k - 1 \in 1..n /\ p.i + 1 \in 1..n /\ p.i + 1 \in low - 1..low + k - 1 /\ p.i \in low - 1..low + k - 1
    BY <1>1, <2>2
  <2>4. ArrayOf!SwapElems(p.a, p.i + 1, low + k - 1) \in Arrays(n)
    BY <2>1, <2>3 DEF Arrays, ArrayOf!SwapElems
  <2> DEFINE new == [a |-> ArrayOf!SwapElems(p.a, p.i + 1, low + k - 1), i |-> p.i + 1]
  <2>5. new \in V /\ new.i = p.i + 1
    BY <2>3, <2>4 DEF Spot
  <2> HIDE DEF V, new
  <2>6. ok(new, k) /\ ok(p, k)
    BY <2>1, <2>3, <2>5
  <2>7. step(p, k) = new \/ step(p, k) = p
    BY DEF new
  <2> HIDE DEF ok, step
  <2> QED BY <2>6, <2>7
<1>4. ArrayOf!Partition(b, low, high) =
        [a |-> ArrayOf!SwapElems(move[N].a, move[N].i + 1, high), i |-> move[N].i + 1]
  BY DEF ArrayOf!Partition
<1> HIDE DEF V, first, N
<1>5. F \in [1..N -> [V -> V]]
  <2> HIDE DEF next
  <2> QED OBVIOUS
<1>6. \A k \in 1..N : \A p \in V : next(p, k) \in V => F[k][p] = next(p, k)
  <2> HIDE DEF next
  <2> QED OBVIOUS
<1> HIDE DEF F
<1>7. PICK g \in [0..N -> V] : Iterates(g, N, first, F)
  BY <1>1, <1>2, <1>5, Recursion
<1>8. \A k \in 0..N : ok(g[k], k) /\ (k # 0 => g[k] = next(g[k - 1], k))
  <2> DEFINE fits(k) == ok(g[k], k) /\ (k # 0 => g[k] = next(g[k - 1], k))
             S == {k \in 0..N : fits(k)}
  <2>1. fits(0)
    BY <1>2, <1>7 DEF Iterates
  <2>2. ASSUME NEW k \in 1..N, ok(g[k - 1], k - 1) PROVE fits(k)
    <3>1. ok(next(g[k - 1], k), k)
      <4> HIDE DEF ok, next
      <4> QED BY <1>3, <2>2
    <3>2. g[k - 1] \in V /\ next(g[k - 1], k) \in V
      <4> HIDE DEF next
      <4> QED BY <2>2, <3>1
    <3>3. g[k] = next(g[k - 1], k)
      <4> HIDE DEF next
      <4> QED BY <1>6, <1>7, <3>2 DEF Iterates
    <3> HIDE DEF next, ok
    <3> QED BY <3>1, <3>3
  <2>3. 0 \in S /\ \A k \in 1..N : k - 1 \in S => k \in S
    <3> HIDE DEF ok, next
    <3> QED BY <1>1, <2>1, <2>2
  <2> HIDE DEF S
  <2>4. \A k \in 0..N : k \in S
    BY <1>1, <2>3, EachUpTo
  <2> HIDE DEF fits
  <2>5. \A k \in 0..N : fits(k)
    BY <2>4 DEF S
  <2> QED BY <2>5 DEF fits
<1>9. next(g[0 - 1], 0) = first /\ next(move[0 - 1], 0) = first /\ \A p : \A k \in 1..N : next(p, k) = step(p, k)
  BY <1>1
<1> HIDE DEF next, ok
<1>10. g = [k \in 0..N |-> next(g[k - 1], k)]
  <2>1. \A k \in 0..N : g[k] = next(g[k - 1], k)
    BY <1>1, <1>7, <1>8, <1>9 DEF Iterates
  <2> QED BY <2>1
<1>11. move = [k \in 0..N |-> next(move[k - 1], k)]
  <2>1. move = [k \in 0..N |-> next(move[k - 1], k)]
    BY <1>10
  <2> QED BY <2>1
<1> HIDE DEF move
<1>12. move[0] = first /\ \A k \in 1..N : move[k] = next(move[k - 1], k)
  BY <1>1, <1>9, <1>11
<1>13. \A k \in 0..N : ok(move[k], k)
  <2> DEFINE S == {k \in 0..N : ok(move[k], k)}
  <2>1. 0 \in S /\ \A k \in 1..N : k - 1 \in S => k \in S
    BY <1>1, <1>2, <1>3, <1>12
  <2> HIDE DEF S
  <2>2. \A k \in 0..N : k \in S
    BY <1>1, <2>1, EachUpTo
  <2> QED BY <2>2 DEF S
<1>14. Parts(move, b, n, low, high)
  BY <1>9, <1>12, <1>13 DEF Parts, ok, V, N, first
<1> QED BY <1>4, <1>14 DEF N

\* What partition does: the part is rearranged about one element of it, which is at i.
Parted(n, b, q, low, high) ==
  /\ q.i \in low..high
  /\ Rearranged(n, b, q.a, low, high)
  /\ \A x \in low..q.i - 1 : q.a[x] <= q.a[q.i]
  /\ \A x \in q.i + 1..high : q.a[q.i] <= q.a[x]

LEMMA PartitionParts ==
  ASSUME ArrayOf!SortingAssumption, NEW n \in Nat, NEW b \in Arrays(n), NEW low, NEW high, Part(n, low, high)
  PROVE  Parted(n, b, ArrayOf!Partition(b, low, high), low, high)
<1>1. PICK t : /\ Parts(t, b, n, low, high)
               /\ ArrayOf!Partition(b, low, high) =
                    [a |-> ArrayOf!SwapElems(t[high - low].a, t[high - low].i + 1, high), i |-> t[high - low].i + 1]
  BY PartitionUp
<1> DEFINE N == high - low
           pivot == b[high]
           good(k) == /\ Rearranged(n, b, t[k].a, low, high)
                      /\ t[k].a[high] = pivot
                      /\ \A x \in low..t[k].i : t[k].a[x] < pivot
                      /\ \A x \in t[k].i + 1..low + k - 1 : t[k].a[x] >= pivot
<1>2. /\ N \in Nat /\ low \in 1..n /\ high \in 1..n /\ low < high /\ high \in low..high
      /\ low \in Int /\ high \in Int /\ pivot \in Int
  <2>1. N \in Nat /\ low \in 1..n /\ high \in 1..n /\ low < high /\ high \in low..high
        /\ low \in Int /\ high \in Int
    BY DEF Part
  <2>2. pivot \in Int
    BY <2>1 DEF Arrays, ArrayOf!SortingAssumption
  <2> QED BY <2>1, <2>2
<1>3. \A k \in 0..N : t[k].a \in Arrays(n) /\ t[k].i \in Int /\ t[k].i >= low - 1 /\ t[k].i <= low + k - 1
  BY <1>1, <1>2 DEF Parts, Spot
<1>4. good(0)
  <2>1. t[0].a = b /\ t[0].i = low - 1
    BY <1>1 DEF Parts
  <2>2. Rearranged(n, b, b, low, high)
    BY RearrangedSame
  <2> QED BY <1>2, <2>1, <2>2
<1>5. ASSUME NEW k \in 1..N, good(k - 1) PROVE good(k)
  <2> DEFINE c == t[k - 1].a
             i == t[k - 1].i
             j == low + k - 1
             d == ArrayOf!SwapElems(c, i + 1, j)
  <2>1. k - 1 \in 0..N /\ k \in 0..N
    BY <1>2
  <2>2. c \in Arrays(n) /\ i \in Int /\ i >= low - 1 /\ i <= j - 1 /\ j \in low..high - 1 /\ j \in Int
    BY <1>2, <1>3, <2>1
  <2>3. /\ Rearranged(n, b, c, low, high) /\ c[high] = pivot
        /\ \A x \in low..i : c[x] < pivot
        /\ \A x \in i + 1..j - 1 : c[x] >= pivot
    <3>1. low + (k - 1) - 1 = j - 1
      BY <1>2
    <3> QED BY <1>5, <3>1
  <2>4. IF c[j] < pivot THEN t[k].a = d /\ t[k].i = i + 1 ELSE t[k].a = c /\ t[k].i = i
    <3>1. t[k] = IF c[j] < pivot THEN [a |-> d, i |-> i + 1] ELSE t[k - 1]
      BY <1>1 DEF Parts
    <3> HIDE DEF d, j
    <3> QED BY <3>1
  <2>5. \A x \in low..high : x \in 1..n /\ c[x] \in Int
    <3>1. \A x \in low..high : x \in 1..n
      BY <1>2
    <3>2. \A x \in 1..n : c[x] \in Int
      BY <2>2 DEF Arrays, ArrayOf!SortingAssumption
    <3> QED BY <3>1, <3>2
  <2> HIDE DEF c, i
  <2>6. CASE c[j] < pivot
    <3>1. i + 1 \in low..high /\ j \in low..high /\ i + 1 # high /\ j # high
      BY <1>2, <2>2
    <3>2. /\ Rearranged(n, c, d, low, high)
          /\ d[i + 1] = c[j] /\ d[j] = c[i + 1] /\ \A x \in 1..n : x # i + 1 /\ x # j => d[x] = c[x]
      BY <1>2, <2>2, <3>1, SwapRearranges
    <3> HIDE DEF d
    <3>3. Rearranged(n, b, d, low, high)
      <4>1. low >= 1 /\ high <= n /\ low >= low /\ high <= high
        BY <1>2
      <4> QED BY <1>2, <2>3, <3>2, <4>1, RearrangedTwice
    <3>4. d[high] = pivot
      BY <1>2, <2>3, <3>1, <3>2
    <3>5. ASSUME NEW x \in low..i + 1 PROVE d[x] < pivot
      <4>1. CASE x = i + 1
        BY <2>6, <3>2, <4>1
      <4>2. CASE x # i + 1
        <5>1. x \in low..i /\ x \in 1..n /\ x # j
          BY <1>2, <2>2, <4>2
        <5> QED BY <2>3, <3>2, <4>2, <5>1
      <4> QED BY <4>1, <4>2
    <3>6. ASSUME NEW x \in i + 1 + 1..j PROVE d[x] >= pivot
      <4>1. CASE x = j
        <5>1. i + 1 \in i + 1..j - 1
          BY <2>2, <4>1
        <5> QED BY <2>3, <3>2, <4>1, <5>1
      <4>2. CASE x # j
        <5>1. x \in i + 1..j - 1 /\ x \in 1..n /\ x # i + 1
          BY <1>2, <2>2, <4>2
        <5> QED BY <2>3, <3>2, <4>2, <5>1
      <4> QED BY <4>1, <4>2
    <3> HIDE DEF j
    <3>7. t[k].a = d /\ t[k].i = i + 1
      BY <2>4, <2>6
    <3> QED BY <3>3, <3>4, <3>5, <3>6, <3>7 DEF j
  <2>7. CASE ~(c[j] < pivot)
    <3>1. t[k].a = c /\ t[k].i = i
      BY <2>4, <2>7
    <3>2. j \in low..high
      BY <1>2, <2>2
    <3>3. c[j] >= pivot
      BY <1>2, <2>5, <2>7, <3>2
    <3>4. \A x \in i + 1..j : x = j \/ x \in i + 1..j - 1
      BY <2>2
    <3>5. \A x \in i + 1..j : c[x] >= pivot
      BY <2>3, <3>3, <3>4
    <3> QED BY <2>3, <3>1, <3>5
  <2> QED BY <2>6, <2>7
<1> DEFINE S == {k \in 0..N : good(k)}
<1>6. good(N)
  <2> HIDE DEF good
  <2>1. 0 \in S /\ \A k \in 1..N : k - 1 \in S => k \in S
    BY <1>2, <1>4, <1>5
  <2> HIDE DEF S, N
  <2>2. \A k \in 0..N : k \in S
    BY <1>2, <2>1, EachUpTo
  <2>3. N \in 0..N
    BY <1>2
  <2> QED BY <2>2, <2>3 DEF S
<1> DEFINE c == t[N].a
           i == t[N].i + 1
           d == ArrayOf!SwapElems(c, i, high)
<1>7. c \in Arrays(n) /\ i \in low..high /\ i \in Int /\ i - 1 = t[N].i /\ low + N - 1 = high - 1
  <2>1. N \in 0..N
    BY <1>2
  <2> QED BY <1>2, <1>3, <2>1
<1>8. /\ Rearranged(n, b, c, low, high) /\ c[high] = pivot
      /\ \A x \in low..i - 1 : c[x] < pivot
      /\ \A x \in i..high - 1 : c[x] >= pivot
  BY <1>6, <1>7
<1>9. ArrayOf!Partition(b, low, high) = [a |-> d, i |-> i]
  BY <1>1
<1> HIDE DEF c, i
<1>10. /\ Rearranged(n, c, d, low, high)
       /\ d[i] = c[high] /\ d[high] = c[i] /\ \A x \in 1..n : x # i /\ x # high => d[x] = c[x]
  BY <1>2, <1>7, SwapRearranges
<1> HIDE DEF d
<1>11. Rearranged(n, b, d, low, high)
  <2>1. low >= 1 /\ high <= n /\ low >= low /\ high <= high
    BY <1>2
  <2> QED BY <1>2, <1>8, <1>10, <2>1, RearrangedTwice
<1>12. \A x \in 1..n : c[x] \in Int
  BY <1>7 DEF Arrays, ArrayOf!SortingAssumption
<1>13. ASSUME NEW x \in low..i - 1 PROVE d[x] <= d[i]
  <2>1. x \in 1..n /\ x # i /\ x # high
    BY <1>2, <1>7
  <2>2. d[x] = c[x] /\ c[x] < pivot /\ d[i] = pivot
    BY <1>8, <1>10, <2>1
  <2> QED BY <1>2, <1>12, <2>1, <2>2
<1>14. ASSUME NEW x \in i + 1..high PROVE d[i] <= d[x]
  <2>1. CASE x = high
    <3>1. i \in i..high - 1 /\ i \in 1..n
      BY <1>2, <1>7, <2>1
    <3>2. d[x] = c[i] /\ c[i] >= pivot /\ d[i] = pivot
      BY <1>8, <1>10, <2>1, <3>1
    <3> QED BY <1>2, <1>12, <3>1, <3>2
  <2>2. CASE x # high
    <3>1. x \in i..high - 1 /\ x \in 1..n /\ x # i
      BY <1>2, <1>7, <2>2
    <3>2. d[x] = c[x] /\ c[x] >= pivot /\ d[i] = pivot
      BY <1>8, <1>10, <2>2, <3>1
    <3> QED BY <1>2, <1>12, <3>1, <3>2
  <2> QED BY <2>1, <2>2
<1> QED BY <1>7, <1>9, <1>11, <1>13, <1>14 DEF Parted

---------------------------------------------------------------------------
(* quicksort: the calls of recsort.                                           *)

Sorters(n) == [Arrays(n) -> [0..n + 1 -> [0..n -> Arrays(n)]]]

\* The calls that go k deep, for any array and any part of it.
Recs(t, n) ==
  \A k \in 0..n : \A c \in Arrays(n) : \A low \in 0..n + 1 : \A high \in 0..n :
    t[k][c][low][high] =
      IF low >= high \/ low < 1 \/ k = 0 THEN c
      ELSE t[k - 1][t[k - 1][ArrayOf!Partition(c, low, high).a][low][ArrayOf!Partition(c, low, high).i - 1]]
                   [ArrayOf!Partition(c, low, high).i + 1][high]

\* Partition leaves an array, and the two parts beside i are parts of it.
LEMMA PartitionType ==
  ASSUME ArrayOf!SortingAssumption, NEW n \in Nat, NEW c \in Arrays(n), NEW low \in 0..n + 1, NEW high \in 0..n,
         ~(low >= high \/ low < 1)
  PROVE  LET p == ArrayOf!Partition(c, low, high)
         IN  Parted(n, c, p, low, high) /\ p.a \in Arrays(n) /\ p.i \in 1..n /\ p.i - 1 \in 0..n /\ p.i + 1 \in 0..n + 1
<1> DEFINE p == ArrayOf!Partition(c, low, high)
<1>1. Part(n, low, high)
  BY DEF Part
<1>2. Parted(n, c, p, low, high)
  BY <1>1, PartitionParts
<1> HIDE DEF p
<1>3. p.a \in Arrays(n) /\ p.i \in low..high
  BY <1>2 DEF Parted, Rearranged
<1> QED BY <1>2, <1>3 DEF p

LEMMA RecSortUp ==
  ASSUME ArrayOf!SortingAssumption, NEW n \in Nat
  PROVE  \E t \in [0..n -> Sorters(n)] :
           Recs(t, n) /\ \A b \in Arrays(n) : ArrayOf!RecSort(b) = t[n][b][1][n]
<1> DEFINE V == Sorters(n)
           at(c, low, high) == ArrayOf!Partition(c, low, high)
           deeper(f, c, low, high) == f[f[at(c, low, high).a][low][at(c, low, high).i - 1]][at(c, low, high).i + 1][high]
           next(f, k) == [c \in Arrays(n) |-> [low \in 0..n + 1 |-> [high \in 0..n |->
                            IF low >= high \/ low < 1 \/ k = 0 THEN c ELSE deeper(f, c, low, high)]]]
           first == [c \in Arrays(n) |-> [low \in 0..n + 1 |-> [high \in 0..n |-> c]]]
           F == [k \in 1..n |-> [f \in V |-> next(f, k)]]
           rec == CHOOSE g : g = [k \in 0..n |-> next(g[k - 1], k)]
<1>1. first \in V
  BY DEF Sorters
<1>2. \A k \in 1..n : \A f \in V : next(f, k) \in V
  <2> SUFFICES ASSUME NEW k \in 1..n, NEW f \in V, NEW c \in Arrays(n), NEW low \in 0..n + 1, NEW high \in 0..n,
                      ~(low >= high \/ low < 1)
               PROVE  deeper(f, c, low, high) \in Arrays(n)
    <3> HIDE DEF deeper
    <3> QED BY DEF Sorters
  <2> DEFINE p == at(c, low, high)
  <2>1. p.a \in Arrays(n) /\ p.i - 1 \in 0..n /\ p.i + 1 \in 0..n + 1
    BY PartitionType
  <2> HIDE DEF p
  <2>2. \A d \in Arrays(n) : \A l \in 0..n + 1 : \A h \in 0..n : f[d][l][h] \in Arrays(n)
    <3> TAKE d \in Arrays(n)
    <3> TAKE l \in 0..n + 1
    <3>1. f \in [Arrays(n) -> [0..n + 1 -> [0..n -> Arrays(n)]]]
      BY DEF Sorters
    <3>2. f[d] \in [0..n + 1 -> [0..n -> Arrays(n)]]
      BY <3>1
    <3>3. f[d][l] \in [0..n -> Arrays(n)]
      BY <3>2
    <3> QED BY <3>3
  <2>3. f[p.a][low][p.i - 1] \in Arrays(n)
    BY <2>1, <2>2
  <2>4. f[f[p.a][low][p.i - 1]][p.i + 1][high] \in Arrays(n)
    BY <2>1, <2>2, <2>3
  <2> QED BY <2>4 DEF p
<1>3. \A b \in Arrays(n) : ArrayOf!RecSort(b) = rec[n][b][1][n]
  <2> TAKE b \in Arrays(n)
  <2>1. Len(b) = n
    BY ArraySeq
  <2> QED BY <2>1 DEF ArrayOf!RecSort, Arrays
<1>4. \A f, k : \A c \in Arrays(n) : \A low \in 0..n + 1 : \A high \in 0..n :
        next(f, k)[c][low][high] = IF low >= high \/ low < 1 \/ k = 0 THEN c ELSE deeper(f, c, low, high)
  <2> HIDE DEF deeper
  <2> QED OBVIOUS
<1>5. \A f : next(f, 0) = first
  <2> HIDE DEF deeper
  <2> QED OBVIOUS
<1> HIDE DEF V, first, next
<1>6. F \in [1..n -> [V -> V]]
  BY <1>2
<1>7. \A k \in 1..n : \A f \in V : F[k][f] = next(f, k)
  OBVIOUS
<1> HIDE DEF F
<1>8. PICK g \in [0..n -> V] : Iterates(g, n, first, F)
  BY <1>1, <1>6, Recursion
<1>9. \A k \in 0..n : g[k] = next(g[k - 1], k)
  <2>1. \A k \in 1..n : k - 1 \in 0..n
    OBVIOUS
  <2> QED BY <1>5, <1>7, <1>8, <2>1 DEF Iterates
<1>10. g = [k \in 0..n |-> next(g[k - 1], k)]
  BY <1>9
<1>11. rec = [k \in 0..n |-> next(rec[k - 1], k)]
  BY <1>10
<1> HIDE DEF rec
<1>12. \A k \in 0..n : rec[k] = next(rec[k - 1], k)
  BY <1>11
<1>13. \A k \in 0..n : rec[k] \in V
  <2> DEFINE S == {k \in 0..n : rec[k] \in V}
  <2>1. 0 \in 0..n /\ rec[0] \in V
    BY <1>1, <1>5, <1>12
  <2>2. 0 \in S /\ \A k \in 1..n : k - 1 \in S => k \in S
    BY <1>2, <1>12, <2>1
  <2> HIDE DEF S
  <2>3. \A k \in 0..n : k \in S
    BY <2>2, EachUpTo
  <2> QED BY <2>3 DEF S
<1>14. rec \in [0..n -> V]
  BY <1>11, <1>13
<1>15. Recs(rec, n)
  <2> SUFFICES ASSUME NEW k \in 0..n, NEW c \in Arrays(n), NEW low \in 0..n + 1, NEW high \in 0..n
               PROVE  rec[k][c][low][high] =
                        IF low >= high \/ low < 1 \/ k = 0 THEN c ELSE deeper(rec[k - 1], c, low, high)
    BY DEF Recs
  <2>1. rec[k] = next(rec[k - 1], k)
    BY <1>12
  <2> HIDE DEF deeper
  <2> QED BY <1>4, <2>1
<1> QED BY <1>3, <1>14, <1>15 DEF V

\* r is c with the elements from low to high in order.
SortsPart(n, c, r, low, high) ==
  /\ Rearranged(n, c, r, low, high)
  /\ \A x, y \in low..high : x < y => r[x] <= r[y]

LEMMA RecSortSorts ==
  ASSUME ArrayOf!SortingAssumption, NEW n \in Nat, NEW b \in Arrays(n)
  PROVE  Rearranged(n, b, ArrayOf!RecSort(b), 1, n) /\ Settled(n, ArrayOf!RecSort(b), 0)
<1>1. PICK t \in [0..n -> Sorters(n)] : Recs(t, n) /\ \A d \in Arrays(n) : ArrayOf!RecSort(d) = t[n][d][1][n]
  BY RecSortUp
<1> DEFINE good(k) == \A c \in Arrays(n) : \A low \in 1..n + 1 : \A high \in 0..n :
                        high - low <= k => SortsPart(n, c, t[k][c][low][high], low, high)
<1>2. ASSUME NEW k \in 0..n, k # 0 => good(k - 1) PROVE good(k)
  <2> SUFFICES ASSUME NEW c \in Arrays(n), NEW low \in 1..n + 1, NEW high \in 0..n, high - low <= k
               PROVE  SortsPart(n, c, t[k][c][low][high], low, high)
    OBVIOUS
  <2>1. low \in 0..n + 1
    OBVIOUS
  <2>5. \A x \in Arrays(n) : \A l \in 0..n + 1 : \A h \in 0..n :
          t[k][x][l][h] =
            IF l >= h \/ l < 1 \/ k = 0 THEN x
            ELSE t[k - 1][t[k - 1][ArrayOf!Partition(x, l, h).a][l][ArrayOf!Partition(x, l, h).i - 1]]
                         [ArrayOf!Partition(x, l, h).i + 1][h]
    BY <1>1 DEF Recs
  <2> DEFINE p == ArrayOf!Partition(c, low, high)
             d == t[k - 1][p.a][low][p.i - 1]
             e == t[k - 1][d][p.i + 1][high]
  <2>2. t[k][c][low][high] = IF low >= high \/ low < 1 \/ k = 0 THEN c ELSE e
    <3>1. t[k][c][low][high] =
            IF low >= high \/ low < 1 \/ k = 0 THEN c
            ELSE t[k - 1][t[k - 1][ArrayOf!Partition(c, low, high).a][low][ArrayOf!Partition(c, low, high).i - 1]]
                         [ArrayOf!Partition(c, low, high).i + 1][high]
      <4> HIDE DEF good, p, d, e
      <4> QED BY <2>5, <2>1
    <3> QED BY <3>1
  <2>3. CASE low >= high
    <3>1. t[k][c][low][high] = c
      <4> HIDE DEF e
      <4> QED BY <2>2, <2>3
    <3>2. Rearranged(n, c, c, low, high)
      BY RearrangedSame
    <3>3. \A x, y \in low..high : ~(x < y)
      BY <2>3
    <3> QED BY <3>1, <3>2, <3>3 DEF SortsPart
  <2>4. CASE ~(low >= high)
    <3>1. ~(low >= high \/ low < 1) /\ k # 0 /\ k \in 1..n /\ low \in 1..n /\ high \in 1..n /\ low < high
      BY <2>4
    <3>2. Parted(n, c, p, low, high) /\ p.a \in Arrays(n) /\ p.i \in 1..n /\ p.i - 1 \in 0..n /\ p.i + 1 \in 1..n + 1 /\ p.i \in low..high
      <4>1. Parted(n, c, p, low, high) /\ p.a \in Arrays(n) /\ p.i \in 1..n /\ p.i - 1 \in 0..n /\ p.i + 1 \in 0..n + 1
        BY <2>1, <3>1, PartitionType
      <4> HIDE DEF p
      <4> QED BY <4>1 DEF Parted
    <3>3. t[k][c][low][high] = e
      <4> HIDE DEF e
      <4> QED BY <2>2, <3>1
    <3> HIDE DEF p
    <3> DEFINE i == p.i
    <3>4. i - 1 - low <= k - 1 /\ high - (i + 1) <= k - 1 /\ i \in Int
      BY <3>1, <3>2
    <3>5. SortsPart(n, p.a, d, low, i - 1)
      <4>1. good(k - 1)
        BY <1>2, <3>1
      <4> QED BY <3>2, <3>4, <4>1
    <3> HIDE DEF d
    <3>6. SortsPart(n, d, e, i + 1, high)
      <4>1. good(k - 1) /\ d \in Arrays(n)
        BY <1>2, <3>1, <3>5 DEF SortsPart, Rearranged
      <4> QED BY <3>2, <3>4, <4>1
    <3> HIDE DEF e
    <3>7. low >= 1 /\ high <= n /\ low >= low /\ i - 1 <= high /\ i + 1 >= low /\ high <= high
          /\ low \in Int /\ high \in Int /\ i - 1 \in Int /\ i + 1 \in Int
      BY <3>1, <3>2
    <3>8. Rearranged(n, c, p.a, low, high)
      BY <3>2 DEF Parted
    <3>9. Rearranged(n, c, d, low, high)
      BY <3>5, <3>7, <3>8, RearrangedTwice DEF SortsPart
    <3>10. Rearranged(n, c, e, low, high)
      BY <3>6, <3>7, <3>9, RearrangedTwice DEF SortsPart
    <3>11. \A x \in low..i - 1 : e[x] = d[x] /\ e[x] <= p.a[i]
      <4> TAKE x \in low..i - 1
      <4>1. x \in 1..n /\ x \notin i + 1..high
        BY <3>2, <3>7
      <4>2. e[x] = d[x]
        BY <3>6, <4>1 DEF SortsPart, Rearranged
      <4>3. PICK y \in low..i - 1 : d[x] = p.a[y]
        BY <3>5 DEF SortsPart, Rearranged
      <4>4. p.a[y] <= p.a[i]
        BY <3>2 DEF Parted
      <4> QED BY <4>2, <4>3, <4>4
    <3>12. e[i] = p.a[i]
      <4>1. i \in 1..n /\ i \notin i + 1..high /\ i \notin low..i - 1
        BY <3>2, <3>7
      <4> QED BY <3>5, <3>6, <4>1 DEF SortsPart, Rearranged
    <3>13. \A y \in i + 1..high : p.a[i] <= e[y]
      <4> TAKE y \in i + 1..high
      <4>1. PICK z \in i + 1..high : e[y] = d[z]
        BY <3>6 DEF SortsPart, Rearranged
      <4>2. z \in 1..n /\ z \notin low..i - 1
        BY <3>2, <3>7
      <4>3. d[z] = p.a[z]
        BY <3>5, <4>2 DEF SortsPart, Rearranged
      <4>4. p.a[i] <= p.a[z]
        BY <3>2 DEF Parted
      <4> QED BY <4>1, <4>3, <4>4
    <3>14. \A x \in low..high : e[x] \in Int
      <4>1. e \in Arrays(n) /\ \A x \in low..high : x \in 1..n
        BY <3>7, <3>10 DEF Rearranged
      <4> QED BY <4>1 DEF Arrays, ArrayOf!SortingAssumption
    <3>15. ASSUME NEW x \in low..high, NEW y \in low..high, x < y PROVE e[x] <= e[y]
      <4>1. \/ x \in low..i - 1 /\ y \in low..i - 1
            \/ x \in low..i - 1 /\ y = i
            \/ x \in low..i - 1 /\ y \in i + 1..high
            \/ x = i /\ y \in i + 1..high
            \/ x \in i + 1..high /\ y \in i + 1..high
        BY <3>2, <3>7, <3>15
      <4>2. i \in low..high
        BY <3>2
      <4>3. CASE x \in low..i - 1 /\ y \in low..i - 1
        <5>1. d[x] <= d[y]
          BY <3>5, <3>15, <4>3 DEF SortsPart
        <5> QED BY <3>11, <4>3, <5>1
      <4>4. CASE x \in low..i - 1 /\ y = i
        BY <3>11, <3>12, <4>4
      <4>5. CASE x \in low..i - 1 /\ y \in i + 1..high
        <5>1. e[x] <= e[i] /\ e[i] <= e[y]
          BY <3>11, <3>12, <3>13, <4>5
        <5> QED BY <3>14, <4>2, <5>1
      <4>6. CASE x = i /\ y \in i + 1..high
        BY <3>12, <3>13, <4>6
      <4>7. CASE x \in i + 1..high /\ y \in i + 1..high
        BY <3>6, <3>15, <4>7 DEF SortsPart
      <4> QED BY <4>1, <4>3, <4>4, <4>5, <4>6, <4>7
    <3> QED BY <3>3, <3>10, <3>15 DEF SortsPart
  <2> QED BY <2>3, <2>4
<1> HIDE DEF good
<1>3. good(n)
  <2> DEFINE S == {k \in 0..n : good(k)}
  <2>1. 0 \in S
    BY <1>2
  <2>2. \A k \in 1..n : k - 1 \in S => k \in S
    <3> TAKE k \in 1..n
    <3>1. k \in 0..n
      OBVIOUS
    <3> QED BY <1>2, <3>1
  <2> HIDE DEF S
  <2>3. \A k \in 0..n : k \in S
    BY <2>1, <2>2, EachUpTo
  <2>4. n \in 0..n
    OBVIOUS
  <2> QED BY <2>3, <2>4 DEF S
<1>4. n - 1 <= n /\ 1 \in 1..n + 1 /\ n \in 0..n
  OBVIOUS
<1>5. SortsPart(n, b, t[n][b][1][n], 1, n)
  BY <1>3, <1>4 DEF good
<1>6. ArrayOf!RecSort(b) = t[n][b][1][n]
  BY <1>1
<1>7. SortsPart(n, b, ArrayOf!RecSort(b), 1, n)
  BY <1>5, <1>6
<1> QED BY <1>7 DEF SortsPart, Settled

---------------------------------------------------------------------------
(* searchSort: the calls of binSearch.                                        *)

Answers == {ArrayOf!Holds, ArrayOf!Fails, ArrayOf!Fault}
Finders(n) == [0..n -> [0..n -> Answers]]
Middle(start, stop) == start + (stop - start) \div 2

\* What a call answers, given the answers of the calls that go one less deep.
Halved(f, b, key, n, k, start, stop) ==
  IF stop - start = 1 THEN ArrayOf!Fails
  ELSE IF Middle(start, stop) >= n \/ k = 0 THEN ArrayOf!Fault
  ELSE IF key < b[Middle(start, stop) + 1] THEN f[start][Middle(start, stop)]
  ELSE IF key > b[Middle(start, stop) + 1] THEN f[Middle(start, stop)][stop]
  ELSE ArrayOf!Holds

LEMMA BinSearchUp ==
  ASSUME NEW n \in Nat, NEW b \in Arrays(n), NEW key
  PROVE  \E t \in [0..n -> Finders(n)] :
           /\ \A k \in 0..n : \A start \in 0..n : \A stop \in 0..n :
                t[k][start][stop] = Halved(t[k - 1], b, key, n, k, start, stop)
           /\ ArrayOf!BinSearch(b, key) = t[n][0][n]
<1> DEFINE V == Finders(n)
           next(f, k) == [start \in 0..n |-> [stop \in 0..n |-> Halved(f, b, key, n, k, start, stop)]]
           first == next([i \in {} |-> 0], 0)
           F == [k \in 1..n |-> [f \in V |-> next(f, k)]]
           find == CHOOSE g : g = [k \in 0..n |-> next(g[k - 1], k)]
<1>1. ArrayOf!BinSearch(b, key) = find[n][0][n]
  <2>1. Len(b) = n
    BY ArraySeq
  <2> QED BY <2>1 DEF ArrayOf!BinSearch, Halved, Middle
<1>2. \A f, k : \A start \in 0..n : \A stop \in 0..n : next(f, k)[start][stop] = Halved(f, b, key, n, k, start, stop)
  OBVIOUS
<1>3. \A f : next(f, 0) = first
  <2>1. \A f, g, start, stop : Halved(f, b, key, n, 0, start, stop) = Halved(g, b, key, n, 0, start, stop)
    BY DEF Halved
  <2> QED BY <2>1
<1>4. first \in V
  <2> SUFFICES ASSUME NEW start \in 0..n, NEW stop \in 0..n
               PROVE  Halved([i \in {} |-> 0], b, key, n, 0, start, stop) \in Answers
    BY DEF Finders
  <2> QED BY DEF Halved, Answers
<1>5. \A k \in 1..n : \A f \in V : next(f, k) \in V
  <2> SUFFICES ASSUME NEW k \in 1..n, NEW f \in V, NEW start \in 0..n, NEW stop \in 0..n
               PROVE  Halved(f, b, key, n, k, start, stop) \in Answers
    BY DEF Finders
  <2>1. \A x, y \in 0..n : f[x][y] \in Answers
    BY DEF Finders
  <2>2. Middle(start, stop) >= n \/ Middle(start, stop) \in 0..n
    BY DEF Middle
  <2>3. ArrayOf!Holds \in Answers /\ ArrayOf!Fails \in Answers /\ ArrayOf!Fault \in Answers
    BY DEF Answers
  <2> QED BY <2>1, <2>2, <2>3 DEF Halved
<1> HIDE DEF V, first, next
<1>6. F \in [1..n -> [V -> V]]
  BY <1>5
<1>7. \A k \in 1..n : \A f \in V : F[k][f] = next(f, k)
  OBVIOUS
<1> HIDE DEF F
<1>8. PICK g \in [0..n -> V] : Iterates(g, n, first, F)
  BY <1>4, <1>6, Recursion
<1>9. \A k \in 0..n : g[k] = next(g[k - 1], k)
  <2>1. \A k \in 1..n : k - 1 \in 0..n
    OBVIOUS
  <2> QED BY <1>3, <1>7, <1>8, <2>1 DEF Iterates
<1>10. g = [k \in 0..n |-> next(g[k - 1], k)]
  BY <1>9
<1>11. find = [k \in 0..n |-> next(find[k - 1], k)]
  BY <1>10
<1> HIDE DEF find
<1>12. \A k \in 0..n : find[k] = next(find[k - 1], k)
  BY <1>11
<1>13. \A k \in 0..n : find[k] \in V
  <2> DEFINE S == {k \in 0..n : find[k] \in V}
  <2>1. 0 \in 0..n /\ find[0] \in V
    BY <1>3, <1>4, <1>12
  <2>2. 0 \in S /\ \A k \in 1..n : k - 1 \in S => k \in S
    BY <1>5, <1>12, <2>1
  <2> HIDE DEF S
  <2>3. \A k \in 0..n : k \in S
    BY <2>2, EachUpTo
  <2> QED BY <2>3 DEF S
<1>14. find \in [0..n -> V]
  BY <1>11, <1>13
<1> QED BY <1>1, <1>2, <1>12, <1>14 DEF V

\* In an array in order, the search finds what lies behind the first element.
LEMMA BinSearchFinds ==
  ASSUME ArrayOf!SortingAssumption, NEW n \in Nat, NEW b \in Arrays(n), NEW key \in Elements, Settled(n, b, 0)
  PROVE  ArrayOf!BinSearch(b, key) =
           IF n = 0 THEN ArrayOf!Fault ELSE ArrayOf!Answer(\E i \in 2..n : b[i] = key)
<1>1. PICK t \in [0..n -> Finders(n)] :
        /\ \A k \in 0..n : \A start \in 0..n : \A stop \in 0..n :
             t[k][start][stop] = Halved(t[k - 1], b, key, n, k, start, stop)
        /\ ArrayOf!BinSearch(b, key) = t[n][0][n]
  BY BinSearchUp
<1>2. key \in Int /\ \A i \in 1..n : b[i] \in Int
  BY DEF Arrays, ArrayOf!SortingAssumption
<1>3. \A i, j \in 1..n : i <= j => b[i] <= b[j]
  <2>1. \A i, j \in 1..n : i < j => b[i] <= b[j]
    BY DEF Settled
  <2> QED BY <1>2, <2>1
<1> DEFINE lies(start, stop) == \E i \in start + 2..stop : b[i] = key
           good(k) == \A start, stop \in 0..n :
                        start < stop /\ stop - start <= k + 1 => t[k][start][stop] = ArrayOf!Answer(lies(start, stop))
<1>4. ASSUME NEW k \in 0..n, k # 0 => good(k - 1) PROVE good(k)
  <2> SUFFICES ASSUME NEW start \in 0..n, NEW stop \in 0..n, start < stop, stop - start <= k + 1
               PROVE  t[k][start][stop] = ArrayOf!Answer(lies(start, stop))
    OBVIOUS
  <2> DEFINE mid == Middle(start, stop)
             f == t[k - 1]
  <2>1. t[k][start][stop] = Halved(f, b, key, n, k, start, stop)
    BY <1>1
  <2>2. CASE stop - start = 1
    <3>1. ~lies(start, stop)
      <4>1. start + 2..stop = {}
        BY <2>2
      <4> QED BY <4>1
    <3> HIDE DEF lies
    <3> QED BY <2>1, <2>2, <3>1 DEF Halved, ArrayOf!Answer
  <2>3. CASE stop - start # 1
    <3>1. mid \in Int /\ start + 1 <= mid /\ mid <= stop - 1 /\ k # 0
      BY <2>3 DEF Middle
    <3>2. t[k][start][stop] = IF key < b[mid + 1] THEN f[start][mid]
                              ELSE IF key > b[mid + 1] THEN f[mid][stop] ELSE ArrayOf!Holds
      BY <2>1, <2>3, <3>1 DEF Halved
    <3> HIDE DEF mid, f
    <3>3. mid \in 0..n /\ mid + 1 \in 1..n /\ mid + 1 \in start + 2..stop /\ mid - start <= (k - 1) + 1 /\ stop - mid <= (k - 1) + 1
          /\ start < mid /\ mid < stop
      BY <3>1
    <3>4. f[start][mid] = ArrayOf!Answer(lies(start, mid)) /\ f[mid][stop] = ArrayOf!Answer(lies(mid, stop))
      <4>1. good(k - 1)
        BY <1>4, <3>1
      <4> HIDE DEF lies
      <4> QED BY <3>3, <4>1 DEF f
    <3>5. \A i \in start + 2..stop : i \in 1..n
      OBVIOUS
    <3>6. CASE key < b[mid + 1]
      <4>1. \A i \in start + 2..stop : b[i] = key => i \in start + 2..mid
        <5> SUFFICES ASSUME NEW i \in start + 2..stop, b[i] = key, i > mid PROVE FALSE
          BY <3>1
        <5>1. i \in 1..n /\ mid + 1 <= i
          BY <3>1, <3>5
        <5>2. b[mid + 1] <= b[i]
          BY <1>3, <3>3, <5>1
        <5> QED BY <1>2, <3>3, <3>6, <5>1, <5>2
      <4>2. \A i \in start + 2..mid : i \in start + 2..stop
        BY <3>1
      <4>3. lies(start, stop) <=> lies(start, mid)
        BY <4>1, <4>2
      <4> HIDE DEF lies
      <4> QED BY <3>2, <3>4, <3>6, <4>3 DEF ArrayOf!Answer
    <3>7. CASE key > b[mid + 1]
      <4>1. \A i \in start + 2..stop : b[i] = key => i \in mid + 2..stop
        <5> SUFFICES ASSUME NEW i \in start + 2..stop, b[i] = key, i < mid + 2 PROVE FALSE
          BY <3>1
        <5>1. i \in 1..n /\ i <= mid + 1
          BY <3>1, <3>5
        <5>2. b[i] <= b[mid + 1]
          BY <1>3, <3>3, <5>1
        <5> QED BY <1>2, <3>3, <3>7, <5>1, <5>2
      <4>2. \A i \in mid + 2..stop : i \in start + 2..stop
        BY <3>1
      <4>3. lies(start, stop) <=> lies(mid, stop)
        BY <4>1, <4>2
      <4>4. ~(key < b[mid + 1])
        BY <1>2, <3>3, <3>7
      <4> HIDE DEF lies
      <4> QED BY <3>2, <3>4, <3>7, <4>3, <4>4 DEF ArrayOf!Answer
    <3>8. CASE ~(key < b[mid + 1]) /\ ~(key > b[mid + 1])
      <4>1. b[mid + 1] = key
        BY <1>2, <3>3, <3>8
      <4>2. lies(start, stop)
        BY <3>3, <4>1
      <4> HIDE DEF lies
      <4> QED BY <3>2, <3>8, <4>2 DEF ArrayOf!Answer
    <3> QED BY <3>6, <3>7, <3>8
  <2> QED BY <2>2, <2>3
<1> HIDE DEF good
<1>5. good(n)
  <2> DEFINE S == {k \in 0..n : good(k)}
  <2>1. 0 \in S
    BY <1>4
  <2>2. \A k \in 1..n : k - 1 \in S => k \in S
    <3> TAKE k \in 1..n
    <3>1. k \in 0..n
      OBVIOUS
    <3> QED BY <1>4, <3>1
  <2> HIDE DEF S
  <2>3. \A k \in 0..n : k \in S
    BY <2>1, <2>2, EachUpTo
  <2>4. n \in 0..n
    OBVIOUS
  <2> QED BY <2>3, <2>4 DEF S
<1>6. CASE n = 0
  <2>1. t[n][0][n] = Halved(t[n - 1], b, key, n, 0, 0, 0)
    BY <1>1, <1>6
  <2>2. Middle(0, 0) >= 0
    BY DEF Middle
  <2> QED BY <1>1, <1>6, <2>1, <2>2 DEF Halved
<1>7. CASE n # 0
  <2>1. 0 \in 0..n /\ n \in 0..n /\ 0 < n /\ n - 0 <= n + 1
    BY <1>7
  <2>2. t[n][0][n] = ArrayOf!Answer(lies(0, n))
    <3> HIDE DEF lies
    <3> QED BY <1>5, <2>1 DEF good
  <2>3. lies(0, n) <=> \E i \in 2..n : b[i] = key
    OBVIOUS
  <2> HIDE DEF lies
  <2> QED BY <1>1, <1>7, <2>2, <2>3 DEF ArrayOf!Answer
<1> QED BY <1>6, <1>7

---------------------------------------------------------------------------
(* What the operations on arrays do.                                          *)

SortInv == array \in Seq(Elements)

\* Sorting a sequence leaves a sequence of the same elements, in order.
LEMMA SortedSeq ==
  ASSUME ArrayOf!SortingAssumption, NEW b \in Seq(Elements), NEW c,
         Rearranged(Len(b), b, c, 1, Len(b)), Settled(Len(b), c, 0)
  PROVE  /\ c \in Seq(Elements) /\ Len(c) = Len(b) /\ c \in Arrays(Len(b))
         /\ \A i, j \in DOMAIN c : i < j => c[i] <= c[j]
         /\ ArrayOf!Occurrences(c) = ArrayOf!Occurrences(b)
<1>1. Len(b) \in Nat
  OBVIOUS
<1>2. c \in Arrays(Len(b)) /\ ArrayOf!Occurrences(c) = ArrayOf!Occurrences(b)
  BY DEF Rearranged
<1>3. c \in Seq(Elements) /\ Len(c) = Len(b) /\ DOMAIN c = 1..Len(b)
  BY <1>1, <1>2, ArraySeq
<1>4. \A i, j \in DOMAIN c : i < j => c[i] <= c[j]
  BY <1>1, <1>3 DEF Settled
<1> QED BY <1>2, <1>3, <1>4

\* Each of the operations that sort does so.
LEMMA SortingSorts ==
  ASSUME ArrayOf!SortingAssumption, SortInv,
         ArrayOf!SortArray \/ ArrayOf!QuickSort \/ \E key \in Elements : ArrayOf!SearchSort(key)
  PROVE  /\ array' \in Seq(Elements) /\ Len(array') = Len(array)
         /\ Rearranged(Len(array), array, array', 1, Len(array)) /\ Settled(Len(array), array', 0)
<1> DEFINE n == Len(array)
<1>1. n \in Nat /\ array \in Arrays(n) /\ DOMAIN array = 1..n
  BY SeqArray DEF SortInv
<1>2. Rearranged(n, array, ArrayOf!Sort(array), 1, n) /\ Settled(n, ArrayOf!Sort(array), 0)
  BY <1>1, SortSorts
<1>3. Rearranged(n, array, ArrayOf!RecSort(array), 1, n) /\ Settled(n, ArrayOf!RecSort(array), 0)
  BY <1>1, RecSortSorts
<1>4. ArrayOf!InOrder(array) => Rearranged(n, array, array, 1, n) /\ Settled(n, array, 0)
  <2> SUFFICES ASSUME ArrayOf!InOrder(array) PROVE Rearranged(n, array, array, 1, n) /\ Settled(n, array, 0)
    OBVIOUS
  <2>1. \A i \in 2..n : array[i] >= array[i - 1]
    BY DEF ArrayOf!InOrder
  <2>2. n \in 0..n
    BY <1>1
  <2> HIDE DEF n
  <2>3. \A i, j \in 1..n : i < j => array[i] <= array[j]
    BY <1>1, <2>1, <2>2, StepwiseSorted
  <2>4. Settled(n, array, 0)
    BY <2>3 DEF Settled
  <2> QED BY <1>1, <2>4, RearrangedSame
<1>5. array' \in {ArrayOf!Sort(array), ArrayOf!RecSort(array)} \/ (ArrayOf!InOrder(array) /\ array' = array)
  BY DEF ArrayOf!SortArray, ArrayOf!QuickSort, ArrayOf!SearchSort
<1>6. Rearranged(n, array, array', 1, n) /\ Settled(n, array', 0)
  <2> HIDE DEF n
  <2> QED BY <1>2, <1>3, <1>4, <1>5
<1>7. array \in Seq(Elements)
  BY DEF SortInv
<1> QED BY <1>6, <1>7, SortedSeq

LEMMA SortStep ==
  ASSUME ArrayOf!SortingAssumption, SortInv, [ArrayOf!Next]_ArrayOf!vars
  PROVE  SortInv'
<1>1. CASE ArrayOf!SortArray \/ ArrayOf!QuickSort \/ \E key \in Elements : ArrayOf!SearchSort(key)
  BY <1>1, SortingSorts DEF SortInv
<1>2. CASE ArrayOf!CheckSorted
  BY <1>2 DEF ArrayOf!CheckSorted, SortInv
<1>3. CASE \E key \in Elements : ArrayOf!Search(key)
  BY <1>3 DEF ArrayOf!Search, SortInv
<1>4. CASE UNCHANGED ArrayOf!vars
  BY <1>4 DEF ArrayOf!vars, SortInv
<1> QED BY <1>1, <1>2, <1>3, <1>4 DEF ArrayOf!Next

\* SortsAndSearchesCorrect: arrays of any length are sorted by both sorts, with the same
\* elements in order, the runs of sort end, and the halving search finds what lies behind the
\* first element (sort, quicksort, searchSort, binSearch).
THEOREM SortsAndSearchesCorrect ==
  ASSUME ArrayOf!SortingAssumption
  PROVE  ArrayOf!Spec => SortsAndSearches
<1> DEFINE Sorting == ArrayOf!SortArray \/ ArrayOf!QuickSort \/ \E key \in Elements : ArrayOf!SearchSort(key)
           SortedNow == /\ \A i, j \in DOMAIN array' : i < j => array'[i] <= array'[j]
                        /\ ArrayOf!Occurrences(array') = ArrayOf!Occurrences(array)
                        /\ ~ArrayOf!Runs(array).unsorted
           FoundNow(key) == sortAnswer' = IF array = <<>> THEN ArrayOf!Fault
                                          ELSE ArrayOf!Answer(\E i \in 2..Len(array') : array'[i] = key)
<1>1. ArrayOf!Init => SortInv
  BY DEF ArrayOf!Init, SortInv, ArrayOf!BoundedSeq, ArrayOf!SeqOf
<1>2. SortInv /\ [ArrayOf!Next]_ArrayOf!vars => SortInv'
  BY SortStep
<1>3. ASSUME SortInv, Sorting PROVE SortedNow
  <2>1. array \in Seq(Elements) /\ Len(array) \in Nat /\ array \in Arrays(Len(array))
    BY <1>3, SeqArray DEF SortInv
  <2>2. Rearranged(Len(array), array, array', 1, Len(array)) /\ Settled(Len(array), array', 0)
    BY <1>3, SortingSorts
  <2>3. ~ArrayOf!Runs(array).unsorted
    BY <2>1, SortSorts
  <2> QED BY <2>1, <2>2, <2>3, SortedSeq
<1>4. ASSUME SortInv, NEW key \in Elements, ArrayOf!SearchSort(key) PROVE FoundNow(key)
  <2>1. array \in Seq(Elements) /\ Len(array) \in Nat
    BY <1>4 DEF SortInv
  <2>2. Rearranged(Len(array), array, array', 1, Len(array)) /\ Settled(Len(array), array', 0) /\ Len(array') = Len(array)
    BY <1>4, SortingSorts
  <2>3. sortAnswer' = ArrayOf!BinSearch(array', key)
    BY <1>4 DEF ArrayOf!SearchSort
  <2>4. array' \in Arrays(Len(array))
    BY <2>2 DEF Rearranged
  <2>5. ArrayOf!BinSearch(array', key) =
          IF Len(array) = 0 THEN ArrayOf!Fault ELSE ArrayOf!Answer(\E i \in 2..Len(array) : array'[i] = key)
    <3>1. \A n \in Nat : \A b \in Arrays(n) : Settled(n, b, 0) =>
            ArrayOf!BinSearch(b, key) = IF n = 0 THEN ArrayOf!Fault ELSE ArrayOf!Answer(\E i \in 2..n : b[i] = key)
      BY BinSearchFinds
    <3> HIDE DEF FoundNow, SortedNow, Sorting
    <3> QED BY <2>1, <2>2, <2>4, <3>1
  <2>6. array = <<>> <=> Len(array) = 0
    BY <2>1
  <2> QED BY <2>2, <2>3, <2>5, <2>6
<1>5. SortInv => [Sorting => SortedNow]_ArrayOf!vars
  BY <1>3
<1>6. SortInv => [\A key \in Elements : ArrayOf!SearchSort(key) => FoundNow(key)]_ArrayOf!vars
  <2> HIDE DEF FoundNow
  <2> QED BY <1>4
<1> QED BY <1>1, <1>2, <1>5, <1>6, PTL DEF ArrayOf!Spec, SortsAndSearches, ArrayOf!Sorts, ArrayOf!Searches
=============================================================================
