--------------------------- MODULE RecordsProofs ---------------------------
(* Proofs about Inheritance, that Records implements it for any number of     *)
(* records and every kind of program, that the properties of a record fill    *)
(* the slots of its objects, and that a new object has all its values.        *)
EXTENDS Records, Recursion, FiniteSetTheorems, TLAPS

---------------------------------------------------------------------------
(* A record not begun extends nothing; as long as a record is not defined,    *)
(* child_record_count tells whether any extends it.                           *)

Unbegun == \A n \in Names : n \notin Begun => base[n] = None

Counted ==
  \A n \in Names : state[n] # "defined" /\ children[n] = 0 => \A m \in Names : base[m] # n

RInv == TypeOK /\ Unbegun /\ Counted

\* The initial state satisfies the invariant (init_ast_parser: no record is known).
LEMMA InitInv == Init => RInv
BY NoneAssumption DEF Init, RInv, TypeOK, Unbegun, Counted, Begun, Uses

\* Steps that leave the declarations alone, as all but Mention, Begin and End do.
LEMMA SameInv ==
  ASSUME RInv, UNCHANGED <<state, base, use, children>>,
         linked' \subseteq Names, phase' \in {"parsing", "rejected", "done"}
  PROVE  RInv'
BY DEF RInv, TypeOK, Unbegun, Counted, Begun, Uses

\* Linking stays among the records.
LEMMA LinkType ==
  ASSUME TypeOK, NEW ns \in SUBSET Names, Link(ns)
  PROVE  linked' \subseteq Names
BY DEF TypeOK, Link, Ancestors

\* A mention adds a prototype and nothing else (ast_parser_decl_record).
LEMMA MentionInv == ASSUME RInv, NEW n \in Names, Mention(n) PROVE RInv'
BY NoneAssumption DEF RInv, TypeOK, Unbegun, Counted, Begun, Uses, Mention, Mentioned, layout, Parsing

\* A record that begins counts as a child of the one it extends, unless that is complete.
LEMMA BeginInv ==
  ASSUME RInv, NEW n \in Names, NEW u \in Uses, NEW b \in Names \cup {None}, Begin(n, u, b)
  PROVE  RInv'
<1>1. TypeOK'
  BY DEF RInv, TypeOK, Begin, Mentioned, layout, Parsing
<1>2. Unbegun'
  BY DEF RInv, TypeOK, Unbegun, Begun, Begin, Mentioned
<1>3. Counted'
  <2> SUFFICES ASSUME NEW m \in Names, state'[m] # "defined", children'[m] = 0, NEW l \in Names
               PROVE  base'[l] # m
    BY DEF Counted
  <2>1. state[m] # "defined" /\ children[m] = 0 /\ m # b
    BY NoneAssumption DEF RInv, TypeOK, Begin, Mentioned, MayBegin
  <2> QED BY <2>1 DEF RInv, TypeOK, Counted, Begin
<1> QED BY <1>1, <1>2, <1>3 DEF RInv

\* The end of a record's body makes it defined.
LEMMA EndInv == ASSUME RInv, NEW n \in Names, End(n) PROVE RInv'
BY DEF RInv, TypeOK, Unbegun, Counted, Begun, Uses, End, Open, layout, Parsing

\* No other step touches the declarations.
LEMMA OthersKeep ==
  ASSUME RInv, Within, \A n \in Names : ~End(n)
  PROVE  RInv' /\ UNCHANGED <<state, base, use, children>>
<1>1. CASE \E n \in Names, p \in family.props :
             Override(n, p) \/ \E defer, value \in BOOLEAN : DeclProp(n, p, defer, value)
  <2>1. UNCHANGED <<state, base, use, children, linked, phase>>
    BY <1>1 DEF Override, DeclProp, layout
  <2> QED BY <2>1, SameInv DEF RInv, TypeOK
<1>2. CASE \E n \in Names, ps \in InitLists \cup {<<>>}, braces \in BOOLEAN : Create(n, ps, braces)
  <2> PICK n \in Names, ps \in InitLists \cup {<<>>}, braces \in BOOLEAN : Create(n, ps, braces)
    BY <1>2
  <2>1. UNCHANGED <<state, base, use, children, phase>> /\ Link({n})
    BY DEF Create
  <2> QED BY <2>1, LinkType, SameInv DEF RInv, TypeOK
<1>3. CASE Finish
  <2>1. UNCHANGED <<state, base, use, children>> /\ phase' = "done" /\ Link(Mentions)
    BY <1>3 DEF Finish
  <2>2. Mentions \in SUBSET Names
    BY DEF Mentions
  <2> QED BY <2>1, <2>2, LinkType, SameInv DEF RInv, TypeOK
<1>4. CASE Reject
  BY <1>4, SameInv DEF RInv, TypeOK, Reject, layout
<1> QED
  BY <1>1, <1>2, <1>3, <1>4 DEF Within, RejectBegin, RejectItem, RejectCreate, RejectFinish

\* The invariant holds of every program.
LEMMA Invariance == Spec => []RInv
<1>1. RInv /\ [Next]_vars => RInv'
  <2> SUFFICES ASSUME RInv, [Next]_vars PROVE RInv' OBVIOUS
  <2>1. CASE \E n \in Names : Mention(n)
    BY <2>1, MentionInv
  <2>2. CASE \E n \in Names, u \in Uses, b \in Names \cup {None} : Begin(n, u, b)
    BY <2>2, BeginInv
  <2>3. CASE \E n \in Names : End(n)
    BY <2>3, EndInv
  <2>4. CASE Within /\ \A n \in Names : ~End(n)
    BY <2>4, OthersKeep
  <2>5. CASE UNCHANGED vars
    BY <2>5, SameInv DEF vars, layout, RInv, TypeOK
  <2> QED BY <2>1, <2>2, <2>3, <2>4, <2>5 DEF Next, Within
<1> QED BY <1>1, InitInv, PTL DEF Spec

\* TypeCorrect: prototypes keep their types in every program (ast_record_proto_t).
THEOREM TypeCorrect == Spec => []TypeOK
BY Invariance, PTL DEF RInv

---------------------------------------------------------------------------
(* What Inheritance promises, whoever implements it.                          *)

VARIABLES parent, sealed

Abstract == INSTANCE Inheritance

ParentsOK ==
  /\ DOMAIN parent \subseteq Names
  /\ \A n \in DOMAIN parent : parent[n] \in Names \cup {None}
  /\ sealed \subseteq DOMAIN parent

AbstractInv == ParentsOK /\ Abstract!FinalIsLeaf /\ Abstract!Forest

LEMMA AbstractInit == Abstract!Init => AbstractInv
BY DEF Abstract!Init, AbstractInv, ParentsOK, Abstract!FinalIsLeaf, Abstract!Forest

\* The records above b are closed under parent, and in every closed set that holds b.
LEMMA AboveClosed ==
  ASSUME ParentsOK, NEW b \in Names
  PROVE  /\ b \in Abstract!Above(b)
         /\ \A m \in Abstract!Above(b) \cap DOMAIN parent : parent[m] # None => parent[m] \in Abstract!Above(b)
         /\ \A S \in SUBSET Names :
              b \in S /\ (\A m \in S \cap DOMAIN parent : parent[m] # None => parent[m] \in S) => Abstract!Above(b) \subseteq S
BY DEF ParentsOK, Abstract!Above

\* A declaration keeps final records childless: a record is final only if none extends
\* it, and a final one is not extended (use_reqs, child_record_count).
LEMMA DeclareLeaf ==
  ASSUME AbstractInv, NEW n \in Names, NEW b \in Names \cup {None}, NEW final \in BOOLEAN, Abstract!Declare(n, b, final)
  PROVE  ParentsOK' /\ Abstract!FinalIsLeaf'
<1>1. DOMAIN parent' = DOMAIN parent \cup {n} /\ parent'[n] = b
  BY DEF Abstract!Declare
<1>2. \A m \in DOMAIN parent : parent'[m] = parent[m]
  BY DEF Abstract!Declare
<1>3. ParentsOK'
  BY <1>1, <1>2 DEF AbstractInv, ParentsOK, Abstract!Declare
<1>4. \A m \in DOMAIN parent' : parent'[m] \notin sealed'
  <2> SUFFICES ASSUME NEW m \in DOMAIN parent' PROVE parent'[m] \notin sealed' OBVIOUS
  <2>1. CASE m = n
    <3>1. b \notin sealed
      BY NoneAssumption DEF AbstractInv, ParentsOK, Abstract!Declare
    <3>2. b # n
      BY NoneAssumption, AboveClosed DEF AbstractInv, Abstract!Declare
    <3> QED BY <2>1, <1>1, <3>1, <3>2 DEF Abstract!Declare
  <2>2. CASE m # n
    BY <2>2, <1>1, <1>2 DEF AbstractInv, Abstract!FinalIsLeaf, Abstract!Declare
  <2> QED BY <2>1, <2>2
<1> QED BY <1>3, <1>4 DEF Abstract!FinalIsLeaf

\* A declaration closes no circle: a set all of whose records extend one of its own
\* would hold n and b, hence all that is above b, which is a smaller set of that kind.
LEMMA DeclareForest ==
  ASSUME AbstractInv, NEW n \in Names, NEW b \in Names \cup {None}, NEW final \in BOOLEAN, Abstract!Declare(n, b, final)
  PROVE  Abstract!Forest'
<1> SUFFICES ASSUME NEW S \in SUBSET DOMAIN parent', S # {}, \A m \in S : parent'[m] \in S
             PROVE  FALSE
  BY DEF Abstract!Forest
<1>1. /\ DOMAIN parent' = DOMAIN parent \cup {n} /\ parent'[n] = b /\ n \notin DOMAIN parent
      /\ \A m \in DOMAIN parent : parent'[m] = parent[m]
  BY DEF Abstract!Declare
<1>2. n \in S
  <2> SUFFICES ASSUME n \notin S PROVE FALSE OBVIOUS
  <2> QED BY <1>1 DEF AbstractInv, Abstract!Forest
<1>3. S \subseteq Names
  BY <1>1 DEF AbstractInv, ParentsOK
<1>4. b \in S /\ b \in Names /\ b # None
  BY <1>1, <1>2, <1>3, NoneAssumption
<1>5. Abstract!Above(b) \subseteq S
  BY <1>1, <1>3, <1>4, AboveClosed DEF AbstractInv
<1>6. Abstract!Above(b) \subseteq DOMAIN parent /\ Abstract!Above(b) # {}
  BY <1>1, <1>4, <1>5, AboveClosed DEF AbstractInv, Abstract!Declare
<1>7. PICK m \in Abstract!Above(b) : parent[m] \notin Abstract!Above(b)
  BY <1>6 DEF AbstractInv, Abstract!Forest
<1>8. parent[m] \in S
  BY <1>1, <1>5, <1>6, <1>7
<1>9. parent[m] # None
  BY <1>3, <1>8, NoneAssumption
<1> QED BY <1>4, <1>6, <1>7, <1>9, AboveClosed DEF AbstractInv

LEMMA AbstractInvariance == Abstract!Spec => []AbstractInv
<1>1. AbstractInv /\ [Abstract!Next]_Abstract!vars => AbstractInv'
  <2> SUFFICES ASSUME AbstractInv, [Abstract!Next]_Abstract!vars PROVE AbstractInv' OBVIOUS
  <2>1. CASE Abstract!Next
    BY <2>1, DeclareLeaf, DeclareForest DEF Abstract!Next, AbstractInv
  <2>2. CASE UNCHANGED Abstract!vars
    BY <2>2 DEF Abstract!vars, AbstractInv, ParentsOK, Abstract!FinalIsLeaf, Abstract!Forest
  <2> QED BY <2>1, <2>2
<1> QED BY <1>1, AbstractInit, PTL DEF Abstract!Spec

\* FinalStaysLeaf: no final record ever has a child, whichever was declared first.
THEOREM FinalStaysLeaf == Abstract!Spec => []Abstract!FinalIsLeaf
BY AbstractInvariance, PTL DEF AbstractInv

\* AlwaysForest: the records never form a circle, so that every walk from a record to
\* the one it extends, of which the compiler and the runtime are full, ends.
THEOREM AlwaysForest == Abstract!Spec => []Abstract!Forest
BY AbstractInvariance, PTL DEF AbstractInv

---------------------------------------------------------------------------
(* Refinement.                                                                *)

\* The two closures agree, since what has not begun extends nothing.
LEMMA SameAbove ==
  ASSUME RInv, NEW b \in Names
  PROVE  Inherits!Above(b) = Ancestors(b)
<1> DEFINE closed(S) == \A m \in S : base[m] # None => base[m] \in S
           above(S) == \A m \in S \cap DOMAIN [n \in Begun |-> base[n]] :
                         [n \in Begun |-> base[n]][m] # None => [n \in Begun |-> base[n]][m] \in S
<1>1. \A S \in SUBSET Names : closed(S) <=> above(S)
  BY DEF RInv, Unbegun, Begun
<1> QED BY <1>1 DEF Inherits!Above, Ancestors

\* A record that begins is declared; every guard of the declaration follows.
LEMMA BeginDeclares ==
  ASSUME RInv, NEW n \in Names, NEW u \in Uses, NEW b \in Names \cup {None}, Begin(n, u, b)
  PROVE  Inherits!Declare(n, b, u = "final")
<1>1. n \notin Begun
  BY DEF Begin, MayBegin, Begun
<1>2. b # None => b \notin {m \in Begun : use[m] = "final"} /\ n \notin Inherits!Above(b)
  BY SameAbove DEF Begin, MayBegin, Begun, Open, Circular
<1>3. u = "final" => \A m \in Begun : base[m] # n
  BY DEF Begin, MayBegin, RInv, Counted, Begun
<1>4. Begun' = Begun \cup {n}
  BY DEF RInv, TypeOK, Begin, Mentioned, MayBegin, Begun
<1>5. \A m \in Begun' : base'[m] = IF m = n THEN b ELSE base[m]
  BY <1>4 DEF RInv, TypeOK, Begin, Begun
<1>6. {m \in Begun' : use'[m] = "final"} =
        IF u = "final" THEN {m \in Begun : use[m] = "final"} \cup {n} ELSE {m \in Begun : use[m] = "final"}
  BY <1>1, <1>4 DEF RInv, TypeOK, Begin, Begun
<1> QED BY <1>1, <1>2, <1>3, <1>4, <1>5, <1>6 DEF Inherits!Declare

\* Any step that keeps the declarations keeps what Inheritance sees of them.
LEMMA SameInherits ==
  ASSUME Begun' = Begun, UNCHANGED <<base, use>>
  PROVE  UNCHANGED Inherits!vars
BY DEF Inherits!vars

\* RecordsImplementInheritance: in every program, however its declarations are ordered,
\* the records form a forest in which no final record has a child.
THEOREM RecordsImplementInheritance == Spec => ImplementsInheritance
<1>1. Init => Inherits!Init
  BY DEF Init, Inherits!Init, Begun
<1>2. RInv /\ [Next]_vars => [Inherits!Next]_Inherits!vars
  <2> SUFFICES ASSUME RInv, [Next]_vars PROVE [Inherits!Next]_Inherits!vars OBVIOUS
  <2>1. CASE \E n \in Names : Mention(n)
    BY <2>1, SameInherits DEF RInv, TypeOK, Mention, Mentioned, Begun
  <2>2. CASE \E n \in Names, u \in Uses, b \in Names \cup {None} : Begin(n, u, b)
    BY <2>2, BeginDeclares DEF Inherits!Next
  <2>3. CASE \E n \in Names : End(n)
    BY <2>3, SameInherits DEF RInv, TypeOK, End, Open, Begun
  <2>4. CASE Within /\ \A n \in Names : ~End(n)
    BY <2>4, OthersKeep, SameInherits DEF Begun
  <2>5. CASE UNCHANGED vars
    BY <2>5, SameInherits DEF vars, Begun
  <2> QED BY <2>1, <2>2, <2>3, <2>4, <2>5 DEF Next, Within
<1> QED BY <1>1, <1>2, Invariance, PTL DEF Spec, Inherits!Spec, ImplementsInheritance

---------------------------------------------------------------------------
(* Ancestors and offsets.                                                     *)

\* Going up from any record ends.
Forest == \A S \in SUBSET Names : S # {} => \E n \in S : base[n] \notin S

Item(f) == [name : f.props, id : Nat, defer : BOOLEAN]

ItemsOK ==
  /\ props \in [Names -> Seq(Item(family))]
  /\ offset \in [Names -> Nat]

\* The records above b are closed under base, and in every closed set that holds b.
LEMMA AncestorsClosed ==
  ASSUME TypeOK, NEW b \in Names
  PROVE  /\ b \in Ancestors(b) /\ Ancestors(b) \subseteq Names
         /\ \A m \in Ancestors(b) : base[m] # None => base[m] \in Ancestors(b)
         /\ \A S \in SUBSET Names :
              b \in S /\ (\A m \in S : base[m] # None => base[m] \in S) => Ancestors(b) \subseteq S
BY DEF TypeOK, Ancestors

\* The records above one that extends b are itself and those above b.
LEMMA AncestorsUp ==
  ASSUME TypeOK, NEW n \in Names
  PROVE  Ancestors(n) = IF base[n] = None THEN {n} ELSE {n} \cup Ancestors(base[n])
<1>1. CASE base[n] = None
  <2>1. {n} \in SUBSET Names /\ \A m \in {n} : base[m] # None => base[m] \in {n}
    BY <1>1
  <2>2. Ancestors(n) \subseteq {n} /\ n \in Ancestors(n)
    BY <2>1, AncestorsClosed
  <2> QED BY <1>1, <2>2
<1>2. CASE base[n] # None
  <2>1. base[n] \in Names
    BY <1>2 DEF TypeOK
  <2>2. Ancestors(base[n]) \subseteq Ancestors(n)
    BY <1>2, <2>1, AncestorsClosed
  <2>3. Ancestors(n) \subseteq {n} \cup Ancestors(base[n])
    <3> DEFINE S == {n} \cup Ancestors(base[n])
    <3>1. S \in SUBSET Names /\ n \in S /\ \A m \in S : base[m] # None => base[m] \in S
      BY <2>1, AncestorsClosed
    <3> HIDE DEF S
    <3>2. Ancestors(n) \subseteq S
      BY <3>1, AncestorsClosed
    <3> QED BY <3>2 DEF S
  <2> QED BY <1>2, <2>2, <2>3, AncestorsClosed
<1> QED BY <1>1, <1>2

\* g is defined by Z on the records that extend nothing, by G from what it is on the
\* record extended on the others.
Unfolds(g, Z, G) == \A m \in Names : g[m] = IF base[m] = None THEN Z[m] ELSE G[m][g[base[m]]]

\* What is defined from the records that extend nothing downward is defined.
LEMMA ForestRecursion ==
  ASSUME TypeOK, Forest, NEW V, NEW Z \in [Names -> V], NEW G \in [Names -> [V -> V]]
  PROVE  \E g \in [Names -> V] : Unfolds(g, Z, G)
<1> DEFINE Step(g, m) == IF base[m] = None THEN Z[m] ELSE G[m][g[base[m]]]
           Good(D, g) == /\ \A m \in D : base[m] # None => base[m] \in D
                         /\ \A m \in D : g[m] = Step(g, m)
<1>0. /\ \A m \in Names : base[m] = None \/ base[m] \in Names
      /\ \A m \in Names : Z[m] \in V /\ \A v \in V : G[m][v] \in V
  BY DEF TypeOK
<1>1. ASSUME NEW D \in SUBSET Names, NEW g \in [D -> V], Good(D, g),
             NEW E \in SUBSET Names, NEW h \in [E -> V], Good(E, h)
      PROVE  \A m \in D \cap E : g[m] = h[m]
  <2> DEFINE T == {m \in D \cap E : g[m] # h[m]}
  <2> SUFFICES ASSUME T # {} PROVE FALSE OBVIOUS
  <2>1. PICK m \in T : base[m] \notin T
    BY DEF Forest
  <2>2. m \in Names /\ m \in D /\ m \in E /\ g[m] # h[m] /\ g[m] = Step(g, m) /\ h[m] = Step(h, m)
    BY <1>1
  <2>3. CASE base[m] = None
    BY <2>2, <2>3
  <2>4. CASE base[m] # None
    <3>1. base[m] \in D /\ base[m] \in E
      BY <1>1, <2>2, <2>4
    <3>2. g[base[m]] = h[base[m]]
      BY <2>1, <3>1
    <3> QED BY <2>2, <2>4, <3>2
  <2> QED BY <2>3, <2>4
<1>2. \A m \in Names : \E D \in SUBSET Names : m \in D /\ \E g \in [D -> V] : Good(D, g)
  <2> DEFINE T == {m \in Names : ~\E D \in SUBSET Names : m \in D /\ \E g \in [D -> V] : Good(D, g)}
  <2> HIDE DEF Good
  <2> SUFFICES ASSUME T # {} PROVE FALSE OBVIOUS
  <2>1. PICK m \in T : base[m] \notin T
    BY DEF Forest
  <2> USE DEF Good
  <2>2. m \in Names OBVIOUS
  <2>3. CASE base[m] = None
    <3> DEFINE g == [x \in {m} |-> Z[x]]
    <3>1. g \in [{m} -> V] /\ Good({m}, g)
      BY <1>0, <2>2, <2>3
    <3> HIDE DEF g
    <3> QED BY <2>2, <3>1
  <2>4. CASE base[m] # None
    <3>1. base[m] \in Names
      BY <1>0, <2>2, <2>4
    <3>2. PICK D \in SUBSET Names : base[m] \in D /\ \E g \in [D -> V] : Good(D, g)
      BY <2>1, <3>1
    <3>3. PICK g \in [D -> V] : Good(D, g)
      BY <3>2
    <3>4. m \notin D
      BY <3>3
    <3> DEFINE h == [x \in D \cup {m} |-> IF x = m THEN Step(g, m) ELSE g[x]]
    <3>5. h \in [D \cup {m} -> V]
      BY <1>0, <2>2, <2>4, <3>1, <3>2
    <3>6. \A x \in D \cup {m} : base[x] # None => base[x] \in D
      BY <2>2, <2>4, <3>2, <3>3
    <3>7. \A x \in D \cup {m} : h[x] = Step(g, x)
      BY <3>3, <3>4
    <3>8. \A x \in D : h[x] = g[x]
      BY <3>4
    <3> HIDE DEF h
    <3>9. Good(D \cup {m}, h)
      BY <3>6, <3>7, <3>8
    <3> QED BY <2>2, <3>5, <3>9
  <2> QED BY <2>3, <2>4
<1> DEFINE value(m) == CHOOSE v \in V : \E D \in SUBSET Names : m \in D /\ \E g \in [D -> V] : Good(D, g) /\ g[m] = v
           f == [m \in Names |-> value(m)]
<1>3. ASSUME NEW D \in SUBSET Names, NEW g \in [D -> V], Good(D, g)
      PROVE  \A m \in D : f[m] = g[m]
  <2> HIDE DEF Good
  <2> SUFFICES ASSUME NEW m \in D PROVE f[m] = g[m] OBVIOUS
  <2>1. g[m] \in V /\ \E E \in SUBSET Names : m \in E /\ \E h \in [E -> V] : Good(E, h) /\ h[m] = g[m]
    BY <1>3
  <2>2. \A v \in V : (\E E \in SUBSET Names : m \in E /\ \E h \in [E -> V] : Good(E, h) /\ h[m] = v) => v = g[m]
    <3> SUFFICES ASSUME NEW E \in SUBSET Names, m \in E, NEW h \in [E -> V], Good(E, h)
                 PROVE  h[m] = g[m]
      OBVIOUS
    <3> QED BY <1>1, <1>3
  <2> QED BY <2>1, <2>2
<1>4. \A m \in Names : f[m] \in V /\ f[m] = Step(f, m)
  <2> SUFFICES ASSUME NEW m \in Names PROVE f[m] \in V /\ f[m] = Step(f, m) OBVIOUS
  <2> HIDE DEF Good, f
  <2>1. PICK D \in SUBSET Names : m \in D /\ \E g \in [D -> V] : Good(D, g)
    BY <1>2
  <2>2. PICK g \in [D -> V] : Good(D, g)
    BY <2>1
  <2>3. \A x \in D : f[x] = g[x]
    BY <1>3, <2>2
  <2> QED BY <2>1, <2>2, <2>3 DEF Good
<1>5. f \in [Names -> V]
  <2> HIDE DEF value
  <2>1. \A m \in Names : value(m) \in V
    <3> SUFFICES ASSUME NEW m \in Names PROVE value(m) \in V OBVIOUS
    <3>1. f[m] = value(m)
      OBVIOUS
    <3>2. f[m] \in V
      BY <1>4
    <3> QED BY <3>1, <3>2
  <2> QED BY <2>1
<1> HIDE DEF f
<1> QED BY <1>4, <1>5 DEF Unfolds

\* What LinkedOffset computes is, for every record, what it says: the recursion up the
\* base records ends (ast_postproc_link_record).
LEMMA OffsetUp ==
  ASSUME TypeOK, Forest, ItemsOK, NEW n \in Names
  PROVE  /\ LinkedOffset(n) \in Nat
         /\ LinkedOffset(n) = IF n \in linked THEN offset[n]
                              ELSE IF base[n] = None THEN 0
                              ELSE LinkedOffset(base[n]) + Len(props[base[n]])
<1> DEFINE Step(g, m) == IF m \in linked THEN offset[m]
                         ELSE IF base[m] = None THEN 0
                         ELSE g[base[m]] + Len(props[base[m]])
           Z == [m \in Names |-> IF m \in linked THEN offset[m] ELSE 0]
           G == [m \in Names |-> [v \in Nat |->
                   IF m \in linked THEN offset[m] ELSE IF base[m] = None THEN 0 ELSE v + Len(props[base[m]])]]
           at == CHOOSE g : g = [m \in Names |-> Step(g, m)]
<1>0. /\ \A m \in Names : base[m] = None \/ base[m] \in Names
      /\ \A m \in Names : offset[m] \in Nat /\ Len(props[m]) \in Nat
  BY DEF TypeOK, ItemsOK
<1>1. Z \in [Names -> Nat] /\ G \in [Names -> [Nat -> Nat]]
  BY <1>0
<1>2. /\ \A m \in Names : Z[m] = IF m \in linked THEN offset[m] ELSE 0
      /\ \A m \in Names : \A v \in Nat : base[m] # None =>
           G[m][v] = IF m \in linked THEN offset[m] ELSE v + Len(props[base[m]])
  OBVIOUS
<1> HIDE DEF Z, G
<1>3. PICK g \in [Names -> Nat] : Unfolds(g, Z, G)
  BY <1>1, ForestRecursion
<1>4. \A m \in Names : g[m] = Step(g, m)
  BY <1>0, <1>2, <1>3 DEF Unfolds
<1>5. g = [m \in Names |-> Step(g, m)]
  BY <1>4
<1>6. at = [m \in Names |-> Step(at, m)]
  BY <1>5
<1>7. \A m \in Names : LinkedOffset(m) = at[m]
  BY DEF LinkedOffset
<1> HIDE DEF at
<1>8. \A m \in Names : at[m] = Step(at, m)
  BY <1>6
<1>9. at[n] \in Nat
  <2> DEFINE T == {m \in Names : at[m] \notin Nat}
  <2> SUFFICES ASSUME T # {} PROVE FALSE
    OBVIOUS
  <2>1. PICK m \in T : base[m] \notin T
    BY DEF Forest
  <2> QED BY <1>0, <1>8, <2>1
<1> QED BY <1>0, <1>7, <1>8, <1>9

---------------------------------------------------------------------------
(* The layout of objects.                                                     *)

\* What a record extends has been mentioned at least.
Known == \A n \in Names : base[n] # None => state[base[n]] # "unknown"

\* A linked record is complete, what it extends is linked, and its own properties come
\* after those of what it extends.
LinkedUp ==
  \A n \in linked :
    /\ state[n] = "defined"
    /\ base[n] # None => base[n] \in linked
    /\ offset[n] = IF base[n] = None THEN 0 ELSE offset[base[n]] + Len(props[base[n]])

\* Properties are numbered in the order they are declared, from the offset of their
\* record on once it is linked.
Numbered ==
  \A n \in Names : \A i \in DOMAIN props[n] :
    props[n][i].id = (i - 1) + IF n \in linked THEN offset[n] ELSE 0

LInv == Forest /\ ItemsOK /\ Known /\ LinkedUp /\ Numbered

\* At first there are no records.
LEMMA InitLayout == Init => LInv
<1> SUFFICES ASSUME Init PROVE LInv OBVIOUS
<1>1. Forest
  BY NoneAssumption DEF Init, Forest
<1>2. ItemsOK
  BY DEF Init, ItemsOK
<1>3. Known /\ LinkedUp /\ Numbered
  BY DEF Init, Known, LinkedUp, Numbered
<1> QED BY <1>1, <1>2, <1>3 DEF LInv

\* Steps that neither extend a record, nor declare a property, nor link.
LEMMA SameLayout ==
  ASSUME LInv, TypeOK, UNCHANGED <<family, base, props, offset, linked>>,
         \A n \in Names : /\ state[n] = "defined" => state'[n] = "defined"
                          /\ state[n] # "unknown" => state'[n] # "unknown"
  PROVE  LInv'
<1>1. Forest' /\ ItemsOK' /\ Numbered'
  BY DEF LInv, Forest, ItemsOK, Numbered
<1>2. Known'
  BY DEF LInv, Known, TypeOK
<1>3. LinkedUp'
  BY DEF LInv, LinkedUp, TypeOK
<1> QED BY <1>1, <1>2, <1>3 DEF LInv

\* A record that begins closes no circle: a set all of whose records extend one of its
\* own would hold it and what it extends, hence all that is above, which is a smaller
\* set of that kind (the circularity loop of parse_statment).
LEMMA BeginLayout ==
  ASSUME LInv, RInv, NEW n \in Names, NEW u \in Uses, NEW b \in Names \cup {None}, Begin(n, u, b)
  PROVE  LInv'
<1>0. /\ TypeOK /\ UNCHANGED <<family, props, offset, linked>>
      /\ \A m \in Names : base'[m] = IF m = n THEN b ELSE base[m]
      /\ state[n] \in {"unknown", "mentioned"} /\ n \notin linked
      /\ \A m \in Names : /\ state[m] = "defined" => state'[m] = "defined"
                          /\ state[m] # "unknown" => state'[m] # "unknown"
      /\ b # None => b # n /\ n \notin Ancestors(b) /\ state'[b] # "unknown"
  <2>1. /\ TypeOK /\ UNCHANGED <<family, props, offset, linked>>
        /\ \A m \in Names : base'[m] = IF m = n THEN b ELSE base[m]
        /\ state[n] \in {"unknown", "mentioned"}
        /\ b # None => n \notin Ancestors(b)
    BY DEF RInv, TypeOK, Begin, MayBegin, Circular, bodies, layout
  <2>2. n \notin linked
    BY <2>1 DEF LInv, LinkedUp
  <2>3. b # None => b # n
    BY <2>1, AncestorsClosed
  <2>4. \A m \in Names : state'[m] = IF m = n THEN "open"
                                     ELSE IF b # None /\ state[b] = "unknown" /\ m = b THEN "mentioned" ELSE state[m]
    BY <2>1 DEF Begin, Mentioned, TypeOK
  <2> QED BY <2>1, <2>2, <2>3, <2>4
<1>1. Forest'
  <2> SUFFICES ASSUME NEW S \in SUBSET Names, S # {}, \A m \in S : base'[m] \in S
               PROVE  FALSE
    BY DEF Forest
  <2>1. n \in S /\ b \in S /\ b \in Names /\ b # None
    BY <1>0, NoneAssumption DEF LInv, Forest
  <2>2. b \in Ancestors(b) /\ Ancestors(b) \subseteq Names
        /\ \A m \in Ancestors(b) : base[m] # None => base[m] \in Ancestors(b)
    BY <1>0, <2>1, AncestorsClosed
  <2>3. PICK m \in Ancestors(b) \cap S : base[m] \notin Ancestors(b) \cap S
    <3>1. Ancestors(b) \cap S \in SUBSET Names /\ Ancestors(b) \cap S # {}
      BY <2>1, <2>2
    <3> QED BY <3>1 DEF LInv, Forest
  <2>4. m # n /\ base'[m] = base[m]
    BY <1>0, <2>1, <2>3
  <2>5. base[m] \in S /\ base[m] # None
    BY <2>3, <2>4, NoneAssumption
  <2> QED BY <2>2, <2>3, <2>5
<1>2. ItemsOK' /\ Numbered'
  BY <1>0 DEF LInv, ItemsOK, Numbered
<1>3. Known'
  BY <1>0 DEF LInv, Known, TypeOK
<1>4. LinkedUp'
  BY <1>0 DEF LInv, LinkedUp, TypeOK
<1> QED BY <1>1, <1>2, <1>3, <1>4 DEF LInv

LEMMA Appended ==
  ASSUME NEW T, NEW t \in Seq(T), NEW e \in T
  PROVE  /\ Append(t, e) \in Seq(T) /\ Len(t) \in Nat /\ DOMAIN t = 1 .. Len(t)
         /\ DOMAIN Append(t, e) = 1 .. Len(t) + 1
         /\ \A i \in 1 .. Len(t) : Append(t, e)[i] = t[i]
         /\ Append(t, e)[Len(t) + 1] = e
OBVIOUS

LEMMA Renumbered ==
  ASSUME NEW P, NEW r \in [name : P, id : Nat, defer : BOOLEAN], NEW k \in Nat
  PROVE  /\ [r EXCEPT !.id = @ + k] \in [name : P, id : Nat, defer : BOOLEAN]
         /\ [r EXCEPT !.id = @ + k].id = r.id + k
<1> DEFINE s == [r EXCEPT !.id = @ + k]
<1>1. r.name \in P /\ r.id \in Nat /\ r.defer \in BOOLEAN /\ r = [name |-> r.name, id |-> r.id, defer |-> r.defer]
  OBVIOUS
<1>2. s = [name |-> r.name, id |-> r.id + k, defer |-> r.defer]
  BY <1>1
<1> QED BY <1>1, <1>2

\* A property is declared in a record that is open, hence not linked, nor is any that
\* extends it; its number is its position.
LEMMA DeclPropLayout ==
  ASSUME LInv, TypeOK, NEW n \in Names, NEW p \in family.props, NEW defer \in BOOLEAN, NEW value \in BOOLEAN,
         DeclProp(n, p, defer, value)
  PROVE  LInv'
<1> DEFINE new == [name |-> p, id |-> Len(props[n]), defer |-> defer]
<1>0. /\ UNCHANGED <<family, state, base, offset, linked>> /\ state[n] = "open"
      /\ props' = [props EXCEPT ![n] = Append(props[n], new)]
  BY DEF DeclProp, Open, layout
<1>1. /\ props[n] \in Seq(Item(family)) /\ Len(props[n]) \in Nat /\ new \in Item(family)
  <2>1. n \in Names /\ props[n] \in Seq(Item(family))
    BY DEF LInv, ItemsOK
  <2>2. Len(props[n]) \in Nat
    BY <2>1
  <2> QED BY <2>1, <2>2 DEF Item
<1>2. /\ \A m \in Names : props'[m] = IF m = n THEN Append(props[n], new) ELSE props[m]
      /\ Append(props[n], new) \in Seq(Item(family))
  BY <1>0, <1>1, Appended DEF LInv, ItemsOK
<1>a. /\ DOMAIN props[n] = 1 .. Len(props[n]) /\ DOMAIN Append(props[n], new) = 1 .. Len(props[n]) + 1
      /\ \A i \in 1 .. Len(props[n]) : Append(props[n], new)[i] = props[n][i]
      /\ Append(props[n], new)[Len(props[n]) + 1] = new
  BY <1>1, Appended
<1> HIDE DEF new
<1>3. n \notin linked /\ \A m \in linked : base[m] # n
  BY <1>0, NoneAssumption DEF LInv, LinkedUp
<1>4. ItemsOK'
  <2>1. props' \in [Names -> Seq(Item(family))]
    BY <1>0, <1>2 DEF LInv, ItemsOK
  <2> QED BY <1>0, <2>1 DEF LInv, ItemsOK
<1>5. Numbered'
  <2> SUFFICES ASSUME NEW m \in Names, NEW i \in DOMAIN props'[m]
               PROVE  props'[m][i].id = (i - 1) + IF m \in linked THEN offset[m] ELSE 0
    BY <1>0 DEF Numbered
  <2>1. CASE m = n
    <3>1. /\ i \in 1 .. Len(props[n]) + 1 /\ DOMAIN props[n] = 1 .. Len(props[n])
          /\ props'[m][i] = IF i = Len(props[n]) + 1 THEN new ELSE props[n][i]
      <4>1. props'[m] = Append(props[n], new)
        BY <1>2, <2>1
      <4>2. i \in 1 .. Len(props[n]) + 1
        BY <1>a, <4>1
      <4>3. i # Len(props[n]) + 1 => i \in 1 .. Len(props[n])
        BY <1>1, <4>2
      <4> QED BY <1>a, <4>1, <4>2, <4>3
    <3>2. CASE i = Len(props[n]) + 1
      <4>1. props'[m][i].id = Len(props[n])
        BY <3>1, <3>2 DEF new
      <4> QED BY <1>1, <1>3, <2>1, <3>2, <4>1
    <3>3. CASE i # Len(props[n]) + 1
      <4>1. i \in DOMAIN props[n] /\ props'[m][i] = props[n][i]
        BY <1>1, <3>1, <3>3
      <4> QED BY <2>1, <4>1 DEF LInv, Numbered
    <3> QED BY <3>2, <3>3
  <2>2. CASE m # n
    BY <1>2, <2>2 DEF LInv, Numbered
  <2> QED BY <2>1, <2>2
<1>6. Forest' /\ Known'
  BY <1>0 DEF LInv, Forest, Known
<1>7. LinkedUp'
  BY <1>0, <1>2, <1>3 DEF LInv, LinkedUp, TypeOK
<1> QED BY <1>4, <1>5, <1>6, <1>7 DEF LInv

\* Linking numbers the properties of the records not linked yet, each after those of
\* the record it extends, whether that one was linked before or is linked now.
LEMMA LinkLayout ==
  ASSUME LInv, TypeOK, NEW ns \in SUBSET Names, Link(ns), UNCHANGED <<family, state, base>>,
         \A m \in (UNION {Ancestors(n) : n \in ns}) \ linked : state[m] = "defined"
  PROVE  LInv'
<1> DEFINE new == (UNION {Ancestors(n) : n \in ns}) \ linked
           moved(m) == [i \in DOMAIN props[m] |-> [props[m][i] EXCEPT !.id = @ + LinkedOffset(m)]]
<1>0. /\ offset' = [m \in Names |-> IF m \in new THEN LinkedOffset(m) ELSE offset[m]]
      /\ props' = [m \in Names |-> IF m \in new THEN moved(m) ELSE props[m]]
      /\ linked' = linked \cup new
      /\ new \subseteq Names /\ linked \subseteq Names
  BY AncestorsClosed DEF Link, TypeOK
<1>1. \A m \in linked' : base[m] # None => base[m] \in linked'
  <2> SUFFICES ASSUME NEW m \in new, base[m] # None PROVE base[m] \in linked'
    BY <1>0 DEF LInv, LinkedUp
  <2>1. PICK n \in ns : m \in Ancestors(n)
    OBVIOUS
  <2>2. base[m] \in Ancestors(n)
    BY <2>1, AncestorsClosed
  <2> QED BY <1>0, <2>2
<1>2. \A m \in Names : /\ LinkedOffset(m) \in Nat
                       /\ LinkedOffset(m) = IF m \in linked THEN offset[m]
                                            ELSE IF base[m] = None THEN 0
                                            ELSE LinkedOffset(base[m]) + Len(props[base[m]])
  BY OffsetUp DEF LInv
<1>3. \A m \in new : state[m] = "defined" /\ m \notin linked
  OBVIOUS
<1> HIDE DEF new
<1>4. \A m \in linked' : offset'[m] = LinkedOffset(m)
  BY <1>0, <1>2, <1>3
<1>5. \A m \in Names : /\ props[m] \in Seq(Item(family)) /\ DOMAIN props[m] = 1 .. Len(props[m])
                       /\ Len(props[m]) \in Nat /\ offset[m] \in Nat
                       /\ \A i \in DOMAIN props[m] : props[m][i] \in Item(family)
  BY DEF LInv, ItemsOK
<1>6. \A m \in Names : /\ moved(m) \in Seq(Item(family)) /\ Len(moved(m)) = Len(props[m])
                       /\ DOMAIN moved(m) = DOMAIN props[m]
                       /\ \A i \in DOMAIN props[m] : moved(m)[i].id = props[m][i].id + LinkedOffset(m)
  <2> SUFFICES ASSUME NEW m \in Names
               PROVE  /\ moved(m) \in Seq(Item(family)) /\ Len(moved(m)) = Len(props[m])
                      /\ DOMAIN moved(m) = DOMAIN props[m]
                      /\ \A i \in DOMAIN props[m] : moved(m)[i].id = props[m][i].id + LinkedOffset(m)
    OBVIOUS
  <2>1. ASSUME NEW i \in DOMAIN props[m]
        PROVE  /\ [props[m][i] EXCEPT !.id = @ + LinkedOffset(m)] \in Item(family)
               /\ [props[m][i] EXCEPT !.id = @ + LinkedOffset(m)].id = props[m][i].id + LinkedOffset(m)
    <3>1. props[m][i] \in Item(family) /\ LinkedOffset(m) \in Nat
      BY <1>2, <1>5
    <3> QED BY <3>1, Renumbered DEF Item
  <2>2. moved(m) \in [1 .. Len(props[m]) -> Item(family)] /\ Len(props[m]) \in Nat /\ DOMAIN props[m] = 1 .. Len(props[m])
    BY <1>5, <2>1
  <2>3. \A i \in DOMAIN props[m] : moved(m)[i].id = props[m][i].id + LinkedOffset(m)
    BY <2>1
  <2> HIDE DEF moved
  <2> QED BY <2>2, <2>3
<1> HIDE DEF moved
<1>7. \A m \in Names : Len(props'[m]) = Len(props[m]) /\ DOMAIN props'[m] = DOMAIN props[m]
  BY <1>0, <1>6
<1>8. ItemsOK'
  <2>1. props' \in [Names -> Seq(Item(family))]
    BY <1>0, <1>5, <1>6
  <2>2. offset' \in [Names -> Nat]
    BY <1>0, <1>2, <1>5
  <2> QED BY <2>1, <2>2 DEF ItemsOK
<1>9. LinkedUp'
  <2> SUFFICES ASSUME NEW m \in linked'
               PROVE  /\ state[m] = "defined"
                      /\ base[m] # None => base[m] \in linked'
                      /\ offset'[m] = IF base[m] = None THEN 0 ELSE offset'[base[m]] + Len(props'[base[m]])
    BY DEF LinkedUp
  <2>1. state[m] = "defined"
    BY <1>0, <1>3 DEF LInv, LinkedUp
  <2>2. CASE base[m] = None
    BY <1>0, <1>2, <1>4, <2>1, <2>2 DEF LInv, LinkedUp
  <2>3. CASE base[m] # None
    <3>1. base[m] \in linked' /\ base[m] \in Names /\ m \in Names
      BY <1>0, <1>1, <2>3
    <3>2. offset'[base[m]] = LinkedOffset(base[m]) /\ Len(props'[base[m]]) = Len(props[base[m]])
      BY <1>4, <1>7, <3>1
    <3>3. LinkedOffset(m) = LinkedOffset(base[m]) + Len(props[base[m]])
      <4>1. CASE m \in linked
        <5>1. base[m] \in linked /\ offset[m] = offset[base[m]] + Len(props[base[m]])
          BY <2>3, <4>1 DEF LInv, LinkedUp
        <5> QED BY <1>2, <3>1, <4>1, <5>1
      <4>2. CASE m \notin linked
        BY <1>2, <2>3, <3>1, <4>2
      <4> QED BY <4>1, <4>2
    <3> QED BY <1>4, <2>1, <2>3, <3>1, <3>2, <3>3
  <2> QED BY <2>2, <2>3
<1>10. Numbered'
  <2> SUFFICES ASSUME NEW m \in Names, NEW i \in DOMAIN props[m]
               PROVE  props'[m][i].id = (i - 1) + IF m \in linked' THEN offset'[m] ELSE 0
    BY <1>7 DEF Numbered
  <2>1. i \in Nat /\ props[m][i].id = (i - 1) + IF m \in linked THEN offset[m] ELSE 0
    BY <1>5 DEF LInv, Numbered
  <2>2. CASE m \in new
    <3>1. props'[m] = moved(m) /\ m \notin linked /\ m \in linked' /\ offset'[m] = LinkedOffset(m)
      BY <1>0, <1>3, <1>4, <2>2
    <3> QED BY <1>2, <1>6, <2>1, <3>1
  <2>3. CASE m \notin new
    <3>1. props'[m] = props[m] /\ offset'[m] = offset[m] /\ (m \in linked' <=> m \in linked)
      BY <1>0, <2>3
    <3> QED BY <2>1, <3>1
  <2> QED BY <2>2, <2>3
<1>11. Forest' /\ Known'
  BY DEF LInv, Forest, Known
<1> QED BY <1>8, <1>9, <1>10, <1>11 DEF LInv

\* Every step keeps the layout.
LEMMA LayoutStep ==
  ASSUME RInv, LInv, [Next]_vars
  PROVE  LInv'
<1>0. TypeOK
  BY DEF RInv
<1>1. CASE \E n \in Names : Mention(n)
  BY <1>0, <1>1, SameLayout DEF Mention, Mentioned, bodies, layout, TypeOK
<1>2. CASE \E n \in Names, u \in Uses, b \in Names \cup {None} : Begin(n, u, b)
  BY <1>2, BeginLayout
<1>3. CASE \E n \in Names : End(n)
  BY <1>0, <1>3, SameLayout DEF End, bodies, layout, TypeOK
<1>4. CASE \E n \in Names, p \in family.props : Override(n, p)
  BY <1>0, <1>4, SameLayout DEF Override, layout
<1>5. CASE \E n \in Names, p \in family.props, defer, value \in BOOLEAN : DeclProp(n, p, defer, value)
  BY <1>0, <1>5, DeclPropLayout
<1>6. CASE \E n \in Names, ps \in InitLists \cup {<<>>}, braces \in BOOLEAN : Create(n, ps, braces)
  <2> PICK n \in Names, ps \in InitLists \cup {<<>>}, braces \in BOOLEAN : Create(n, ps, braces)
    BY <1>6
  <2>1. Link({n}) /\ UNCHANGED <<family, state, base>> /\ Linkable(n)
    BY DEF Create, MayCreate
  <2>2. {n} \in SUBSET Names /\ UNION {Ancestors(m) : m \in {n}} = Ancestors(n)
    OBVIOUS
  <2> QED BY <1>0, <2>1, <2>2, LinkLayout DEF Linkable
<1>7. CASE Finish
  <2>1. Link(Mentions) /\ UNCHANGED <<family, state, base>> /\ \A n \in Mentions : state[n] = "defined"
    BY <1>7 DEF Finish
  <2>2. Mentions \in SUBSET Names /\ \A m \in Mentions : base[m] # None => base[m] \in Mentions
    BY <1>0 DEF Mentions, LInv, Known, TypeOK
  <2>3. \A n \in Mentions : Ancestors(n) \subseteq Mentions
    BY <1>0, <2>2, AncestorsClosed
  <2> QED BY <1>0, <2>1, <2>2, <2>3, LinkLayout
<1>8. CASE Reject
  BY <1>0, <1>8, SameLayout DEF Reject, bodies, layout
<1>9. CASE UNCHANGED vars
  BY <1>0, <1>9, SameLayout DEF vars, bodies, layout
<1> QED
  BY <1>1, <1>2, <1>3, <1>4, <1>5, <1>6, <1>7, <1>8, <1>9
  DEF Next, Within, RejectBegin, RejectItem, RejectCreate, RejectFinish

LEMMA LayoutInvariance == Spec => []LInv
<1>1. RInv /\ LInv /\ [Next]_vars => LInv'
  BY LayoutStep
<1> QED BY <1>1, InitLayout, Invariance, PTL DEF Spec

\* The slot of a property of an object.
SlotOf(r) == props[r[1]][r[2]].id

\* How many slots an object of a linked record has.
Size(n) == offset[n] + Len(props[n])

\* The slots of the properties of n are all the numbers below Size(n), once each.
Filling(n) ==
  /\ \A r \in PropsOf(n) : SlotOf(r) \in 0 .. Size(n) - 1
  /\ \A r, s \in PropsOf(n) : SlotOf(r) = SlotOf(s) => r = s
  /\ \A k \in 0 .. Size(n) - 1 : \E r \in PropsOf(n) : SlotOf(r) = k

\* The properties of a linked record fill its slots: those it inherits, the first ones,
\* and its own the others.
LEMMA LinkedFilling ==
  ASSUME TypeOK, LInv, NEW n \in linked
  PROVE  Filling(n) /\ Size(n) \in Nat
<1> DEFINE Own(m) == {<<m, i>> : i \in DOMAIN props[m]}
           Below(m) == IF base[m] = None THEN {} ELSE PropsOf(base[m])
<1>1. \A m \in linked : m \in Names /\ Len(props[m]) \in Nat /\ DOMAIN props[m] = 1 .. Len(props[m])
                        /\ offset[m] \in Nat /\ Size(m) \in Nat
  BY DEF LInv, ItemsOK, TypeOK, Size
<1>2. \A m \in linked : PropsOf(m) = Own(m) \cup Below(m)
  <2> SUFFICES ASSUME NEW m \in linked PROVE PropsOf(m) = Own(m) \cup Below(m) OBVIOUS
  <2>1. Ancestors(m) = IF base[m] = None THEN {m} ELSE {m} \cup Ancestors(base[m])
    BY <1>1, AncestorsUp
  <2> QED BY <2>1 DEF PropsOf
<1>3. \A m \in linked : \A r \in Own(m) : r[1] = m /\ r[2] \in 1 .. Len(props[m]) /\ r = <<m, r[2]>>
                                          /\ SlotOf(r) = (r[2] - 1) + offset[m]
  <2> SUFFICES ASSUME NEW m \in linked, NEW i \in DOMAIN props[m]
               PROVE  i \in 1 .. Len(props[m]) /\ props[m][i].id = (i - 1) + offset[m]
    BY DEF SlotOf
  <2> QED BY <1>1 DEF LInv, Numbered
<1> DEFINE T == {m \in linked : ~Filling(m)}
<1> HIDE DEF Own
<1> SUFFICES ASSUME T # {} PROVE FALSE
  BY <1>1
<1>4. PICK m \in T : base[m] \notin T
  <2>1. T \in SUBSET Names
    BY DEF TypeOK
  <2> HIDE DEF T
  <2> QED BY <2>1 DEF LInv, Forest
<1>5. m \in linked /\ ~Filling(m)
  OBVIOUS
<1>6. base[m] # None => base[m] \in linked /\ Filling(base[m]) /\ offset[m] = Size(base[m])
  BY <1>4, <1>5 DEF LInv, LinkedUp, Size
<1>7. base[m] = None => offset[m] = 0
  BY <1>5 DEF LInv, LinkedUp
<1> HIDE DEF T
<1>8. /\ \A r \in Below(m) : SlotOf(r) \in 0 .. offset[m] - 1
      /\ \A r, s \in Below(m) : SlotOf(r) = SlotOf(s) => r = s
      /\ \A k \in 0 .. offset[m] - 1 : \E r \in Below(m) : SlotOf(r) = k
  BY <1>6, <1>7 DEF Filling
<1>9. PICK low, len \in Nat : low = offset[m] /\ len = Len(props[m]) /\ Size(m) = low + len
  BY <1>1, <1>5 DEF Size
<1>10. \A r \in Own(m) : SlotOf(r) \in low .. low + len - 1
  BY <1>3, <1>5, <1>9
<1>11. \A r, s \in Own(m) : SlotOf(r) = SlotOf(s) => r = s
  BY <1>3, <1>5, <1>9
<1>12. \A k \in low .. low + len - 1 : \E r \in Own(m) : SlotOf(r) = k
  <2> SUFFICES ASSUME NEW k \in low .. low + len - 1 PROVE \E r \in Own(m) : SlotOf(r) = k
    OBVIOUS
  <2>1. (k - low) + 1 \in DOMAIN props[m]
    BY <1>1, <1>5, <1>9
  <2>2. <<m, (k - low) + 1>> \in Own(m)
    BY <2>1 DEF Own
  <2>3. SlotOf(<<m, (k - low) + 1>>) = k
    <3>1. SlotOf(<<m, (k - low) + 1>>) = (((k - low) + 1) - 1) + low
      BY <1>3, <1>5, <1>9, <2>2
    <3> QED BY <3>1
  <2> QED BY <2>2, <2>3
<1>13. PropsOf(m) = Own(m) \cup Below(m)
  BY <1>2, <1>5
<1> HIDE DEF Below
<1>14. \A r \in PropsOf(m) : SlotOf(r) \in 0 .. Size(m) - 1
  BY <1>8, <1>9, <1>10, <1>13
<1>15. \A r, s \in PropsOf(m) : SlotOf(r) = SlotOf(s) => r = s
  BY <1>8, <1>9, <1>10, <1>11, <1>13
<1>16. \A k \in 0 .. Size(m) - 1 : \E r \in PropsOf(m) : SlotOf(r) = k
  <2> SUFFICES ASSUME NEW k \in 0 .. Size(m) - 1 PROVE \E r \in PropsOf(m) : SlotOf(r) = k
    OBVIOUS
  <2>1. k \in 0 .. low - 1 \/ k \in low .. low + len - 1
    BY <1>9
  <2> QED BY <1>8, <1>9, <1>12, <1>13, <2>1
<1> QED BY <1>5, <1>14, <1>15, <1>16 DEF Filling

\* A record whose slots are filled has so many properties.
LEMMA FillingCounts ==
  ASSUME NEW n \in Names, Filling(n), Size(n) \in Nat
  PROVE  Cardinality(PropsOf(n)) = Size(n)
<1> DEFINE P == PropsOf(n)
           slots == 0 .. Size(n) - 1
           f == [k \in slots |-> CHOOSE r \in P : SlotOf(r) = k]
<1>1. \A k \in slots : f[k] \in P /\ SlotOf(f[k]) = k
  BY DEF Filling
<1>2. f \in Bijection(slots, P)
  <2>1. f \in [slots -> P]
    BY <1>1
  <2>2. \A k, l \in slots : f[k] = f[l] => k = l
    BY <1>1
  <2>3. \A r \in P : \E k \in slots : f[k] = r
    BY <1>1 DEF Filling
  <2> HIDE DEF f, P, slots
  <2> QED BY <2>1, <2>2, <2>3 DEF Bijection, Injection, Surjection, IsInjective
<1>3. IsFiniteSet(slots) /\ Cardinality(slots) = Size(n)
  BY FS_Interval
<1> HIDE DEF f, P, slots
<1>4. Cardinality(P) = Cardinality(slots)
  BY <1>2, <1>3, FS_Bijection DEF ExistsBijection
<1> QED BY <1>3, <1>4 DEF P

\* LayoutCorrect: in every program the properties of a linked record fill the slots of its
\* objects, those it inherits first, whatever the order in which records are declared,
\* created and linked.
THEOREM LayoutCorrect == Spec => []Layout
<1>1. TypeOK /\ LInv => Layout
  <2> SUFFICES ASSUME TypeOK, LInv, NEW n \in linked
               PROVE  /\ {[q \in PropsOf(n) |-> SlotOf(q)][r] : r \in PropsOf(n)} = 0 .. Cardinality(PropsOf(n)) - 1
                      /\ base[n] # None => base[n] \in linked
    BY DEF Layout, SlotOf
  <2>1. Filling(n) /\ Size(n) \in Nat
    BY LinkedFilling
  <2>2. Cardinality(PropsOf(n)) = Size(n)
    BY <2>1, FillingCounts DEF TypeOK
  <2>3. {SlotOf(r) : r \in PropsOf(n)} = 0 .. Size(n) - 1
    BY <2>1 DEF Filling
  <2> QED BY <2>2, <2>3 DEF LInv, LinkedUp
<1> QED BY <1>1, LayoutInvariance, Invariance, PTL DEF RInv

---------------------------------------------------------------------------
(* What a new object starts with.                                             *)

\* The records a chain goes through are the record and those above it, from it upward.
LEMMA ChainUp ==
  ASSUME TypeOK, Forest, NEW n \in Names
  PROVE  /\ Chain(n) \in Seq(Names)
         /\ Chain(n) = IF base[n] = None THEN <<n>> ELSE <<n>> \o Chain(base[n])
<1> DEFINE Step(g, m) == IF base[m] = None THEN <<m>> ELSE <<m>> \o g[base[m]]
           V == Seq(Names)
           Z == [m \in Names |-> <<m>>]
           G == [m \in Names |-> [v \in V |-> <<m>> \o v]]
           up == CHOOSE g : g = [m \in Names |-> Step(g, m)]
<1>0. \A m \in Names : base[m] = None \/ base[m] \in Names
  BY DEF TypeOK
<1>1. Z \in [Names -> V] /\ G \in [Names -> [V -> V]]
  OBVIOUS
<1>2. /\ \A m \in Names : Z[m] = <<m>>
      /\ \A m \in Names : \A v \in V : G[m][v] = <<m>> \o v
  OBVIOUS
<1> HIDE DEF Z, G, V
<1>3. PICK g \in [Names -> V] : Unfolds(g, Z, G)
  BY <1>1, ForestRecursion
<1>4. \A m \in Names : g[m] = Step(g, m)
  BY <1>0, <1>2, <1>3 DEF Unfolds
<1>5. g = [m \in Names |-> Step(g, m)]
  BY <1>4
<1>6. up = [m \in Names |-> Step(up, m)]
  BY <1>5
<1>7. \A m \in Names : Chain(m) = up[m]
  BY DEF Chain
<1> HIDE DEF up
<1>8. \A m \in Names : up[m] = Step(up, m)
  BY <1>6
<1>9. up[n] \in V
  <2> DEFINE T == {m \in Names : up[m] \notin V}
  <2> SUFFICES ASSUME T # {} PROVE FALSE
    OBVIOUS
  <2>1. PICK m \in T : base[m] \notin T
    BY DEF Forest
  <2>2. m \in Names /\ up[m] \notin V /\ up[m] = Step(up, m)
    BY <1>8
  <2>3. CASE base[m] = None
    BY <2>2, <2>3 DEF V
  <2>4. CASE base[m] # None
    <3>1. up[base[m]] \in V /\ up[m] = <<m>> \o up[base[m]]
      BY <1>0, <2>1, <2>2, <2>4
    <3> QED BY <2>2, <3>1 DEF V
  <2> QED BY <2>3, <2>4
<1> QED BY <1>0, <1>7, <1>8, <1>9 DEF V

\* A property that is found is one of the record's.
LEMMA FindUp ==
  ASSUME TypeOK, Forest, ItemsOK, NEW n \in Names, NEW p
  PROVE  FindProp(n, p) = NoProp \/ FindProp(n, p) \in PropsOf(n)
<1> DEFINE own(m) == {i \in DOMAIN props[m] : props[m][i].name = p}
           first(m) == CHOOSE i \in own(m) : \A j \in own(m) : i <= j
           Step(g, m) == IF state[m] # "defined" THEN NoProp
                         ELSE IF own(m) # {} THEN <<m, first(m)>>
                         ELSE IF base[m] = None THEN NoProp
                         ELSE g[base[m]]
           V == (Names \X Nat) \cup {NoProp}
           find == CHOOSE g : g = [m \in Names |-> Step(g, m)]
<1>0. /\ \A m \in Names : base[m] = None \/ base[m] \in Names
      /\ \A m \in Names : DOMAIN props[m] = 1..Len(props[m]) /\ Len(props[m]) \in Nat
  BY DEF TypeOK, ItemsOK
<1>a. \A m \in Names : own(m) # {} => first(m) \in DOMAIN props[m] /\ first(m) \in Nat
  <2> SUFFICES ASSUME NEW m \in Names, own(m) # {} PROVE first(m) \in own(m)
    <3> HIDE DEF first
    <3>1. \A m \in Names : \A i \in own(m) : i \in DOMAIN props[m] /\ i \in Nat
      BY <1>0
    <3> HIDE DEF own
    <3> QED BY <3>1
  <2>1. own(m) \in SUBSET (0..Len(props[m])) /\ Len(props[m]) \in Nat
    BY <1>0
  <2> DEFINE T == own(m)
  <2>2. T \in SUBSET (0..Len(props[m])) /\ T # {}
    BY <2>1
  <2> HIDE DEF T
  <2>3. PICK x \in T : \A y \in 0..x - 1 : y \notin T
    BY <2>1, <2>2, LeastOf
  <2>4. \A y \in T : x <= y
    BY <2>1, <2>2, <2>3
  <2> QED BY <2>4 DEF T
<1> HIDE DEF own, first
<1> DEFINE here(m, v) == IF state[m] # "defined" THEN NoProp
                         ELSE IF own(m) # {} THEN <<m, first(m)>>
                         ELSE v
           Z == [m \in Names |-> here(m, NoProp)]
           G == [m \in Names |-> [v \in V |-> here(m, v)]]
<1>1. Z \in [Names -> V] /\ G \in [Names -> [V -> V]]
  <2>1. \A m \in Names : \A v \in V : here(m, v) \in V
    BY <1>a
  <2>2. NoProp \in V
    OBVIOUS
  <2> HIDE DEF here, V
  <2> QED BY <2>1, <2>2
<1>2. /\ \A m \in Names : Z[m] = here(m, NoProp)
      /\ \A m \in Names : \A v \in V : G[m][v] = here(m, v)
  OBVIOUS
<1> HIDE DEF Z, G, V
<1>3. PICK g \in [Names -> V] : Unfolds(g, Z, G)
  BY <1>1, ForestRecursion
<1>4. \A m \in Names : g[m] = Step(g, m)
  <2> SUFFICES ASSUME NEW m \in Names PROVE g[m] = Step(g, m)
    OBVIOUS
  <2> DEFINE up == IF base[m] = None THEN NoProp ELSE g[base[m]]
  <2> HIDE DEF here
  <2>1. g[m] = here(m, up)
    BY <1>0, <1>2, <1>3 DEF Unfolds
  <2> USE DEF here
  <2> QED BY <2>1
<1>5. g = [m \in Names |-> Step(g, m)]
  BY <1>4
<1>6. find = [m \in Names |-> Step(find, m)]
  BY <1>5
<1>7. \A m \in Names : FindProp(m, p) = find[m]
  BY DEF FindProp, own, first
<1> HIDE DEF find
<1>8. \A m \in Names : find[m] = Step(find, m)
  BY <1>6
<1> DEFINE T == {m \in Names : ~(find[m] = NoProp \/ find[m] \in PropsOf(m))}
<1> SUFFICES ASSUME T # {} PROVE FALSE
  BY <1>7
<1>9. PICK m \in T : base[m] \notin T
  BY DEF Forest
<1>10. m \in Names /\ ~(find[m] = NoProp \/ find[m] \in PropsOf(m))
  OBVIOUS
<1>11. m \in Ancestors(m) /\ (base[m] # None => Ancestors(base[m]) \subseteq Ancestors(m))
  BY <1>0, <1>10, AncestorsUp
<1>12. own(m) # {} => <<m, first(m)>> \in PropsOf(m)
  BY <1>a, <1>10, <1>11 DEF PropsOf
<1>13. base[m] # None => PropsOf(base[m]) \subseteq PropsOf(m)
  BY <1>11 DEF PropsOf
<1> QED BY <1>0, <1>8, <1>9, <1>10, <1>12, <1>13

Refs == Names \X Nat
Entry == [prop : Refs, by : Names \cup {None}]

\* A default is for one of the properties of its record.
DefaultsOK ==
  /\ defaults \in [Names -> Seq(Refs)]
  /\ \A n \in Names : \A i \in DOMAIN defaults[n] : defaults[n][i] \in PropsOf(n)

\* Before it is linked or after, the number of a property is its place after the
\* properties its record inherits.
LEMMA SlotsApart ==
  ASSUME TypeOK, LInv, NEW n \in Names
  PROVE  \A r, s \in PropsOf(n) : Slot(r) = Slot(s) => r = s
<1> DEFINE At(m) == LinkedOffset(m)
           End_(m) == LinkedOffset(m) + Len(props[m])
           Own(m) == {<<m, i>> : i \in DOMAIN props[m]}
           Apart(m) == /\ \A r \in PropsOf(m) : Slot(r) \in Nat /\ Slot(r) < End_(m)
                       /\ \A r, s \in PropsOf(m) : Slot(r) = Slot(s) => r = s
<1>0. \A m \in Names : /\ At(m) \in Nat /\ Len(props[m]) \in Nat /\ DOMAIN props[m] = 1..Len(props[m])
                       /\ base[m] # None => base[m] \in Names
  BY OffsetUp DEF LInv, ItemsOK, TypeOK
<1>1. \A m \in Names : At(m) = IF base[m] = None THEN 0 ELSE End_(base[m])
  <2> SUFFICES ASSUME NEW m \in Names PROVE At(m) = IF base[m] = None THEN 0 ELSE End_(base[m])
    OBVIOUS
  <2>1. /\ At(m) = IF m \in linked THEN offset[m] ELSE IF base[m] = None THEN 0 ELSE End_(base[m])
        /\ base[m] # None => At(base[m]) = IF base[m] \in linked THEN offset[base[m]]
                              ELSE IF base[base[m]] = None THEN 0 ELSE End_(base[base[m]])
    BY <1>0, OffsetUp DEF LInv
  <2>2. m \in linked => offset[m] = IF base[m] = None THEN 0 ELSE offset[base[m]] + Len(props[base[m]])
    BY DEF LInv, LinkedUp
  <2>3. m \in linked /\ base[m] # None => base[m] \in linked
    BY DEF LInv, LinkedUp
  <2> QED BY <2>1, <2>2, <2>3
<1>2. \A m \in Names : \A r \in Own(m) : r[1] = m /\ r[2] \in 1..Len(props[m]) /\ r = <<m, r[2]>>
                                        /\ Slot(r) = (r[2] - 1) + At(m)
  <2> SUFFICES ASSUME NEW m \in Names, NEW i \in DOMAIN props[m]
               PROVE  i \in 1..Len(props[m]) /\ Slot(<<m, i>>) = (i - 1) + At(m)
    OBVIOUS
  <2>1. props[m][i].id = (i - 1) + IF m \in linked THEN offset[m] ELSE 0
    BY DEF LInv, Numbered
  <2>2. m \in linked => At(m) = offset[m]
    BY OffsetUp DEF LInv
  <2>3. Slot(<<m, i>>) = IF m \in linked THEN props[m][i].id ELSE props[m][i].id + At(m)
    BY DEF Slot
  <2> QED BY <1>0, <2>1, <2>2, <2>3
<1>3. \A m \in Names : PropsOf(m) = Own(m) \cup IF base[m] = None THEN {} ELSE PropsOf(base[m])
  <2> SUFFICES ASSUME NEW m \in Names
               PROVE  PropsOf(m) = Own(m) \cup IF base[m] = None THEN {} ELSE PropsOf(base[m])
    OBVIOUS
  <2>1. Ancestors(m) = IF base[m] = None THEN {m} ELSE {m} \cup Ancestors(base[m])
    BY AncestorsUp
  <2> QED BY <2>1 DEF PropsOf
<1> DEFINE T == {m \in Names : ~Apart(m)}
<1> HIDE DEF At, Own
<1> SUFFICES ASSUME T # {} PROVE FALSE
  OBVIOUS
<1>4. PICK m \in T : base[m] \notin T
  <2>1. T \in SUBSET Names
    OBVIOUS
  <2> HIDE DEF T
  <2> QED BY <2>1 DEF LInv, Forest
<1>5. m \in Names /\ ~Apart(m)
  OBVIOUS
<1>6. base[m] # None => base[m] \in Names /\ Apart(base[m]) /\ At(m) = End_(base[m])
  BY <1>0, <1>1, <1>4, <1>5
<1> DEFINE Below == IF base[m] = None THEN {} ELSE PropsOf(base[m])
           low == At(m)
           len == Len(props[m])
<1>7. /\ \A r \in Below : Slot(r) \in Nat /\ Slot(r) < low
      /\ \A r, s \in Below : Slot(r) = Slot(s) => r = s
  BY <1>6
<1>8. low \in Nat /\ len \in Nat /\ End_(m) = low + len
  BY <1>0, <1>5 DEF At
<1>9. \A r \in Own(m) : Slot(r) \in Nat /\ low <= Slot(r) /\ Slot(r) < low + len
  BY <1>0, <1>2, <1>5
<1>10. \A r, s \in Own(m) : Slot(r) = Slot(s) => r = s
  <2> SUFFICES ASSUME NEW r \in Own(m), NEW s \in Own(m), Slot(r) = Slot(s) PROVE r = s
    OBVIOUS
  <2>1. (r[2] - 1) + low = (s[2] - 1) + low /\ r[2] \in Int /\ s[2] \in Int
    BY <1>2, <1>5
  <2>2. r[2] = s[2]
    BY <1>8, <2>1
  <2> QED BY <1>2, <1>5, <2>2
<1>11. PropsOf(m) = Own(m) \cup Below
  BY <1>3, <1>5
<1> HIDE DEF Below, low, len, T
<1>12. \A r \in PropsOf(m) : Slot(r) \in Nat /\ Slot(r) < End_(m)
  BY <1>7, <1>8, <1>9, <1>11
<1>13. \A r, s \in PropsOf(m) : Slot(r) = Slot(s) => r = s
  BY <1>7, <1>8, <1>9, <1>10, <1>11
<1> QED BY <1>5, <1>12, <1>13

LEMMA Prefixed ==
  ASSUME NEW T, NEW x \in T, NEW t \in Seq(T)
  PROVE  Range(<<x>> \o t) = {x} \cup Range(t)
<1> DEFINE s == <<x>> \o t
<1>1. /\ Len(t) \in Nat /\ DOMAIN t = 1..Len(t) /\ DOMAIN s = 1..Len(t) + 1
      /\ s[1] = x /\ \A k \in 1..Len(t) : s[k + 1] = t[k]
  OBVIOUS
<1> HIDE DEF s
<1>2. \A k \in DOMAIN s : k # 1 => k - 1 \in DOMAIN t /\ s[k] = t[k - 1]
  <2> SUFFICES ASSUME NEW k \in DOMAIN s, k # 1 PROVE k - 1 \in DOMAIN t /\ s[k] = t[k - 1]
    OBVIOUS
  <2>1. k - 1 \in 1..Len(t) /\ k = (k - 1) + 1
    BY <1>1
  <2> QED BY <1>1, <2>1
<1>3. \A k \in DOMAIN t : k + 1 \in DOMAIN s /\ s[k + 1] = t[k]
  BY <1>1
<1>4. 1 \in DOMAIN s
  BY <1>1
<1>5. Range(s) = {x} \cup Range(t)
  BY <1>1, <1>2, <1>3, <1>4 DEF Range
<1> QED BY <1>5 DEF s

\* The records of a chain are those above its first.
LEMMA ChainAncestors ==
  ASSUME TypeOK, Forest, NEW n \in Names
  PROVE  Range(Chain(n)) = Ancestors(n)
<1> DEFINE On(m) == Range(Chain(m))
           T == {m \in Names : On(m) # Ancestors(m)}
<1> SUFFICES ASSUME T # {} PROVE FALSE
  OBVIOUS
<1> HIDE DEF On
<1>1. PICK m \in T : base[m] \notin T
  BY DEF Forest
<1>2. m \in Names /\ On(m) # Ancestors(m) /\ (base[m] # None => base[m] \in Names /\ On(base[m]) = Ancestors(base[m]))
  BY <1>1 DEF TypeOK
<1>3. On(m) = IF base[m] = None THEN {m} ELSE {m} \cup On(base[m])
  <2>1. CASE base[m] = None
    <3>1. Chain(m) = <<m>>
      BY <1>2, <2>1, ChainUp
    <3> QED BY <2>1, <3>1 DEF On, Range
  <2>2. CASE base[m] # None
    <3> DEFINE rest == Chain(base[m])
    <3>1. Chain(m) = <<m>> \o rest /\ rest \in Seq(Names)
      BY <1>2, <2>2, ChainUp
    <3> HIDE DEF rest
    <3>2. Range(<<m>> \o rest) = {m} \cup Range(rest)
      BY <1>2, <3>1, Prefixed
    <3> QED BY <2>2, <3>1, <3>2 DEF On, rest
  <2> QED BY <2>1, <2>2
<1> QED BY <1>2, <1>3, AncestorsUp

\* A record that comes to extend another, and a record with more properties, only add to
\* what the records below have.
LEMMA PropsGrow ==
  ASSUME \A m \in Names : base[m] # None => base'[m] = base[m],
         \A m \in Names : DOMAIN props[m] \subseteq DOMAIN props'[m], NEW n \in Names
  PROVE  PropsOf(n) \subseteq PropsOf(n)'
<1>1. Ancestors(n) \subseteq Ancestors(n)'
  <2> SUFFICES ASSUME NEW a \in Ancestors(n), NEW S \in SUBSET Names,
                      n \in S, \A m \in S : base'[m] # None => base'[m] \in S
               PROVE  a \in S
    BY DEF Ancestors
  <2>1. \A m \in S : base[m] # None => base[m] \in S
    OBVIOUS
  <2> QED BY <2>1 DEF Ancestors
<1>2. Ancestors(n) \subseteq Names
  BY DEF Ancestors
<1> QED BY <1>1, <1>2 DEF PropsOf

LEMMA DefaultsKeep ==
  ASSUME DefaultsOK, \A m \in Names : base[m] # None => base'[m] = base[m],
         \A m \in Names : DOMAIN props[m] \subseteq DOMAIN props'[m], UNCHANGED defaults
  PROVE  DefaultsOK'
<1>1. \A n \in Names : PropsOf(n) \subseteq PropsOf(n)'
  BY PropsGrow
<1> QED BY <1>1 DEF DefaultsOK

\* A default that is added is for a property of the record.
LEMMA DefaultAdded ==
  ASSUME DefaultsOK, \A m \in Names : base[m] # None => base'[m] = base[m],
         \A m \in Names : DOMAIN props[m] \subseteq DOMAIN props'[m],
         NEW n \in Names, NEW r \in Refs, r \in PropsOf(n)',
         defaults' = [defaults EXCEPT ![n] = Append(defaults[n], r)]
  PROVE  DefaultsOK'
<1>1. \A m \in Names : PropsOf(m) \subseteq PropsOf(m)'
  BY PropsGrow
<1>2. /\ Append(defaults[n], r) \in Seq(Refs) /\ Len(defaults[n]) \in Nat /\ DOMAIN defaults[n] = 1 .. Len(defaults[n])
      /\ DOMAIN Append(defaults[n], r) = 1 .. Len(defaults[n]) + 1
      /\ \A i \in 1 .. Len(defaults[n]) : Append(defaults[n], r)[i] = defaults[n][i]
      /\ Append(defaults[n], r)[Len(defaults[n]) + 1] = r
  <2>1. defaults[n] \in Seq(Refs)
    BY DEF DefaultsOK
  <2> QED BY <2>1, Appended
<1>3. \A m \in Names : defaults'[m] = IF m = n THEN Append(defaults[n], r) ELSE defaults[m]
  BY DEF DefaultsOK
<1>4. defaults' \in [Names -> Seq(Refs)]
  BY <1>2 DEF DefaultsOK
<1>5. ASSUME NEW m \in Names, NEW i \in DOMAIN defaults'[m] PROVE defaults'[m][i] \in PropsOf(m)'
  <2>1. CASE m # n
    BY <1>1, <1>3, <2>1 DEF DefaultsOK
  <2>2. CASE m = n /\ i = Len(defaults[n]) + 1
    BY <1>2, <1>3, <2>2
  <2>3. CASE m = n /\ i # Len(defaults[n]) + 1
    <3>1. i \in 1 .. Len(defaults[n])
      BY <1>2, <1>3, <2>3
    <3>2. defaults'[m][i] = defaults[n][i] /\ i \in DOMAIN defaults[n]
      BY <1>2, <1>3, <2>3, <3>1
    <3>3. defaults[n][i] \in PropsOf(n)
      BY <3>2 DEF DefaultsOK
    <3> QED BY <1>1, <2>3, <3>2, <3>3
  <2> QED BY <2>1, <2>2, <2>3
<1> QED BY <1>4, <1>5 DEF DefaultsOK

\* Linking renumbers properties and changes nothing else of them.
LEMMA LinkKeeps ==
  ASSUME ItemsOK, NEW ns, Link(ns), NEW m \in Names
  PROVE  /\ DOMAIN props'[m] = DOMAIN props[m]
         /\ \A i \in DOMAIN props[m] : props'[m][i].defer = props[m][i].defer
<1> DEFINE k == LinkedOffset(m)
           moved == [i \in DOMAIN props[m] |-> [props[m][i] EXCEPT !.id = @ + k]]
<1>1. props'[m] = moved \/ props'[m] = props[m]
  BY DEF Link
<1>2. \A i \in DOMAIN props[m] : moved[i].defer = props[m][i].defer
  <2> SUFFICES ASSUME NEW i \in DOMAIN props[m] PROVE [props[m][i] EXCEPT !.id = @ + k].defer = props[m][i].defer
    OBVIOUS
  <2>1. props[m] \in Seq(Item(family))
    BY DEF ItemsOK
  <2>2. props[m][i] \in Item(family)
    BY <2>1
  <2>3. \A r \in Item(family) : [r EXCEPT !.id = @ + k].defer = r.defer
    BY DEF Item
  <2> QED BY <2>2, <2>3
<1> QED BY <1>1, <1>2

LEMMA InitDefaults == Init => DefaultsOK
BY DEF Init, DefaultsOK

\* Every step keeps the defaults.
LEMMA DefaultsStep ==
  ASSUME RInv, LInv, DefaultsOK, [Next]_vars
  PROVE  DefaultsOK'
<1>0. TypeOK
  BY DEF RInv
<1>1. CASE \E n \in Names : Mention(n)
  BY <1>1, DefaultsKeep DEF Mention, bodies
<1>2. CASE \E n \in Names, u \in Uses, b \in Names \cup {None} : Begin(n, u, b)
  <2> PICK n \in Names, u \in Uses, b \in Names \cup {None} : Begin(n, u, b)
    BY <1>2
  <2>1. UNCHANGED <<props, defaults>> /\ n \notin Begun /\ \A m \in Names : m # n => base'[m] = base[m]
    BY <1>0 DEF Begin, MayBegin, Begun, bodies, TypeOK
  <2>2. \A m \in Names : base[m] # None => base'[m] = base[m]
    BY <2>1 DEF RInv, Unbegun
  <2> QED BY <2>1, <2>2, DefaultsKeep
<1>3. CASE \E n \in Names : End(n)
  BY <1>3, DefaultsKeep DEF End, bodies
<1>4. CASE \E n \in Names, p \in family.props : Override(n, p)
  <2> PICK n \in Names, p \in family.props : Override(n, p)
    BY <1>4
  <2> DEFINE r == Inherited(n, p)
  <2>1. /\ UNCHANGED <<base, props>> /\ r # NoProp /\ base[n] # None /\ r = FindProp(base[n], p)
        /\ defaults' = [defaults EXCEPT ![n] = Append(defaults[n], r)]
    BY DEF Override, Inherited
  <2>2. base[n] \in Names
    BY <1>0, <2>1 DEF TypeOK
  <2>3. r \in PropsOf(base[n])
    BY <1>0, <2>1, <2>2, FindUp DEF LInv
  <2>4. Ancestors(base[n]) \subseteq Ancestors(n)
    BY <1>0, <2>1, <2>2, AncestorsUp
  <2>5. r \in PropsOf(n)
    BY <2>3, <2>4 DEF PropsOf
  <2>6. r \in Refs
    <3>1. PropsOf(n) \subseteq Refs
      BY <1>0, AncestorsClosed DEF PropsOf, Refs, LInv, ItemsOK
    <3> QED BY <2>5, <3>1
  <2> HIDE DEF r
  <2>7. r \in PropsOf(n)'
    BY <2>1, <2>5 DEF PropsOf, Ancestors
  <2> QED BY <2>1, <2>6, <2>7, DefaultAdded
<1>5. CASE \E n \in Names, p \in family.props, defer, value \in BOOLEAN : DeclProp(n, p, defer, value)
  <2> PICK n \in Names, p \in family.props, defer \in BOOLEAN, value \in BOOLEAN : DeclProp(n, p, defer, value)
    BY <1>5
  <2> DEFINE r == <<n, Len(props[n]) + 1>>
             new == [name |-> p, id |-> Len(props[n]), defer |-> defer]
  <2>1. /\ UNCHANGED base /\ props' = [props EXCEPT ![n] = Append(props[n], new)]
        /\ defaults' = IF value THEN [defaults EXCEPT ![n] = Append(defaults[n], r)] ELSE defaults
    BY DEF DeclProp
  <2>2. props[n] \in Seq(Item(family)) /\ Len(props[n]) \in Nat /\ props \in [Names -> Seq(Item(family))]
    BY DEF LInv, ItemsOK
  <2>3. new \in Item(family)
    BY <2>2 DEF Item
  <2> HIDE DEF new
  <2>4. /\ DOMAIN props[n] = 1 .. Len(props[n]) /\ DOMAIN Append(props[n], new) = 1 .. Len(props[n]) + 1
    BY <2>2, <2>3, Appended
  <2>5. \A m \in Names : DOMAIN props[m] \subseteq DOMAIN props'[m]
    BY <2>1, <2>2, <2>4
  <2>6. r \in Refs /\ Len(props[n]) + 1 \in DOMAIN props'[n]
    BY <2>1, <2>2, <2>4 DEF Refs
  <2>7. n \in Ancestors(n)
    BY <1>0, AncestorsClosed
  <2>8. n \in Ancestors(n)'
    BY <2>1, <2>7 DEF Ancestors
  <2>9. r \in PropsOf(n)'
    BY <2>6, <2>8 DEF PropsOf
  <2> HIDE DEF r
  <2> QED BY <2>1, <2>5, <2>6, <2>9, DefaultAdded, DefaultsKeep
<1>6. CASE \E n \in Names, ps \in InitLists \cup {<<>>}, braces \in BOOLEAN : Create(n, ps, braces)
  <2> PICK n \in Names, ps \in InitLists \cup {<<>>}, braces \in BOOLEAN : Create(n, ps, braces)
    BY <1>6
  <2>1. Link({n}) /\ UNCHANGED <<base, defaults>>
    BY DEF Create
  <2> QED BY <2>1, LinkKeeps, DefaultsKeep DEF LInv
<1>7. CASE Finish
  BY <1>7, LinkKeeps, DefaultsKeep DEF Finish, LInv
<1>8. CASE Reject
  BY <1>8, DefaultsKeep DEF Reject, bodies
<1>9. CASE UNCHANGED vars
  BY <1>9, DefaultsKeep DEF vars, bodies
<1> QED
  BY <1>1, <1>2, <1>3, <1>4, <1>5, <1>6, <1>7, <1>8, <1>9
  DEF Next, Within, RejectBegin, RejectItem, RejectCreate, RejectFinish

LEMMA DefaultsInvariance == Spec => []DefaultsOK
<1>1. RInv /\ LInv /\ DefaultsOK /\ [Next]_vars => DefaultsOK'
  BY DefaultsStep
<1> QED BY <1>1, InitDefaults, Invariance, LayoutInvariance, PTL DEF Spec

---------------------------------------------------------------------------
(* The values of a new object.                                                *)

\* The defaults of m that are taken, after those for the properties already there.
Taken(m, i) == {defaults[m][j] : j \in 1..i}
Present(inits) == {e.prop : e \in Range(inits)}
Added(inits, m, D) == Range(inits) \cup {[prop |-> r, by |-> m] : r \in D \ Present(inits)}

LEMMA RangeOf ==
  ASSUME NEW T, NEW t \in Seq(T), NEW e \in T
  PROVE  Range(t) \subseteq T /\ Range(Append(t, e)) = Range(t) \cup {e}
<1> DEFINE s == Append(t, e)
<1>1. /\ Len(t) \in Nat /\ DOMAIN t = 1..Len(t) /\ DOMAIN s = 1..Len(t) + 1
      /\ \A i \in 1..Len(t) : s[i] = t[i]
      /\ s[Len(t) + 1] = e
      /\ \A i \in 1..Len(t) : t[i] \in T
  BY Appended
<1> HIDE DEF s
<1>2. \A i \in DOMAIN s : i = Len(t) + 1 \/ i \in DOMAIN t
  BY <1>1
<1>3. Len(t) + 1 \in DOMAIN s /\ \A i \in DOMAIN t : i \in DOMAIN s
  BY <1>1
<1>4. Range(s) = Range(t) \cup {e} /\ Range(t) \subseteq T
  BY <1>1, <1>2, <1>3 DEF Range
<1> QED BY <1>4 DEF s

\* TakeDefaults is what it says: the recursion over the defaults of m is defined.
LEMMA TakeUp ==
  ASSUME NEW m \in Names, defaults[m] \in Seq(Refs), NEW inits \in Seq(Entry)
  PROVE  \E t \in [0..Len(defaults[m]) -> Seq(Entry)] :
           /\ t[0] = inits /\ TakeDefaults(inits, m) = t[Len(defaults[m])]
           /\ \A i \in 1..Len(defaults[m]) :
                t[i] = IF Filled(t[i - 1], defaults[m][i]) THEN t[i - 1]
                       ELSE Append(t[i - 1], [prop |-> defaults[m][i], by |-> m])
<1> DEFINE n == Len(defaults[m])
           V == Seq(Entry)
           next(v, i) == IF Filled(v, defaults[m][i]) THEN v ELSE Append(v, [prop |-> defaults[m][i], by |-> m])
           Step(g, i) == IF i = 0 THEN inits ELSE IF Filled(g[i - 1], defaults[m][i]) THEN g[i - 1]
                         ELSE Append(g[i - 1], [prop |-> defaults[m][i], by |-> m])
           F == [i \in 1..n |-> [v \in V |-> next(v, i)]]
           taken == CHOOSE g : g = [i \in 0..n |-> Step(g, i)]
<1>1. n \in Nat /\ \A i \in 1..n : \A v \in V : next(v, i) \in V
  <2>1. n \in Nat /\ \A i \in 1..n : defaults[m][i] \in Refs
    OBVIOUS
  <2>2. \A i \in 1..n : [prop |-> defaults[m][i], by |-> m] \in Entry
    BY <2>1 DEF Entry
  <2>3. \A v \in V : \A e \in Entry : Append(v, e) \in V
    OBVIOUS
  <2> QED BY <2>1, <2>2, <2>3
<1>2. F \in [1..n -> [V -> V]] /\ inits \in V
  <2> HIDE DEF next, V, n
  <2>1. F \in [1..n -> [V -> V]]
    BY <1>1
  <2> QED BY <2>1 DEF V
<1>3. \A i \in 1..n : \A v \in V : F[i][v] = next(v, i)
  OBVIOUS
<1> HIDE DEF F, V, n
<1>4. PICK g \in [0..n -> V] : Iterates(g, n, inits, F)
  BY <1>1, <1>2, Recursion
<1>b. g[0] = inits /\ \A i \in 1..n : g[i] = F[i][g[i - 1]]
  BY <1>4 DEF Iterates
<1>5. g = [i \in 0..n |-> Step(g, i)]
  <2>1. ASSUME NEW i \in 0..n PROVE g[i] = Step(g, i)
    <3>1. CASE i = 0
      BY <1>b, <3>1
    <3>2. CASE i # 0
      <4>1. i \in 1..n /\ i - 1 \in 0..n
        BY <1>1, <3>2
      <4>2. g[i] = next(g[i - 1], i)
        BY <1>3, <1>b, <4>1
      <4> QED BY <3>2, <4>2
    <3> QED BY <3>1, <3>2
  <2> HIDE DEF Step
  <2> QED BY <2>1
<1>6. taken = [i \in 0..n |-> Step(taken, i)]
  BY <1>5
<1>7. TakeDefaults(inits, m) = taken[n]
  BY DEF TakeDefaults, n
<1> HIDE DEF taken
<1>8. \A i \in 0..n : taken[i] = Step(taken, i)
  BY <1>6
<1>9. DOMAIN taken = 0..n /\ taken[0] = inits
  <2>1. 0 \in 0..n
    BY <1>1
  <2>2. taken[0] = Step(taken, 0)
    BY <1>8, <2>1
  <2>3. DOMAIN taken = 0..n
    <3> HIDE DEF Step
    <3> QED BY <1>6
  <2> QED BY <2>2, <2>3
<1>10. \A i \in 1..n : i - 1 \in 0..n /\ taken[i] = next(taken[i - 1], i)
  BY <1>1, <1>8
<1>11. \A i \in 0..n : taken[i] \in V
  <2> DEFINE T == {i \in 0..n : taken[i] \notin V}
  <2> SUFFICES ASSUME T # {} PROVE FALSE
    OBVIOUS
  <2>1. T \in SUBSET (0..n)
    OBVIOUS
  <2> HIDE DEF T
  <2>2. PICK i \in T : \A j \in 0..i - 1 : j \notin T
    BY <1>1, <2>1, LeastOf
  <2>3. i \in 0..n /\ taken[i] \notin V
    BY DEF T
  <2>4. i # 0
    BY <1>2, <1>9, <2>3
  <2>5. i \in 1..n /\ i - 1 \in 0..n /\ i - 1 \in 0..i - 1
    BY <1>1, <2>3, <2>4
  <2>6. taken[i - 1] \in V
    BY <2>2, <2>5 DEF T
  <2> HIDE DEF next
  <2> QED BY <1>1, <1>10, <2>3, <2>5, <2>6
<1>12. taken \in [0..n -> V]
  <2>1. taken = [i \in 0..n |-> taken[i]]
    BY <1>6
  <2> QED BY <1>11, <2>1
<1> QED BY <1>7, <1>9, <1>10, <1>12 DEF n, V

\* Among properties with slots of their own, a slot is filled when its property is there.
LEMMA FilledIs ==
  ASSUME NEW P, \A r, s \in P : Slot(r) = Slot(s) => r = s,
         NEW inits, Present(inits) \subseteq P, NEW d \in P
  PROVE  Filled(inits, d) <=> d \in Present(inits)
<1>1. \A i \in DOMAIN inits : inits[i].prop \in P /\ inits[i].prop \in Present(inits)
  BY DEF Present, Range
<1>2. d \in Present(inits) => \E i \in DOMAIN inits : inits[i].prop = d
  BY DEF Present, Range
<1> QED BY <1>1, <1>2 DEF Filled

\* What is there once entries for the properties D are added.
LEMMA AddedPresent ==
  ASSUME NEW inits, NEW out, NEW D, NEW m,
         Range(out) = Added(inits, m, D)
  PROVE  Present(out) = Present(inits) \cup D
<1> DEFINE entry(r) == [prop |-> r, by |-> m]
           new == D \ Present(inits)
<1>1. Range(out) = Range(inits) \cup {entry(r) : r \in new}
  BY DEF Added
<1>2. \A r : entry(r).prop = r
  OBVIOUS
<1> HIDE DEF entry
<1>3. \A e \in Range(out) : e.prop \in Present(inits) \cup D
  BY <1>1, <1>2 DEF Present
<1>4. \A x \in Present(inits) \cup D : \E e \in Range(out) : e.prop = x
  <2>1. \A x \in Present(inits) : \E e \in Range(inits) : e.prop = x
    BY DEF Present
  <2>2. \A x \in new : entry(x) \in Range(out)
    BY <1>1
  <2> QED BY <1>1, <1>2, <2>1, <2>2
<1> QED BY <1>3, <1>4 DEF Present

\* A record adds its own defaults for the properties that are not there yet.
LEMMA TakeAdds ==
  ASSUME NEW m \in Names, defaults[m] \in Seq(Refs), NEW inits \in Seq(Entry),
         NEW P, \A r, s \in P : Slot(r) = Slot(s) => r = s,
         Present(inits) \subseteq P, Range(defaults[m]) \subseteq P
  PROVE  /\ TakeDefaults(inits, m) \in Seq(Entry)
         /\ Range(TakeDefaults(inits, m)) = Added(inits, m, Range(defaults[m]))
         /\ Present(TakeDefaults(inits, m)) = Present(inits) \cup Range(defaults[m])
<1> DEFINE n == Len(defaults[m])
           entry(r) == [prop |-> r, by |-> m]
<1>1. n \in Nat /\ DOMAIN defaults[m] = 1..n
  OBVIOUS
<1>2. PICK t \in [0..n -> Seq(Entry)] :
        /\ t[0] = inits /\ TakeDefaults(inits, m) = t[n]
        /\ \A i \in 1..n : t[i] = IF Filled(t[i - 1], defaults[m][i]) THEN t[i - 1]
                                   ELSE Append(t[i - 1], entry(defaults[m][i]))
  BY TakeUp
<1> HIDE DEF n
<1> DEFINE T == {i \in 0..n : Range(t[i]) # Added(inits, m, Taken(m, i))}
<1>3. T = {}
  <2> SUFFICES ASSUME T # {} PROVE FALSE
    OBVIOUS
  <2>1. T \in SUBSET (0..n)
    OBVIOUS
  <2> HIDE DEF T
  <2>2. PICK i \in T : \A j \in 0..i - 1 : j \notin T
    BY <1>1, <2>1, LeastOf
  <2>3. i \in 0..n /\ Range(t[i]) # Added(inits, m, Taken(m, i))
    BY DEF T
  <2>4. CASE i = 0
    <3>1. Taken(m, 0) = {}
      <4>1. \A j \in 1..0 : FALSE
        OBVIOUS
      <4> QED BY <4>1 DEF Taken
    <3> QED BY <1>2, <2>3, <2>4, <3>1 DEF Added
  <2>5. CASE i # 0
    <3> DEFINE d == defaults[m][i]
               v == t[i - 1]
    <3>1. i \in 1..n /\ i - 1 \in 0..n /\ i - 1 \in 0..i - 1 /\ 1..i = (1..i - 1) \cup {i} /\ 1..i \subseteq 1..n
      BY <1>1, <2>3, <2>5
    <3>2. Range(v) = Added(inits, m, Taken(m, i - 1))
      BY <2>2, <3>1 DEF T
    <3>3. t[i] = IF Filled(v, d) THEN v ELSE Append(v, entry(d))
      BY <1>2, <3>1
    <3>4. v \in Seq(Entry)
      BY <1>2, <3>1
    <3>5. Taken(m, i) = Taken(m, i - 1) \cup {d} /\ Taken(m, i) \subseteq P /\ d \in P
      <4>1. \A j \in 1..i : defaults[m][j] \in P
        BY <1>1, <3>1 DEF Range
      <4> QED BY <3>1, <4>1 DEF Taken
    <3>6. entry(d) \in Entry
      <4>1. d \in Refs
        BY <1>1, <3>1
      <4> QED BY <4>1 DEF Entry
    <3>7. Present(v) = Present(inits) \cup Taken(m, i - 1)
      <4> HIDE DEF v
      <4> QED BY <3>2, AddedPresent
    <3>8. Present(v) \subseteq P
      BY <3>5, <3>7
    <3> HIDE DEF d, v
    <3>9. Filled(v, d) <=> d \in Present(v)
      BY <3>5, <3>8, FilledIs
    <3>10. CASE d \in Present(v)
      <4>1. Taken(m, i) \ Present(inits) = Taken(m, i - 1) \ Present(inits)
        BY <3>5, <3>7, <3>10
      <4> QED BY <2>3, <3>2, <3>3, <3>9, <3>10, <4>1 DEF Added
    <3>11. CASE d \notin Present(v)
      <4> DEFINE new(k) == Taken(m, k) \ Present(inits)
      <4>1. new(i) = new(i - 1) \cup {d}
        BY <3>5, <3>7, <3>11
      <4>2. Added(inits, m, Taken(m, i)) = Added(inits, m, Taken(m, i - 1)) \cup {entry(d)}
        <5>1. \A k : Added(inits, m, Taken(m, k)) = Range(inits) \cup {entry(r) : r \in new(k)}
          BY DEF Added
        <5> HIDE DEF new, entry
        <5>2. {entry(r) : r \in new(i)} = {entry(r) : r \in new(i - 1)} \cup {entry(d)}
          BY <4>1
        <5> QED BY <5>1, <5>2
      <4>3. Range(t[i]) = Range(v) \cup {entry(d)}
        <5>1. t[i] = Append(v, entry(d))
          BY <3>3, <3>9, <3>11
        <5> HIDE DEF entry
        <5> QED BY <3>4, <3>6, <5>1, RangeOf
      <4> QED BY <2>3, <3>2, <4>2, <4>3
    <3> QED BY <3>10, <3>11
  <2> QED BY <2>4, <2>5
<1>4. n \in 0..n
  BY <1>1
<1>5. Range(t[n]) = Added(inits, m, Taken(m, n))
  BY <1>3, <1>4
<1>6. Taken(m, n) = Range(defaults[m])
  BY <1>1 DEF Taken, Range
<1>7. t[n] \in Seq(Entry)
  BY <1>2, <1>4
<1>8. Range(t[n]) = Added(inits, m, Range(defaults[m]))
  BY <1>5, <1>6
<1>9. Present(t[n]) = Present(inits) \cup Range(defaults[m])
  BY <1>8, AddedPresent
<1> QED BY <1>2, <1>7, <1>8, <1>9

Assembly == [inits : Seq(Entry), whole : BOOLEAN]

\* What an object has once the defaults of m are taken, too.
With(acc, m) ==
  [inits |-> TakeDefaults(acc.inits, m), whole |-> acc.whole /\ Complete(TakeDefaults(acc.inits, m), m)]

LEMMA WithType ==
  ASSUME NEW m \in Names, defaults[m] \in Seq(Refs), NEW acc \in Assembly
  PROVE  With(acc, m) \in Assembly
<1> DEFINE inits == TakeDefaults(acc.inits, m)
<1>1. acc.inits \in Seq(Entry) /\ acc.whole \in BOOLEAN
  BY DEF Assembly
<1>2. inits \in Seq(Entry)
  <2>1. Len(defaults[m]) \in Nat
    OBVIOUS
  <2> QED BY <1>1, <2>1, TakeUp
<1>3. (acc.whole /\ Complete(inits, m)) \in BOOLEAN
  BY <1>1
<1> HIDE DEF inits
<1>4. [inits |-> inits, whole |-> acc.whole /\ Complete(inits, m)] \in Assembly
  BY <1>2, <1>3 DEF Assembly
<1> QED BY <1>4 DEF With, inits

\* Assembled is what it says: the recursion along the chain of n is defined.
LEMMA AssembledUp ==
  ASSUME TypeOK, Forest, defaults \in [Names -> Seq(Refs)], NEW n \in Names, NEW ps, Given(n, ps) \in Seq(Entry)
  PROVE  \E u \in [0..Len(Chain(n)) -> Assembly] :
           /\ u[0] = [inits |-> Given(n, ps), whole |-> TRUE] /\ Assembled(n, ps) = u[Len(Chain(n))]
           /\ \A k \in 1..Len(Chain(n)) : u[k] = With(u[k - 1], Chain(n)[k])
<1> DEFINE chain == Chain(n)
           L == Len(chain)
           start == [inits |-> Given(n, ps), whole |-> TRUE]
           Step(g, k) == IF k = 0 THEN [inits |-> Given(n, ps), whole |-> TRUE]
                         ELSE LET inits == TakeDefaults(g[k - 1].inits, chain[k])
                              IN  [inits |-> inits, whole |-> g[k - 1].whole /\ Complete(inits, chain[k])]
           F == [k \in 1..L |-> [v \in Assembly |-> With(v, chain[k])]]
           upTo == CHOOSE g : g = [k \in 0..L |-> Step(g, k)]
<1>1. chain \in Seq(Names)
  BY ChainUp
<1> HIDE DEF chain
<1>2. L \in Nat /\ \A k \in 1..L : chain[k] \in Names
  BY <1>1
<1> HIDE DEF L
<1>3. start \in Assembly
  BY DEF Assembly
<1>4. \A k \in 1..L : \A v \in Assembly : With(v, chain[k]) \in Assembly
  BY <1>2, WithType
<1>5. F \in [1..L -> [Assembly -> Assembly]]
  BY <1>4
<1>6. \A k \in 1..L : \A v \in Assembly : F[k][v] = With(v, chain[k])
  OBVIOUS
<1> HIDE DEF F
<1>7. PICK g \in [0..L -> Assembly] : Iterates(g, L, start, F)
  BY <1>2, <1>3, <1>5, Recursion
<1>8. g[0] = start /\ \A k \in 1..L : g[k] = F[k][g[k - 1]]
  BY <1>7 DEF Iterates
<1>9. g = [k \in 0..L |-> Step(g, k)]
  <2>1. ASSUME NEW k \in 0..L PROVE g[k] = Step(g, k)
    <3>1. CASE k = 0
      BY <1>8, <3>1
    <3>2. CASE k # 0
      <4>1. k \in 1..L /\ k - 1 \in 0..L
        BY <1>2, <3>2
      <4>2. g[k] = With(g[k - 1], chain[k])
        BY <1>6, <1>8, <4>1
      <4> QED BY <3>2, <4>2 DEF With
    <3> QED BY <3>1, <3>2
  <2> HIDE DEF Step
  <2> QED BY <2>1
<1>10. upTo = [k \in 0..L |-> Step(upTo, k)]
  BY <1>9
<1>11. Assembled(n, ps) = upTo[L]
  BY DEF Assembled, L, chain
<1> HIDE DEF upTo
<1>12. \A k \in 0..L : upTo[k] = Step(upTo, k)
  BY <1>10
<1>13. upTo[0] = start
  <2>1. 0 \in 0..L
    BY <1>2
  <2>2. upTo[0] = Step(upTo, 0)
    BY <1>12, <2>1
  <2> QED BY <2>2
<1>14. \A k \in 1..L : k - 1 \in 0..L /\ upTo[k] = With(upTo[k - 1], chain[k])
  <2> SUFFICES ASSUME NEW k \in 1..L PROVE k - 1 \in 0..L /\ upTo[k] = With(upTo[k - 1], chain[k])
    OBVIOUS
  <2>1. k \in 0..L /\ k - 1 \in 0..L /\ k # 0
    BY <1>2
  <2>2. upTo[k] = Step(upTo, k)
    BY <1>12, <2>1
  <2> QED BY <2>1, <2>2 DEF With
<1> HIDE DEF start
<1>15. \A k \in 0..L : upTo[k] \in Assembly
  <2> DEFINE T == {k \in 0..L : upTo[k] \notin Assembly}
  <2> SUFFICES ASSUME T # {} PROVE FALSE
    OBVIOUS
  <2>1. T \in SUBSET (0..L)
    OBVIOUS
  <2> HIDE DEF T
  <2>2. PICK k \in T : \A j \in 0..k - 1 : j \notin T
    BY <1>2, <2>1, LeastOf
  <2>3. k \in 0..L /\ upTo[k] \notin Assembly
    BY DEF T
  <2>4. k # 0
    BY <1>3, <1>13, <2>3
  <2>5. k \in 1..L /\ k - 1 \in 0..L /\ k - 1 \in 0..k - 1
    BY <1>2, <2>3, <2>4
  <2>6. upTo[k - 1] \in Assembly
    BY <2>2, <2>5 DEF T
  <2> QED BY <1>4, <1>14, <2>3, <2>5, <2>6
<1>16. upTo \in [0..L -> Assembly]
  <2> HIDE DEF Step
  <2>1. upTo = [k \in 0..L |-> upTo[k]]
    BY <1>10
  <2> QED BY <1>15, <2>1
<1> QED BY <1>11, <1>13, <1>14, <1>16 DEF L, chain, start

LEMMA GreatestOf ==
  ASSUME NEW n \in Nat, NEW T \in SUBSET (1..n), T # {}
  PROVE  \E x \in T : \A y \in T : y <= x
<1> DEFINE S == {n - y : y \in T}
<1>1. \A y \in T : n - y \in 0..n
  OBVIOUS
<1>2. \A y \in T : n - y \in S
  OBVIOUS
<1>3. \A z \in S : \E y \in T : z = n - y
  OBVIOUS
<1> HIDE DEF S
<1>a. S \in SUBSET (0..n) /\ S # {}
  BY <1>1, <1>2, <1>3
<1>4. PICK z \in S : \A w \in 0..z - 1 : w \notin S
  BY <1>a, LeastOf
<1>5. PICK x \in T : z = n - x
  BY <1>3
<1>6. \A y \in T : y <= x
  <2> SUFFICES ASSUME NEW y \in T, ~(y <= x) PROVE FALSE
    OBVIOUS
  <2>1. n - y \in S /\ n - y \in 0..z - 1
    BY <1>2, <1>5
  <2> QED BY <1>4, <2>1
<1> QED BY <1>6

\* An object starts with the value of one of the entries of the property.
LEMMA StartsWithOne ==
  ASSUME NEW inits \in Seq(Entry), NEW r \in Present(inits)
  PROVE  \E e \in Range(inits) : e.prop = r /\ StartsWith(inits, r) = e.by
<1> DEFINE at == {i \in DOMAIN inits : inits[i].prop = r}
<1>1. Len(inits) \in Nat /\ DOMAIN inits = 1..Len(inits)
  OBVIOUS
<1>2. at \in SUBSET (1..Len(inits)) /\ at # {}
  <2>1. PICK e \in Range(inits) : e.prop = r
    BY DEF Present
  <2>2. PICK i \in DOMAIN inits : inits[i] = e
    BY DEF Range
  <2> QED BY <1>1, <2>1, <2>2
<1>3. \A i \in at : inits[i] \in Range(inits) /\ inits[i].prop = r
  BY DEF Range
<1>4. StartsWith(inits, r) = inits[CHOOSE i \in at : \A j \in at : j <= i].by
  BY DEF StartsWith
<1> HIDE DEF at
<1>5. PICK x \in at : \A y \in at : y <= x
  BY <1>1, <1>2, GreatestOf
<1>6. (CHOOSE i \in at : \A j \in at : j <= i) \in at
  BY <1>5
<1> QED BY <1>3, <1>4, <1>6

\* What is given by name are properties of the record.
LEMMA GivenIs ==
  ASSUME TypeOK, Forest, ItemsOK, NEW n \in Names, NEW ps \in InitLists \cup {<<>>},
         \A i \in DOMAIN ps : FindProp(n, ps[i]) # NoProp
  PROVE  /\ Given(n, ps) \in Seq(Entry)
         /\ \A e \in Range(Given(n, ps)) : e.prop \in PropsOf(n) /\ e.by = None
<1> DEFINE g == Given(n, ps)
<1>1. PICK k \in Nat : DOMAIN ps = 1..k
  <2>1. \A p, q \in family.props : DOMAIN <<p>> = 1..1 /\ DOMAIN <<p, q>> = 1..2
    OBVIOUS
  <2>2. CASE \E p \in family.props : ps = <<p>>
    BY <2>1, <2>2
  <2>3. CASE \E p, q \in family.props : ps = <<p, q>>
    BY <2>1, <2>3
  <2>4. CASE ps = <<>>
    <3>1. DOMAIN ps = 1..0
      BY <2>4
    <3> QED BY <3>1
  <2> QED BY <2>2, <2>3, <2>4 DEF InitLists
<1>2. \A i \in 1..k : FindProp(n, ps[i]) \in PropsOf(n)
  BY <1>1, FindUp
<1>3. PropsOf(n) \subseteq Refs
  BY AncestorsClosed DEF PropsOf, Refs, ItemsOK
<1>4. g = [i \in 1..k |-> [prop |-> FindProp(n, ps[i]), by |-> None]]
  BY <1>1 DEF Given
<1>5. \A i \in 1..k : g[i] \in Entry /\ g[i].prop \in PropsOf(n) /\ g[i].by = None
  BY <1>2, <1>3, <1>4 DEF Entry
<1>6. g \in [1..k -> Entry]
  BY <1>2, <1>3, <1>4 DEF Entry
<1> HIDE DEF g
<1>7. g \in Seq(Entry)
  BY <1>6
<1>8. \A e \in Range(g) : e.prop \in PropsOf(n) /\ e.by = None
  BY <1>5, <1>6 DEF Range
<1> QED BY <1>7, <1>8 DEF g

\* Along the chain, a value is taken for a property from the first record that has a
\* default for it, and only when none was given; and nothing is left without.
LEMMA WholeObject ==
  ASSUME TypeOK, LInv, DefaultsOK, NEW n \in Names, NEW ps, Given(n, ps) \in Seq(Entry),
         \A e \in Range(Given(n, ps)) : e.prop \in PropsOf(n) /\ e.by = None,
         Assembled(n, ps).whole
  PROVE  ValuesOf(n, Assembled(n, ps).inits)
<1> DEFINE chain == Chain(n)
           L == Len(chain)
           P == PropsOf(n)
           start == Given(n, ps)
           G == Present(start)
           from(r) == From(n, r)
           first(r) == Min(from(r))
           source(r) == IF r \in G THEN None ELSE chain[first(r)]
<1>1. Forest /\ ItemsOK /\ defaults \in [Names -> Seq(Refs)]
  BY DEF LInv, DefaultsOK
<1>2. /\ L \in Nat /\ DOMAIN chain = 1..L
      /\ \A k \in 1..L : chain[k] \in Ancestors(n) /\ chain[k] \in Names
      /\ \A m \in Ancestors(n) : \E k \in 1..L : chain[k] = m
  <2>1. chain \in Seq(Names) /\ Range(chain) = Ancestors(n)
    BY <1>1, ChainUp, ChainAncestors
  <2> HIDE DEF chain
  <2>2. L \in Nat /\ DOMAIN chain = 1..L /\ \A k \in 1..L : chain[k] \in Names
    BY <2>1
  <2> QED BY <2>1, <2>2 DEF Range
<1>3. \A r, s \in P : Slot(r) = Slot(s) => r = s
  BY SlotsApart
<1>4. \A m \in Ancestors(n) : /\ \A i \in DOMAIN props[m] : <<m, i>> \in P
                              /\ Range(defaults[m]) \subseteq P
  <2> SUFFICES ASSUME NEW m \in Ancestors(n)
               PROVE  /\ \A i \in DOMAIN props[m] : <<m, i>> \in P
                      /\ Range(defaults[m]) \subseteq P
    OBVIOUS
  <2>1. m \in Names /\ Ancestors(m) \subseteq Ancestors(n)
    BY AncestorsClosed
  <2>2. Range(defaults[m]) \subseteq PropsOf(m)
    BY <2>1 DEF DefaultsOK, Range
  <2>3. PropsOf(m) \subseteq P
    BY <2>1 DEF PropsOf
  <2> QED BY <2>2, <2>3 DEF PropsOf
<1>5. PICK u \in [0..L -> Assembly] :
        /\ u[0] = [inits |-> start, whole |-> TRUE] /\ Assembled(n, ps) = u[L]
        /\ \A k \in 1..L : u[k] = With(u[k - 1], chain[k])
  BY <1>1, AssembledUp
<1>6. \A k \in 0..L : u[k].inits \in Seq(Entry)
  BY <1>5 DEF Assembly
<1>7. \A r : from(r) # {} => first(r) \in from(r) /\ \A l \in from(r) : first(r) <= l
  <2> SUFFICES ASSUME NEW r, from(r) # {} PROVE \E k \in from(r) : \A l \in from(r) : k <= l
    BY DEF Min
  <2> DEFINE T == from(r)
  <2>1. T \in SUBSET (0..L) /\ T # {}
    BY <1>2 DEF From
  <2> HIDE DEF T
  <2>2. PICK k \in T : \A l \in 0..k - 1 : l \notin T
    BY <1>2, <2>1, LeastOf
  <2>3. \A l \in T : k <= l
    BY <1>2, <2>1, <2>2
  <2> QED BY <2>3 DEF T
<1>8. \A r : \A k \in 1..L : k \in from(r) /\ (\A l \in 1..k - 1 : l \notin from(r)) => first(r) = k
  <2> SUFFICES ASSUME NEW r, NEW k \in 1..L, k \in from(r), \A l \in 1..k - 1 : l \notin from(r)
               PROVE  first(r) = k
    OBVIOUS
  <2>1. first(r) \in from(r) /\ first(r) <= k
    BY <1>7
  <2>2. first(r) \in 1..L
    BY <1>2, <2>1 DEF From
  <2> HIDE DEF from, first
  <2>3. ~(first(r) < k)
    BY <1>2, <2>1, <2>2
  <2> QED BY <1>2, <2>1, <2>2, <2>3
<1>9. \A r : \A k : k \in from(r) <=> k \in 1..L /\ r \in Range(defaults[chain[k]])
  BY <1>2 DEF From
<1> HIDE DEF L, P, start, G, from, first
<1> DEFINE Right(k) == \A e \in Range(u[k].inits) : e.prop \in P /\ e.by = source(e.prop)
           There(k) == \A r : r \in Present(u[k].inits) <=> r \in G \/ \E l \in 1..k : l \in from(r)
           Whole(k) == u[k].whole => \A l \in 1..k : \A i \in DOMAIN props[chain[l]] :
                         props[chain[l]][i].defer \/ <<chain[l], i>> \in Present(u[k].inits)
           Good(k) == Right(k) /\ There(k) /\ Whole(k)
<1> HIDE DEF chain
<1>10. Good(0)
  <2>0. \A l \in 1..0 : FALSE
    OBVIOUS
  <2>1. u[0].inits = start
    BY <1>5
  <2>2. Right(0)
    BY <2>1 DEF Present, G, start, P
  <2>3. There(0)
    BY <2>0, <2>1 DEF G
  <2> QED BY <2>0, <2>2, <2>3
<1>11. ASSUME NEW k \in 1..L, Good(k - 1) PROVE Good(k)
  <2> DEFINE m == chain[k]
             v == u[k - 1].inits
             D == Range(defaults[m])
             out == u[k].inits
  <2>1. m \in Names /\ m \in Ancestors(n) /\ defaults[m] \in Seq(Refs) /\ D \subseteq P /\ k - 1 \in 0..L /\ v \in Seq(Entry)
    BY <1>1, <1>2, <1>4, <1>6
  <2>2. /\ out = TakeDefaults(v, m)
        /\ u[k].whole => u[k - 1].whole /\ Complete(out, m)
    <3>1. u[k] = With(u[k - 1], m)
      BY <1>5
    <3> HIDE DEF m
    <3>2. out = TakeDefaults(v, m) /\ u[k].whole = (u[k - 1].whole /\ Complete(TakeDefaults(v, m), m))
      BY <3>1 DEF With
    <3> QED BY <3>2
  <2>3. \A e \in Range(v) : e.prop \in P /\ e.by = source(e.prop)
    BY <1>11
  <2>4. \A r : r \in Present(v) <=> r \in G \/ \E l \in 1..k - 1 : l \in from(r)
    BY <1>11
  <2>5. Present(v) \subseteq P
    BY <2>3 DEF Present
  <2>6. Whole(k - 1)
    BY <1>11
  <2>7. 1..k = (1..k - 1) \cup {k}
    BY <1>2
  <2> HIDE DEF v, D, out
  <2>8. Range(out) = Added(v, m, D) /\ Present(out) = Present(v) \cup D
    <3> HIDE DEF m
    <3> QED BY <1>3, <2>1, <2>2, <2>5, TakeAdds DEF D
  <2>9. \A r : r \in D <=> k \in from(r)
    BY <1>9 DEF D
  <2>10. There(k)
    BY <2>4, <2>7, <2>8, <2>9 DEF out
  <2>11. Right(k)
    <3> SUFFICES ASSUME NEW e \in Range(out) PROVE e.prop \in P /\ e.by = source(e.prop)
      BY DEF out
    <3>1. CASE e \in Range(v)
      BY <2>3, <3>1
    <3>2. CASE e \notin Range(v)
      <4>1. PICK r \in D \ Present(v) : e = [prop |-> r, by |-> m]
        BY <2>8, <3>2 DEF Added
      <4>2. r \notin G /\ k \in from(r) /\ \A l \in 1..k - 1 : l \notin from(r)
        BY <2>4, <2>9, <4>1
      <4>3. first(r) = k
        BY <1>8, <4>2
      <4> QED BY <2>1, <4>1, <4>2, <4>3
    <3> QED BY <3>1, <3>2
  <2>12. Whole(k)
    <3> SUFFICES ASSUME u[k].whole, NEW l \in 1..k, NEW i \in DOMAIN props[chain[l]], ~props[chain[l]][i].defer
                 PROVE  <<chain[l], i>> \in Present(out)
      BY DEF out
    <3>1. CASE l = k
      <4>1. Filled(out, <<m, i>>)
        BY <2>2, <3>1 DEF Complete
      <4>2. <<m, i>> \in P
        BY <1>4, <2>1, <3>1
      <4>3. Present(out) \subseteq P
        BY <2>1, <2>5, <2>8
      <4> QED BY <1>3, <3>1, <4>1, <4>2, <4>3, FilledIs
    <3>2. CASE l # k
      <4>1. l \in 1..k - 1
        BY <2>7, <3>2
      <4>2. <<chain[l], i>> \in Present(v)
        BY <2>2, <2>6, <4>1 DEF v
      <4> QED BY <2>8, <4>2
    <3> QED BY <3>1, <3>2
  <2> QED BY <2>10, <2>11, <2>12
<1> HIDE DEF Good
<1>12. Good(L)
  <2> DEFINE T == {k \in 0..L : ~Good(k)}
  <2>0. L \in 0..L
    BY <1>2
  <2> SUFFICES ASSUME T # {} PROVE FALSE
    BY <2>0
  <2>1. T \in SUBSET (0..L)
    OBVIOUS
  <2> HIDE DEF T
  <2>2. PICK k \in T : \A j \in 0..k - 1 : j \notin T
    BY <1>2, <2>1, LeastOf
  <2>3. k \in 0..L /\ ~Good(k)
    BY DEF T
  <2>4. k # 0
    BY <1>10, <2>3
  <2>5. k \in 1..L /\ k - 1 \in 0..L /\ k - 1 \in 0..k - 1
    BY <1>2, <2>3, <2>4
  <2>6. Good(k - 1)
    BY <2>2, <2>5 DEF T
  <2> QED BY <1>11, <2>3, <2>5, <2>6
<1> DEFINE inits == u[L].inits
<1>13. /\ inits \in Seq(Entry) /\ u[L].whole
       /\ \A e \in Range(inits) : e.by = source(e.prop)
       /\ \A r : r \in Present(inits) <=> r \in G \/ \E l \in 1..L : l \in from(r)
       /\ \A l \in 1..L : \A i \in DOMAIN props[chain[l]] :
            props[chain[l]][i].defer \/ <<chain[l], i>> \in Present(inits)
  <2>1. L \in 0..L
    BY <1>2
  <2> QED BY <1>5, <1>6, <1>12, <2>1 DEF Good
<1> HIDE DEF inits
<1>14. \A r : r \in Present(inits) <=> \E i \in DOMAIN inits : inits[i].prop = r
  BY DEF Present, Range
<1>15. \A r \in Present(inits) : StartsWith(inits, r) = source(r)
  BY <1>13, StartsWithOne
<1> DEFINE given == {inits[i].prop : i \in {j \in DOMAIN inits : inits[j].by = None}}
<1>16. \A r : r \in Present(inits) /\ r \notin G => source(r) # None
  <2> SUFFICES ASSUME NEW r, r \in Present(inits), r \notin G PROVE source(r) # None
    OBVIOUS
  <2>1. first(r) \in from(r)
    BY <1>7, <1>13
  <2>2. chain[first(r)] \in Names
    BY <1>2, <1>9, <2>1
  <2> QED BY <2>2, NoneAssumption
<1> HIDE DEF source
<1>17. \A i \in DOMAIN inits : inits[i].by = source(inits[i].prop) /\ inits[i].prop \in Present(inits)
  BY <1>13 DEF Range, Present
<1> USE DEF source
<1>18. given = G
  <2>1. \A i \in DOMAIN inits : inits[i].by = None <=> inits[i].prop \in G
    BY <1>16, <1>17
  <2>2. \A r \in G : \E i \in DOMAIN inits : inits[i].prop = r
    BY <1>13, <1>14
  <2> HIDE DEF source
  <2> QED BY <2>1, <2>2
<1> HIDE DEF given
<1>19. ASSUME NEW r \in P
       PROVE  /\ props[r[1]][r[2]].defer \/ \E i \in DOMAIN inits : inits[i].prop = r
              /\ r \in given => StartsWith(inits, r) = None
              /\ r \notin given /\ from(r) # {} =>
                   /\ \E i \in DOMAIN inits : inits[i].prop = r
                   /\ StartsWith(inits, r) = chain[first(r)]
  <2>1. props[r[1]][r[2]].defer \/ \E i \in DOMAIN inits : inits[i].prop = r
    <3>1. PICK a \in Ancestors(n) : r \in {<<a, i>> : i \in DOMAIN props[a]}
      BY DEF P, PropsOf
    <3>2. PICK i \in DOMAIN props[a] : r = <<a, i>>
      BY <3>1
    <3>3. PICK l \in 1..L : chain[l] = a
      BY <1>2
    <3>4. props[a][i].defer \/ <<a, i>> \in Present(inits)
      BY <1>13, <3>2, <3>3
    <3> QED BY <1>14, <3>2, <3>4
  <2>2. r \in given => StartsWith(inits, r) = None
    BY <1>13, <1>15, <1>18
  <2>3. r \notin given /\ from(r) # {} =>
          /\ \E i \in DOMAIN inits : inits[i].prop = r
          /\ StartsWith(inits, r) = chain[first(r)]
    <3> SUFFICES ASSUME r \notin given, from(r) # {}
                 PROVE  r \in Present(inits) /\ StartsWith(inits, r) = chain[first(r)]
      BY <1>14
    <3>1. r \in Present(inits)
      BY <1>7, <1>9, <1>13
    <3> QED BY <1>15, <1>18, <3>1
  <2> QED BY <2>1, <2>2, <2>3
<1>20. Assembled(n, ps).inits = inits
  BY <1>5 DEF inits
<1>21. ValuesOf(n, inits)
  BY <1>19 DEF ValuesOf, given, from, first, P, chain
<1> QED BY <1>20, <1>21

LEMMA SameValues ==
  ASSUME NEW n \in Names, NEW inits, ValuesOf(n, inits), UNCHANGED <<base, defaults>>, PropsOf(n)' = PropsOf(n),
         \A r \in PropsOf(n) : props'[r[1]][r[2]].defer = props[r[1]][r[2]].defer
  PROVE  ValuesOf(n, inits)'
<1>1. Chain(n)' = Chain(n)
  BY DEF Chain
<1>2. \A r : From(n, r)' = From(n, r)
  BY <1>1 DEF From
<1> QED BY <1>1, <1>2 DEF ValuesOf

\* Only a new expression makes an object.
LEMMA CreatedStep ==
  ASSUME TypeOK, LInv, DefaultsOK, CreatedWhole, [Next]_vars
  PROVE  CreatedWhole'
<1>1. CASE \E n \in Names, ps \in InitLists \cup {<<>>}, braces \in BOOLEAN : Create(n, ps, braces)
  <2> PICK n \in Names, ps \in InitLists \cup {<<>>}, braces \in BOOLEAN : Create(n, ps, braces)
    BY <1>1
  <2>0. PICK inits : inits = Assembled(n, ps).inits
    OBVIOUS
  <2>1. /\ Link({n}) /\ UNCHANGED <<base, defaults>>
        /\ \A i \in DOMAIN ps : FindProp(n, ps[i]) # NoProp
        /\ Assembled(n, ps).whole
        /\ created'.of = n /\ created'.inits = inits
    BY <2>0 DEF Create, MayCreate
  <2>2. Forest /\ ItemsOK
    BY DEF LInv
  <2>3. /\ Given(n, ps) \in Seq(Entry)
        /\ \A e \in Range(Given(n, ps)) : e.prop \in PropsOf(n) /\ e.by = None
    BY <2>1, <2>2, GivenIs
  <2>4. ValuesOf(n, inits)
    BY <2>0, <2>1, <2>3, WholeObject
  <2>5. \A m \in Names : /\ DOMAIN props'[m] = DOMAIN props[m]
                         /\ \A i \in DOMAIN props[m] : props'[m][i].defer = props[m][i].defer
    BY <2>1, <2>2, LinkKeeps
  <2>6. Ancestors(n)' = Ancestors(n) /\ Ancestors(n) \subseteq Names
    BY <2>1 DEF Ancestors
  <2>7. PropsOf(n)' = PropsOf(n)
    BY <2>5, <2>6 DEF PropsOf
  <2>8. \A r \in PropsOf(n) : props'[r[1]][r[2]].defer = props[r[1]][r[2]].defer
    BY <2>5, <2>6 DEF PropsOf
  <2>9. ValuesOf(n, inits)'
    BY <2>1, <2>4, <2>7, <2>8, SameValues
  <2> QED BY <2>1, <2>9 DEF CreatedWhole, ValuesOf
<1>2. CASE UNCHANGED vars
  <2>1. UNCHANGED <<base, defaults, props, created>>
    BY <1>2 DEF vars, bodies
  <2>2. \A n \in Names : PropsOf(n)' = PropsOf(n)
    BY <2>1 DEF PropsOf, Ancestors
  <2> SUFFICES ASSUME NEW n \in Names, created.of = n, ValuesOf(n, created.inits)
               PROVE  ValuesOf(n, created.inits)'
    BY <2>1 DEF CreatedWhole
  <2>3. PICK inits : inits = created.inits
    OBVIOUS
  <2>4. ValuesOf(n, inits)'
    BY <2>1, <2>2, <2>3, SameValues
  <2> QED BY <2>1, <2>3, <2>4 DEF ValuesOf
<1>3. CASE created' = Nothing
  BY <1>3, NoneAssumption DEF CreatedWhole, Nothing
<1> QED
  BY <1>1, <1>2, <1>3
  DEF Next, Within, Mention, Begin, End, Override, DeclProp, Finish, RejectBegin, RejectItem, RejectCreate, RejectFinish, Reject

\* CreatedWholeCorrect: in every program a new object has a value for every property that is
\* not deferinit, the one given by name if there is one, else the default of the nearest
\* record that has one, however many records it inherits from.
THEOREM CreatedWholeCorrect == Spec => []CreatedWhole
<1>1. Init => CreatedWhole
  BY NoneAssumption DEF Init, CreatedWhole, Nothing
<1>2. TypeOK /\ LInv /\ DefaultsOK /\ CreatedWhole /\ [Next]_vars => CreatedWhole'
  BY CreatedStep
<1> QED BY <1>1, <1>2, Invariance, LayoutInvariance, DefaultsInvariance, PTL DEF Spec, RInv
=============================================================================
