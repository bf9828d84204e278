------------------------------ MODULE MCScopes ------------------------------
(* Scopes for TLC: three files of up to two words that may include each      *)
(* other in every way, with limits they can exceed; and programs of up to    *)
(* five words in one file, or a block that another file begins or ends.      *)
EXTENDS Scopes
CONSTANTS root, a, b, x, fn, thisproc, none
W(op, name, param) == [type |-> "word", op |-> op, name |-> name, param |-> param]
Neutral == W("do", none, none)
Opening == {W("open", none, none), W("proc", fn, none), W("proc", fn, x)}
Closing == W("close", none, none)
Simple == {W("decl", x, none), W("decl", fn, none), W("global", x, none),
           W("use", x, none), W("default", x, none)}
Words == {Neutral, Closing} \cup Opening \cup Simple

Short(S, n) == UNION {[1 .. k -> S] : k \in 0 .. n}
Includes ==
    {t \in [Path -> Short(Include \cup {Neutral}, 2) \cup {<<w>> : w \in Invalid}] :
        t[root] # << >>}

Openers(t) == {i \in DOMAIN t : t[i] \in Opening}
Closers(t) == {i \in DOMAIN t : t[i] = Closing}
Balanced(t) ==
    /\ Cardinality(Openers(t)) = Cardinality(Closers(t))
    /\ \A k \in DOMAIN t :
        Cardinality({i \in Closers(t) : i <= k}) <= Cardinality({i \in Openers(t) : i <= k})
Programs ==
    {t \in Short(Words \ {Neutral}, 3) : t # << >>}
    \cup {t \in [1 .. 4 -> Words \ {Neutral}] \cup [1 .. 5 -> Words \ {Neutral, W("decl", fn, none)}] :
            Openers(t) # {} /\ Balanced(t)}
OneFile == {[p \in Path |-> IF p = root THEN t ELSE << >>] : t \in Programs}
Split ==
    {[p \in Path |-> IF p = root THEN t ELSE IF p = a THEN u ELSE << >>] :
        t \in {v \in [1 .. 3 -> Opening \cup {Closing, W("use", x, none)} \cup [type : {"include"}, path : {a}]] :
                 \E i \in 1 .. 3 : v[i].type = "include"},
        u \in {<<c>> : c \in {Closing} \cup Simple} \cup {<<c, W("decl", x, none)>> : c \in Opening}}
SomeTexts == Includes \cup OneFile \cup Split
Injective == CHOOSE h \in [Path -> 1 .. 3] : \A p, q \in Path : h[p] = h[q] => p = q
=============================================================================
