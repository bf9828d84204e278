----------------------------- MODULE MCCodeGen ------------------------------
(* Bodies for CodeGen: deep expressions, straight-line code, creations that *)
(* share a default value, and top-level code.                               *)
EXTENDS CodeGen

Params == <<"x", "r", "t", "c", "arr">>
Body(stmts) == [top |-> FALSE, params |-> Params, body |-> stmts]
TopLevel(stmts) == [top |-> TRUE, params |-> << >>, body |-> stmts]

Leaves == {Prim("1"), Var("x"), Var("z")}

\* One operator over operands without assignments.
Over(S) ==
  {Bin(l, r) : l, r \in S} \cup {Call(<<l, r>>) : l, r \in S}
    \cup {GetProp(NewRecord(<<l, r>>)) : l, r \in S}
    \cup {Neg(e) : e \in S} \cup {GetIndex(Var("arr"), e) : e \in S}
    \cup {Foreign(e) : e \in S} \cup {GetProp(Var("r"))}

Shallow == Leaves \cup Over(Leaves)
DeepValues == Over(Shallow)

\* An assignment as the last operand.  Where the operator has a place of its
\* own for the operand, what is assigned is not itself the result of a call
\* or of a unary operator.
Unplaced(e) == e.op \notin {"call", "neg"}
Steppings == {Post(Var("z")), Pre(Var("z"))}
Assigning ==
  {Bin(l, SetProp(Var("r"), e)) : l, e \in Shallow}
    \cup {Bin(l, e) : l \in Shallow \ {Var("z")}, e \in Steppings}
    \cup {Call(<<l, e>>) : l \in Shallow, e \in Steppings}
    \cup {Call(<<l, SetProp(Var("r"), e)>>) : l \in Shallow, e \in {f \in Shallow : Unplaced(f)}}
    \cup {GetIndex(Var("arr"), SetProp(Var("r"), e)) : e \in Shallow}
    \cup {SetIndex(Var("arr"), l, e) : l, e \in {f \in Shallow : Unplaced(f)}}
    \* examples/linked_list.csh: a new object put into a property, and returned
    \cup {SetProp(Var("r"), GetProp(NewRecord(<<e>>))) : e \in Shallow}

Prelude == <<Decl("z", Call(<<Var("x")>>)), Decl("y", Bin(Var("z"), Var("x")))>>

Expressions == {Body(Prelude \o <<Do(Pre(Var("z"))), Return(e)>>) : e \in DeepValues \cup Assigning}

\* Straight-line code: what is declared, what is done, what is returned.
Objects == {Var("r"), NewRecord(<<Var("x")>>)}
Small == {Prim("1"), Var("x"), Var("z"), GetProp(Var("b")), Foreign(Var("x"))}
Effects ==
  {Do(SetVar("z", e)) : e \in Small} \cup {Do(SetProp(Var("b"), e)) : e \in Small}
    \cup {Do(Call(<<Var("z")>>)), Do(Pre(Var("z"))), Do(SetVar("w", Var("z")))}
Branches == {If(Var(v), <<Decl("u", e), s>>) :
             v \in {"t", "c"}, e \in {Var("z"), Bin(Var("x"), Var("z"))},
             s \in {Do(SetVar("z", Bin(Var("u"), Var("u")))), Return(Var("u")),
                    Do(SetProp(Var("b"), Var("u")))}}
StraightLine ==
  {Body(<<Decl("z", Call(<<Var("x")>>)), Decl("w", Var("x")), Decl("b", o), s1, s2, Return(e)>>) :
     o \in Objects, s1 \in Effects, s2 \in Effects \cup Branches,
     e \in {Prim("1"), Var("z"), Var("w"), GetProp(Var("b"))}}

\* An array of the body's own: its size, a store and a load.
Indices == {Prim("1"), Var("z"), Bin(Var("x"), Var("z")), Foreign(Var("z"))}
Arrays ==
  {Body(<<Decl("z", Call(<<Var("x")>>)), Decl("n", NewArray(size)),
          Do(SetIndex(Var("n"), i, e)), Return(Bin(GetIndex(Var("n"), i), Var("z")))>>) :
     size \in Indices, i \in Indices \ {Foreign(Var("z"))},
     e \in Indices \cup {GetProp(Var("r")), Call(<<Var("z")>>)}}

\* Two creations with one default, the second no lower in the frame.
SharedDefaults ==
  {Body(<<Decl("p", NewDefault(Prim("1"))), Decl("q", NewDefault(Prim("1"))),
          Return(Bin(GetProp(Var("p")), e))>>) : e \in {GetProp(Var("q")), Var("x")}}
    \cup {Body(<<Decl("p", NewDefault(d)), Decl("q", NewDefault(d)),
                 Return(Bin(GetProp(Var("p")), e))>>) :
            d \in {Foreign(Prim("1")), Bin(Prim("1"), Prim("1"))},
            e \in {GetProp(Var("q")), Var("x")}}

\* Top-level code with locals; its statements do not compute values.
TopLevelCode ==
  {TopLevel(<<Decl("z", Foreign(Prim("1"))), Decl("w", Bin(Var("z"), Prim("1"))), s1, s2>>) :
     s1, s2 \in {Do(Call(<<Var("z"), Bin(Var("w"), Var("z"))>>)), Do(Pre(Var("w"))),
                 Do(SetVar("z", Bin(Var("w"), Var("w")))), Do(SetVar("w", Foreign(Var("z"))))}}

\* A list with the default of stdlib/data/list.csh in a branch, below another
\* local, and one more after the branch.
ListTwice ==
  {Body(<<If(Var(v), <<Decl("u", Call(<<Var("x")>>)), Decl("p", NewDefault(NewArray(Prim("15")))),
                       Do(Call(<<Var("u"), e>>))>>),
          Decl("q", NewDefault(NewArray(Prim("15")))), Return(Var("q"))>>) :
     v \in {"t", "c"}, e \in {Var("p"), GetProp(Var("p"))}}

\* A local that only a store into the caller's record reads: declared from a
\* constant or another variable, and assigned before the store or not.
Starts == {Prim("1"), Var("x"), Var("z"), Bin(Var("x"), Prim("1"))}
StoredLocals ==
  {Body(<<Decl("z", Call(<<Var("x")>>)), Decl("w", e1), s, Do(SetProp(Var("r"), Var("w"))),
          Return(e2)>>) :
     e1 \in Starts, s \in {Do(SetVar(v, e)) : v \in {"w", "x", "z"}, e \in Starts} \cup {Do(Pre(Var("w"))), Do(Call(<<Var("w")>>))},
     e2 \in {Prim("1"), Var("x"), Bin(Var("z"), GetProp(Var("r")))}}

MCPrograms == StoredLocals \cup Expressions \cup Arrays \cup StraightLine \cup SharedDefaults \cup TopLevelCode
=============================================================================
