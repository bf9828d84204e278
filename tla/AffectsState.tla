---------------------------- MODULE AffectsState ----------------------------
(***************************************************************************)
(* Which values of a procedure's body the compiler keeps.  Before it       *)
(* allocates registers, postproc.c marks every value that "affects state"  *)
(* and every variable that "is used", repeats the marking until no new     *)
(* variable is found, runs the garbage collection analysis, and repeats    *)
(* the marking once more, now also keeping the stores into objects the     *)
(* analysis found to belong to a caller.  compiler.c emits nothing for a   *)
(* value without the mark, so an effect the marking misses is an effect    *)
(* the compiled program does not have.                                     *)
(*                                                                         *)
(* A value is a tree; `v' is the variable, the constant or the operator    *)
(* it names.  A place is the path from the body to a value in it.          *)
(***************************************************************************)
EXTENDS Naturals, Sequences, FiniteSets, TLC, Functions

Node(op, v, kids) == [op |-> op, v |-> v, kids |-> kids]

Prim(c)          == Node("prim", c, << >>)
Var(v)           == Node("var", v, << >>)
SetVar(v, e)     == Node("set", v, <<e>>)
Bin(l, r)        == Node("bin", "+", <<l, r>>)
Neg(e)           == Node("neg", "-", <<e>>)
Post(e)          == Node("post", "++", <<e>>)
Pre(e)           == Node("pre", "++", <<e>>)
NewArray(size)   == Node("newarray", "array", <<size>>)
NewRecord(inits) == Node("new", "given", inits)
NewDefault(e)    == Node("new", "default", <<e>>)
GetProp(r)       == Node("get", "f", <<r>>)
SetProp(r, e)    == Node("put", "f", <<r, e>>)
GetIndex(a, i)   == Node("at", "i", <<a, i>>)
SetIndex(a, i, e) == Node("putat", "i", <<a, i, e>>)
Call(args)       == Node("call", "p", args)
Foreign(input)   == Node("foreign", "f", <<input>>)

Decl(v, e)   == [st |-> "decl", v |-> v, e |-> e, body |-> << >>]
Do(e)        == [st |-> "value", v |-> "", e |-> e, body |-> << >>]
Return(e)    == [st |-> "return", v |-> "", e |-> e, body |-> << >>]
If(e, body)  == [st |-> "if", v |-> "", e |-> e, body |-> body]

Stores == {"put", "putat"}
Steps  == {"post", "pre"}

\* The variable an increment names, directly or through an assignment.
Stepped(e) == e.kids[1].v

-----------------------------------------------------------------------------

(* Whether an object is reached through a variable already known to be     *)
(* used, or comes from outside.                                            *)
RECURSIVE ComesFromUsedVar(_, _)
ComesFromUsedVar(used, e) ==
  CASE e.op = "var"                  -> e.v \in used
    [] e.op = "set"                  -> e.v \in used \/ ComesFromUsedVar(used, e.kids[1])
    [] e.op \in {"call", "foreign"}  -> TRUE
    [] e.op = "new"                  -> \E k \in DOMAIN e.kids : ComesFromUsedVar(used, e.kids[k])
    [] e.op \in {"get", "at"}        -> ComesFromUsedVar(used, e.kids[1])
    [] e.op \in Stores               -> \/ ComesFromUsedVar(used, e.kids[1])
                                        \/ ComesFromUsedVar(used, e.kids[Len(e.kids)])
    [] OTHER                         -> FALSE

\* Mutant of HandedDown: the stores into a caller's object are not kept.
HandedDownLocal(s, e, p, aff) ==
  CASE e.op \in {"call", "foreign"} -> TRUE
    [] e.op = "set"                 -> e.v \in s.used
    [] e.op \in Steps               -> aff \/ Stepped(e) \in s.used
    [] e.op \in Stores              -> aff \/ ComesFromUsedVar(s.used, e.kids[1])
    [] OTHER                        -> aff

\* The mark an operator hands to its operands.
HandedDown(s, e, p, aff) ==
  CASE e.op \in {"call", "foreign"} -> TRUE
    [] e.op = "set"                 -> e.v \in s.used
    [] e.op \in Steps               -> aff \/ Stepped(e) \in s.used
    [] e.op \in Stores              -> aff \/ p \in s.ext \/ ComesFromUsedVar(s.used, e.kids[1])
    [] OTHER                        -> aff

\* The mark an operator has of its own, once its operands are marked.
OwnMark(s, e, p, aff, down) ==
  CASE e.op = "set"               -> e.v \in s.used
    [] e.op \in Steps             -> Stepped(e) \in s.used
    [] e.op \in Stores            -> down
    [] e.op \in {"call", "foreign"} -> TRUE
    [] OTHER                      -> aff

(* Marks a value and its operands, left to right.  A store hands each      *)
(* operand the mark it has itself by then, every other operator the mark   *)
(* it started with.                                                        *)
RECURSIVE MarkValue(_, _, _, _), MarkOperands(_, _, _, _, _)
MarkValue(s, e, p, aff) ==
  LET s0   == IF aff /\ e.op \in {"var", "set"}
              THEN [s EXCEPT !.used = @ \cup {e.v}] ELSE s
      down == HandedDown(s0, e, p, aff)
      s1   == MarkOperands(s0, e, p, down, 1)
      mark == \/ OwnMark(s1, e, p, aff, down)
              \/ \E k \in DOMAIN e.kids : s1.mark[Append(p, k)]
  IN  [s1 EXCEPT !.mark = (p :> mark) @@ @]
MarkOperands(s, e, p, down, k) ==
  IF k > Len(e.kids) THEN s
  ELSE LET t == MarkValue(s, e.kids[k], Append(p, k), down)
       IN  MarkOperands(t, e, p,
                        down \/ (e.op \in Stores /\ t.mark[Append(p, k)]), k + 1)

(* One pass over a block: an initialiser counts if its variable is used, a *)
(* statement's value does not by itself, a condition and a result do.      *)
RECURSIVE MarkBlock(_, _, _, _)
MarkBlock(s, block, p, i) ==
  IF i > Len(block) THEN s
  ELSE LET st == block[i]
           q  == Append(p, i)
           s1 == MarkValue(s, st.e, Append(q, 0),
                           CASE st.st = "decl" -> st.v \in s.used
                             [] st.st = "value" -> FALSE
                             [] OTHER -> TRUE)
       IN  MarkBlock(MarkBlock(s1, st.body, q, 1), block, p, i + 1)

\* The marking, repeated until a pass finds no new used variable.
RECURSIVE Marked(_, _, _)
Marked(used, ext, body) ==
  LET t == MarkBlock([used |-> used, mark |-> << >>, ext |-> ext], body, << >>, 1)
  IN  IF t.used = used THEN t ELSE Marked(t.used, ext, body)

-----------------------------------------------------------------------------

(* What the garbage collection analysis knows of the object a value is: a  *)
(* parameter's belongs to the caller, a new one to this procedure, and a   *)
(* variable has the status of what it was last assigned.                   *)
RECURSIVE GcStatus(_, _, _)
GcStatus(env, used, e) ==
  CASE e.op = "var" -> env[e.v]
    [] e.op = "set" -> IF e.v \in used THEN GcStatus(env, used, e.kids[1]) ELSE "none"
    [] e.op \in {"new", "newarray", "foreign"} -> "local"
    [] e.op = "call" -> "unknown"
    [] OTHER -> "none"

\* The places of the stores in a value whose object is not this procedure's.
RECURSIVE ForeignStores(_, _, _, _)
ForeignStores(env, used, e, p) ==
  (IF e.op \in Stores /\ GcStatus(env, used, e.kids[1]) \in {"extern", "unknown"}
   THEN {p} ELSE {})
    \cup UNION {ForeignStores(env, used, e.kids[k], Append(p, k)) : k \in DOMAIN e.kids}

(* The same over a block.  A branch works on a copy of the statuses, which *)
(* is dropped where the branch ends.                                       *)
RECURSIVE ForeignStoresOf(_, _, _, _, _)
ForeignStoresOf(env, used, block, p, i) ==
  IF i > Len(block) THEN {}
  ELSE LET st   == block[i]
           q    == Append(p, i)
           env1 == CASE st.st = "decl" -> (st.v :> GcStatus(env, used, st.e)) @@ env
                     [] st.st = "value" /\ st.e.op = "set" /\ st.e.v \in used
                          -> (st.e.v :> GcStatus(env, used, st.e.kids[1])) @@ env
                     [] OTHER -> env
       IN  ForeignStores(env, used, st.e, Append(q, 0))
             \cup ForeignStoresOf(env, used, st.body, q, 1)
             \cup ForeignStoresOf(env1, used, block, p, i + 1)

\* What is_used says while the analysis runs: the first marking's result.
FirstUsed(prog) == Marked({}, {}, prog.body).used

(* ast_postproc: the first marking, the analysis, the second marking.      *)
Postprocessed(prog) ==
  LET first == FirstUsed(prog)
      env   == [v \in Range(prog.params) |-> "extern"]
  IN  Marked(first, ForeignStoresOf(env, first, prog.body, << >>, 1), prog.body)

\* The body with the marks written into it.
RECURSIVE WithMarks(_, _, _)
WithMarks(e, mark, p) ==
  [op |-> e.op, v |-> e.v, live |-> mark[p],
   kids |-> [k \in DOMAIN e.kids |-> WithMarks(e.kids[k], mark, Append(p, k))]]

RECURSIVE BlockWithMarks(_, _, _)
BlockWithMarks(block, mark, p) ==
  [i \in DOMAIN block |->
     [block[i] EXCEPT !.e    = WithMarks(@, mark, Append(Append(p, i), 0)),
                      !.body = BlockWithMarks(@, mark, Append(p, i))]]
=============================================================================
