------------------------------ MODULE CodeGen -------------------------------
(***************************************************************************)
(* From a procedure's body to the instructions of the emitted program, and *)
(* what running them does.  compiler.c walks the body a second time, with  *)
(* the registers of RegAlloc, and emits; each instruction is a line of C   *)
(* whose effect on the stack and the heap emit.c gives.                    *)
(*                                                                         *)
(* Beside the machine stands Meaning: what the body means when operands    *)
(* are evaluated once, left to right, and every assignment happens.  A     *)
(* value is a term over the parameters' initial values, so that two        *)
(* computations agree only if they did the same operations on the same     *)
(* operands.                                                               *)
(***************************************************************************)
EXTENDS RegAlloc

CONSTANTS Programs,    \* the bodies compiled
          MaxReg       \* bound: the registers of a frame that are modelled

ASSUME MaxRegAssumption == MaxReg \in Nat

Junk == <<"junk">>

IsObject(v) == v[1] = "object"
ObjectAt(n) == <<"object", n>>

\* The elements not stored here are those of the caller's array: indices are
\* taken to be within it, so that no load panics.
Elem(obj, key) == IF key \in DOMAIN obj THEN obj[key] ELSE <<"initial", key>>

\* Elements are kept under index values; properties under constant ones.
Key(c) == <<"constant", c>>
PropName(k) == IF k = 1 THEN "f" ELSE "g"

\* The parameters before the call: "r" is a record, "arr" an array, "t" is
\* true, the others are plain values.
Initially(v) == CASE v = "r"   -> ObjectAt(1)
                  [] v = "arr" -> ObjectAt(2)
                  [] v = "t"   -> Key("true")
                  [] OTHER     -> <<"initial", v>>
HeapBefore == << Key("f") :> <<"initial", "r.f">>, << >> >>

-----------------------------------------------------------------------------
(* The meaning of a body.                                                  *)

RECURSIVE Eval(_, _), EvalAll(_, _, _), Exec(_, _, _), StoreInits(_, _, _, _)

\* s.v is the value of what was evaluated last, s.vs the values of operands.
Eval(s, e) ==
  LET r == EvalAll([s EXCEPT !.vs = << >>], e.kids, 1)
      Of(v) == [r EXCEPT !.v = v, !.vs = s.vs]
      Stored(key) ==
        LET o == r.vs[1][2]
        IN  [Of(r.vs[Len(r.vs)]) EXCEPT !.heap[o] = (key :> r.vs[Len(r.vs)]) @@ @]
      Caused(name) == LET c == <<name>> \o r.vs
                      IN  [Of(c) EXCEPT !.calls = Append(@, c)]
  IN
  CASE e.op = "prim"     -> Of(Key(e.v))
    [] e.op = "var"      -> Of(r.env[e.v])
    [] e.op = "set"      -> [Of(r.vs[1]) EXCEPT !.env[e.v] = r.vs[1]]
    [] e.op \in {"bin", "neg"} -> Of(<<e.v>> \o r.vs)
    [] e.op = "post"     -> [Of(r.vs[1]) EXCEPT !.env[Stepped(e)] = <<"++", @>>]
    [] e.op = "pre"      -> [Of(<<"++", r.vs[1]>>) EXCEPT !.env[Stepped(e)] = <<"++", @>>]
    [] e.op = "get"      -> Of(Elem(r.heap[r.vs[1][2]], Key("f")))
    [] e.op = "at"       -> Of(Elem(r.heap[r.vs[1][2]], r.vs[2]))
    [] e.op = "put"      -> Stored(Key("f"))
    [] e.op = "putat"    -> Stored(r.vs[2])
    [] e.op = "newarray" -> [Of(ObjectAt(Len(r.heap) + 1)) EXCEPT
                               !.heap = Append(@, (Key("#") :> r.vs[1]))]
    [] e.op = "new"      -> LET o  == Len(s.heap) + 1
                                s1 == [s EXCEPT !.heap = Append(@, << >>)]
                            IN  [StoreInits(s1, e, o, 1) EXCEPT !.v = ObjectAt(o)]
    [] e.op \in {"call", "foreign"} -> Caused(e.op)

EvalAll(s, es, k) ==
  IF k > Len(es) THEN s
  ELSE LET t == Eval(s, es[k])
       IN  EvalAll([t EXCEPT !.vs = Append(s.vs, t.v)], es, k + 1)

StoreInits(s, e, o, k) ==
  IF k > Len(e.kids) THEN s
  ELSE LET t == Eval(s, e.kids[k])
       IN  StoreInits([t EXCEPT !.heap[o] = (Key(PropName(k)) :> t.v) @@ @], e, o, k + 1)

Exec(s, block, i) ==
  IF s.done \/ i > Len(block) THEN s
  ELSE LET st == block[i]
           t  == Eval(s, st.e)
       IN  CASE st.st = "decl"   -> Exec([t EXCEPT !.env = (st.v :> t.v) @@ @], block, i + 1)
             [] st.st = "value"  -> Exec(t, block, i + 1)
             [] st.st = "return" -> [t EXCEPT !.done = TRUE]
             [] st.st = "if"     ->
                  Exec(IF t.v = Key("true") THEN Exec(t, st.body, 1) ELSE t,
                       block, i + 1)

Meaning(prog) ==
  Exec([env   |-> [v \in Range(prog.params) |-> Initially(v)],
        heap  |-> HeapBefore, calls |-> << >>, v |-> Junk, vs |-> << >>, done |-> FALSE],
       prog.body, 1)

-----------------------------------------------------------------------------
(* The instructions.                                                       *)

Ins(op, d, s) == <<[op |-> op, d |-> d, s |-> s, n |-> 0]>>
InsN(op, d, s, n) == <<[op |-> op, d |-> d, s |-> s, n |-> n]>>

\* The register recorded for a value, if it was given one.
RegOf(a, id) == IF id \in DOMAIN a.reg THEN a.reg[id] ELSE NoTarget

\* Mutant of MoveIf: a value is taken to be where it is wanted.
MoveNever(cond, to, from) == << >>

MoveIf(cond, to, from) == IF cond THEN Ins("move", to, <<from>>) ELSE << >>

\* A creation emits the object first, then stores each value as it is
\* computed; an array's size is computed before.
ObjectCode(a, e, id, operands) ==
  IF e.op = "newarray" THEN operands \o Ins("alloc", RegOf(a, id), <<RegOf(a, Append(id, 1))>>)
  ELSE Ins("alloc", RegOf(a, id), << >>) \o operands

\* A call takes the registers above its own, and leaves its result there.
CallCode(a, e, id, operands) ==
  operands \o InsN("call", RegOf(a, id), [k \in DOMAIN e.kids |-> Local(a.offset[id] + k)],
                   a.offset[id])

\* What follows an operand at once: a new object's value is stored, an
\* argument not computed in its place is moved there.
AfterOperand(a, e, id, k, kid) ==
  CASE e.op = "new"  -> Ins("store", RegOf(a, id), <<Global(PropName(k)), RegOf(a, kid)>>)
    [] e.op = "call" -> MoveIf(kid \in DOMAIN a.move /\ a.move[kid],
                               Local(a.offset[id] + k), RegOf(a, kid))
    [] OTHER         -> << >>

RECURSIVE CompileValue(_, _, _), CompileOperands(_, _, _, _), CompileBlock(_, _, _, _)

\* compile_value.
CompileValue(a, e, id) ==
  LET R(k)     == RegOf(a, IdOf(e, id, k))
      me       == RegOf(a, id)
      last     == Len(e.kids)
      operands == CompileOperands(a, e, id, 1)
      kid1     == CompileValue(a, e.kids[1], Append(id, 1))
      index(k) == IF Immediate(e, k) THEN Global(e.kids[k].v) ELSE R(k)
  IN
  IF ~e.live THEN << >>
  ELSE
  CASE e.op \in {"prim", "var"} -> << >>
    [] e.op = "set" ->
         kid1 \o (IF e.v \in a.used
                  THEN MoveIf(a.move[Append(id, 1)], a.var[e.v], R(1)) ELSE << >>)
    [] e.op = "put" ->
         IF e.kids[1].live THEN operands \o Ins("store", R(1), <<Global("f"), R(2)>>)
         ELSE CompileValue(a, e.kids[last], Append(id, last))
    [] e.op = "putat" ->
         IF e.kids[1].live THEN operands \o Ins("store", R(1), <<index(2), R(3)>>)
         ELSE CompileValue(a, e.kids[last], Append(id, last))
    [] e.op = "get" -> operands \o Ins("load", me, <<R(1), Global("f")>>)
    [] e.op = "at"  -> operands \o Ins("load", me, <<R(1), index(2)>>)
    [] e.op \in {"bin", "neg"} ->
         operands \o Ins(e.v, me, [k \in DOMAIN e.kids |-> R(k)])
    [] e.op = "post" -> kid1 \o Ins("move", me, <<R(1)>>) \o Ins("inc", R(1), << >>)
    [] e.op = "pre"  -> kid1 \o Ins("inc", R(1), << >>)
    [] e.op \in {"new", "newarray"} -> ObjectCode(a, e, id, operands)
    [] e.op = "call" -> CallCode(a, e, id, operands)
    [] e.op = "foreign" -> operands \o Ins("foreign", me, <<R(1)>>)

\* The operands in turn, and what follows each of them at once.
CompileOperands(a, e, id, k) ==
  IF k > Len(e.kids) THEN << >>
  ELSE LET kid == IdOf(e, id, k)
       IN  (IF Immediate(e, k) THEN << >> ELSE CompileValue(a, e.kids[k], kid))
           \o AfterOperand(a, e, id, k, kid)
           \o CompileOperands(a, e, id, k + 1)

\* compile_conditional, for an if without else.
IfCode(a, id, value, body) ==
  value \o InsN("jumpcheck", NoTarget, <<a.reg[id]>>, Len(body)) \o body

\* The result is moved unless it is in its place already.
ReturnCode(a, id, value) ==
  value \o MoveIf(a.move[id] /\ a.reg[id] # ResultReg, ResultReg, a.reg[id])
        \o Ins("return", NoTarget, << >>)

(* compile_code_block.                                                     *)
CompileBlock(a, block, p, i) ==
  IF i > Len(block) THEN << >>
  ELSE
  LET st    == block[i]
      q     == Append(p, i)
      id    == Append(q, 0)
      value == CompileValue(a, st.e, id)
      body  == CompileBlock(a, st.body, q, 1)
  IN
  (CASE st.st = "decl" ->
          value \o (IF st.v \in a.used THEN MoveIf(a.move[id], a.var[st.v], a.reg[id])
                    ELSE << >>)
     [] st.st = "value" -> value
     [] st.st = "if"     -> IfCode(a, id, value, body)
     [] st.st = "return" -> ReturnCode(a, id, value))
  \o CompileBlock(a, block, p, i + 1)

-----------------------------------------------------------------------------
(* The machine.                                                            *)

VARIABLES prog,     \* the body
          frame,    \* what the compiler decided about it: registers, frame size
          code,     \* the instructions
          pc,       \* the next one; 0 before the body is compiled
          loc,      \* the frame's registers
          lost,     \* the constants whose register was written, with its value
          heap,     \* the objects
          calls     \* the calls made, with their arguments

vars == <<prog, frame, code, pc, loc, lost, heap, calls>>

Init ==
  /\ prog \in Programs
  /\ frame = [var |-> << >>, used |-> {}, maxLocal |-> 0]
  /\ code = << >> /\ pc = 0
  /\ loc = [n \in 0..MaxReg |-> IF ~prog.top /\ n \in DOMAIN prog.params
                                THEN Initially(prog.params[n]) ELSE Junk]
  /\ lost = << >>
  /\ heap = HeapBefore /\ calls = << >>

Compile ==
  /\ pc = 0
  /\ LET a == Allocated(prog)
     IN  /\ frame' = [var |-> a.var, used |-> a.used, maxLocal |-> a.maxLocal]
         /\ code' = CompileBlock(a, a.body, << >>, 1)
                      \o (IF prog.top THEN Ins("abort", NoTarget, << >>) ELSE << >>)
  /\ pc' = 1
  /\ UNCHANGED <<prog, loc, lost, heap, calls>>

Val(r) == CASE r[1] = "local"  -> loc[r[2]]
            [] r[1] = "global" -> IF r[2] \in DOMAIN lost THEN lost[r[2]] ELSE Key(r[2])
            [] OTHER           -> Junk

Running == pc \in DOMAIN code
ins == code[pc]
In(k) == Val(ins.s[k])
Inputs == [k \in DOMAIN ins.s |-> In(k)]

\* The instruction puts v into its destination and goes on to the next.
Yields(v) == /\ loc' = IF ins.d[1] = "local" THEN [loc EXCEPT ![ins.d[2]] = v] ELSE loc
             /\ lost' = IF ins.d[1] = "global" THEN (ins.d[2] :> v) @@ lost ELSE lost
             /\ pc' = pc + 1
             /\ UNCHANGED <<prog, frame, code>>

At(op) == Running /\ ins.op = op

Move == At("move") /\ Yields(In(1)) /\ UNCHANGED <<heap, calls>>

Operate == /\ Running /\ ins.op \in {"+", "-"}
           /\ Yields(<<ins.op>> \o Inputs)
           /\ UNCHANGED <<heap, calls>>

Increment == At("inc") /\ Yields(<<"++", Val(ins.d)>>) /\ UNCHANGED <<heap, calls>>

Alloc == /\ At("alloc")
         /\ Yields(ObjectAt(Len(heap) + 1))
         /\ heap' = Append(heap, IF ins.s = << >> THEN << >> ELSE Key("#") :> In(1))
         /\ UNCHANGED calls

Load == /\ At("load")
        /\ Yields(IF IsObject(In(1)) THEN Elem(heap[In(1)[2]], In(2)) ELSE Junk)
        /\ UNCHANGED <<heap, calls>>

\* A store into what is not an object leaves the heap in an unknown state.
Store == /\ At("store")
         /\ heap' = IF IsObject(Val(ins.d))
                    THEN [heap EXCEPT ![Val(ins.d)[2]] = (In(1) :> In(2)) @@ @]
                    ELSE [o \in DOMAIN heap |-> << >>]
         /\ pc' = pc + 1
         /\ UNCHANGED <<prog, frame, code, loc, lost, calls>>

\* The callee's frame starts at the call's offset: its result comes back
\* there, and whatever was above it is lost.
CallProc ==
  /\ At("call")
  /\ LET c == <<"call">> \o Inputs
     IN  /\ calls' = Append(calls, c)
         /\ loc' = [n \in DOMAIN loc |-> IF n < ins.n THEN loc[n]
                                        ELSE IF n = ins.n THEN c ELSE Junk]
  /\ pc' = pc + 1
  /\ UNCHANGED <<prog, frame, code, lost, heap>>

CallForeign == /\ At("foreign")
               /\ Yields(<<"foreign">> \o Inputs)
               /\ calls' = Append(calls, <<"foreign">> \o Inputs)
               /\ UNCHANGED heap

JumpCheck == /\ At("jumpcheck")
             /\ pc' = IF In(1) = Key("true") THEN pc + 1 ELSE pc + 1 + ins.n
             /\ UNCHANGED <<prog, frame, code, loc, lost, heap, calls>>

Leave == /\ Running /\ ins.op \in {"return", "abort"}
           /\ pc' = Len(code) + 1
           /\ UNCHANGED <<prog, frame, code, loc, lost, heap, calls>>

Next == \/ Compile \/ Move \/ Operate \/ Increment \/ Alloc \/ Load \/ Store
        \/ CallProc \/ CallForeign \/ JumpCheck \/ Leave

Spec == Init /\ [][Next]_vars

-----------------------------------------------------------------------------
(* Properties.                                                             *)

Finished == pc > 0 /\ ~Running

\* A value with the contents of the object it is.
Shown(v, h) == IF IsObject(v) THEN <<"object", h[v[2]]>> ELSE v

(* The compiled body returns what the body means: no operand is            *)
(* overwritten before it is used, none is computed twice or in another     *)
(* order, and a value ends in the register its user reads                  *)
(* (allocate_value_regs and compile_value agree).  It does not hold of the *)
(* bodies has_mutated is written too early for, which Misshared names.     *)
Translated ==
  Finished /\ ~Misshared(prog) =>
              LET m == Meaning(prog)
              IN  m.done => Shown(loc[0], heap) = Shown(m.v, m.heap)

\* The variables of the outermost block and the parameters, while in use.
Outer == {v \in frame.used : \/ v \in Range(prog.params)
                             \/ \E i \in DOMAIN prog.body : prog.body[i].st = "decl"
                                                        /\ prog.body[i].v = v}

(* The compiled body makes the calls the body makes, in that order and     *)
(* with those arguments, leaves the caller's objects as the body does, and *)
(* every variable in use with what it was last assigned: nothing that      *)
(* ast_postproc_value_affects_state dropped had an effect, no temporary    *)
(* was put into a variable's register, and no assignment was left in       *)
(* another (the move_eval flags).  Again but for the Misshared bodies.     *)
EffectsKept ==
  Finished /\ ~Misshared(prog) =>
              LET m == Meaning(prog)
              IN  /\ calls = m.calls
                  /\ \A o \in DOMAIN HeapBefore : heap[o] = m.heap[o]
                  /\ \A v \in Outer \cap DOMAIN m.env :
                       Shown(Val(frame.var[v]), heap) = Shown(m.env[v], m.heap)

(* No instruction uses a register outside the frame whose size             *)
(* STACK_VALIDATE compares with the stack's limit on entry                 *)
(* (proc_call_max_locals).                                                 *)
FrameCovered ==
  Running /\ ~prog.top =>
    \A r \in {ins.d} \cup Range(ins.s) : r[1] = "local" => r[2] <= frame.maxLocal

(* Every register an instruction reads was given to a value and holds one, *)
(* and what it loads from or stores to is an object: no operand is left in *)
(* the part of the frame a call destroys.                                  *)
OperandsReady ==
  Running => /\ \A k \in DOMAIN ins.s : In(k) # Junk
             /\ ins.op = "load"  => IsObject(In(1))
             /\ ins.op = "store" => IsObject(Val(ins.d))
             /\ ins.op = "inc"   => ins.d[1] = "local"

(* What a record's declaration says of a default that is an object, as     *)
(* stdlib/data/list.csh:4 does ("array<T> elems = new T[15];"): the object *)
(* becomes a property of the record created, so that nothing is ever       *)
(* stored in itself.                                                       *)
DefaultInRecord == At("store") /\ IsObject(In(2)) => In(2) # Val(ins.d)

=============================================================================
