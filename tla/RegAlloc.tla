------------------------------ MODULE RegAlloc ------------------------------
(***************************************************************************)
(* compiler.c's register allocation: the register each value of a body is  *)
(* computed in.  The compiler walks the whole body once before it emits    *)
(* anything.  It threads the number of the next free register of the frame *)
(* and, where the value has a place to go (a variable, an argument, the    *)
(* result), that place as the target; and it records whether the value     *)
(* still has to be moved there afterwards.                                 *)
(*                                                                         *)
(* What it records is kept under the value's id.  The parser copies the    *)
(* default value of a property to every creation of the record, id         *)
(* included, so that all the copies share one entry.                       *)
(***************************************************************************)
EXTENDS AffectsState

Local(n) == <<"local", n>>       \* LOC_REG: relative to the frame
Global(c) == <<"global", c>>     \* GLOB_REG: here only the constants
NoTarget == <<"none">>

\* Where the result of the running procedure goes.
ResultReg == Local(0)

DefaultId == <<0>>
IdOf(e, id, k) == IF e.v = "default" THEN DefaultId ELSE Append(id, k)

\* An index that is a constant is part of the instruction.
Immediate(e, k) == e.op \in {"at", "putat"} /\ k = 2 /\ e.kids[2].op = "prim"

\* Mutant of Touch: the last register is not counted.
TouchShort(a, n) == [a EXCEPT !.maxLocal = IF ~a.top /\ n > @ + 1 THEN n ELSE @]

\* What ALLOC_LOC adds: the frame's size, unless this is the top level.
Touch(a, n) == [a EXCEPT !.maxLocal = IF ~a.top /\ n > @ THEN n ELSE @]

Record(a, id, reg, move) == [a EXCEPT !.reg  = (id :> reg) @@ @,
                                      !.move = (id :> move) @@ @]

\* The value shares the register of another, and is moved if that one is.
Alias(a, id, other) == Record(a, id, a.reg[other], a.move[other])

\* Mutant of Settle: the register is not reserved.
SettleUnreserved(a, id, cur, target) ==
  IF target # NoTarget THEN [Record(a, id, target, FALSE) EXCEPT !.next = cur]
  ELSE [Touch(Record(a, id, Local(cur), TRUE), cur) EXCEPT !.next = cur]

\* The end of most cases: the target, or the next free register.
Settle(a, id, cur, target) ==
  IF target # NoTarget THEN [Record(a, id, target, FALSE) EXCEPT !.next = cur]
  ELSE [Touch(Record(a, id, Local(cur), TRUE), cur) EXCEPT !.next = cur + 1]

-----------------------------------------------------------------------------

RECURSIVE AllocValue(_, _, _, _, _), AllocOperands(_, _, _, _), AllocInits(_, _, _, _, _),
          AllocArguments(_, _, _, _, _)

(* allocate_value_regs.  `next' is its result: the next free register.     *)
AllocValue(a, e, id, cur, target) ==
  IF ~e.live THEN [a EXCEPT !.next = cur]
  ELSE
  CASE e.op = "prim" ->
         [Record(a, id, Global(e.v), TRUE) EXCEPT !.next = cur]
    [] e.op = "var" ->
         [Record(a, id, a.var[e.v], TRUE) EXCEPT !.next = cur]
    [] e.op = "set" ->
         LET kid == Append(id, 1)
             a1  == AllocValue(a, e.kids[1], kid, cur,
                               IF e.v \in a.used THEN a.var[e.v] ELSE NoTarget)
         IN  [Alias(a1, id, kid) EXCEPT !.next = cur]
    [] e.op \in Stores ->
         LET last == Len(e.kids)
             a1   == IF e.kids[1].live THEN AllocOperands([a EXCEPT !.next = cur], e, id, 1)
                     ELSE AllocValue(a, e.kids[last], Append(id, last), cur, NoTarget)
         IN  [Alias(a1, id, Append(id, last)) EXCEPT !.next = cur]
    [] e.op = "pre" ->
         LET a1 == AllocValue(a, e.kids[1], Append(id, 1), cur, NoTarget)
         IN  [Alias(a1, id, Append(id, 1)) EXCEPT !.next = cur]
    [] e.op \in {"post", "neg"} ->
         LET a1 == AllocValue(a, e.kids[1], Append(id, 1), cur, NoTarget)
             a2 == Record(a1, id, IF target = NoTarget THEN Local(cur) ELSE target, FALSE)
         IN  [(IF target = NoTarget THEN Touch(a2, cur) ELSE a2) EXCEPT !.next = cur + 1]
    [] e.op = "new" ->
         Settle(AllocInits(a, e, id, cur, 1), id, cur, target)
    [] e.op = "call" ->
         LET a1 == Touch(Record(a, id, Local(cur), target \notin {NoTarget, Local(cur)}), cur)
             a2 == AllocArguments([a1 EXCEPT !.offset = (id :> cur) @@ @], e, id, cur, 1)
         IN  [a2 EXCEPT !.next = cur + 1]
    [] OTHER ->
         Settle(AllocOperands([a EXCEPT !.next = cur], e, id, 1), id, cur, target)

\* Operands: each where the one before it left the next free register.
AllocOperands(a, e, id, k) ==
  IF k > Len(e.kids) THEN a
  ELSE AllocOperands(IF Immediate(e, k) THEN a
                     ELSE AllocValue(a, e.kids[k], IdOf(e, id, k), a.next, NoTarget),
                     e, id, k + 1)

\* A new object's initial values: all in the register after the object's.
AllocInits(a, e, id, cur, k) ==
  IF k > Len(e.kids) THEN a
  ELSE AllocInits(AllocValue(a, e.kids[k], IdOf(e, id, k), cur + 1, NoTarget),
                  e, id, cur, k + 1)

\* Arguments: each in its own register of the frame the callee will have.
AllocArguments(a, e, id, cur, k) ==
  IF k > Len(e.kids) THEN a
  ELSE AllocArguments(AllocValue(Touch(a, cur + k), e.kids[k], Append(id, k),
                                 cur + k, Local(cur + k)),
                      e, id, cur, k + 1)

-----------------------------------------------------------------------------
\* A declaration whose variable can share the register of its initialiser.
Shares(a, st) ==
  /\ st.v \notin a.mutated
  /\ \/ st.e.op = "prim"
     \/ st.e.op = "var" /\ st.e.v \notin a.mutated

(* allocate_code_block_regs.  A declared variable takes the next register  *)
(* for the rest of its block; a branch starts where its block is.          *)
RECURSIVE AllocBlock(_, _, _, _, _)
AllocBlock(a, block, p, cur, i) ==
  IF i > Len(block) THEN a
  ELSE
  LET st == block[i]
      q  == Append(p, i)
      id == Append(q, 0)
      kept == st.v \in a.used
  IN
  CASE st.st = "decl" /\ Shares(a, st) ->
         LET a1 == AllocValue(a, st.e, id, cur, NoTarget)
         IN  AllocBlock(IF kept THEN [a1 EXCEPT !.var = (st.v :> a1.reg[id]) @@ @,
                                                !.move = (id :> FALSE) @@ @]
                        ELSE a1, block, p, a1.next, i + 1)
    [] st.st = "decl" /\ ~Shares(a, st) /\ kept ->
         LET a1 == [Touch(a, cur) EXCEPT !.var = (st.v :> Local(cur)) @@ @]
         IN  AllocBlock(AllocValue(a1, st.e, id, cur, Local(cur)), block, p, cur + 1, i + 1)
    [] st.st = "decl" /\ ~Shares(a, st) /\ ~kept ->
         AllocBlock(AllocValue(a, st.e, id, cur, NoTarget), block, p, cur, i + 1)
    [] st.st = "if" ->
         LET a1 == AllocValue(a, st.e, id, cur, NoTarget)
         IN  AllocBlock(AllocBlock(a1, st.body, q, cur, 1), block, p, cur, i + 1)
    [] OTHER ->
         AllocBlock(AllocValue(a, st.e, id, cur, ResultReg), block, p, cur, i + 1)

-----------------------------------------------------------------------------

(* The variables an assignment to a used variable, or an increment,        *)
(* changes: what the analysis writes down as has_mutated.                  *)
RECURSIVE MutatedIn(_, _)
MutatedIn(used, e) ==
  (CASE e.op = "set"   -> {e.v} \cap used
     [] e.op \in Steps -> IF e.kids[1].op = "var" THEN {Stepped(e)} ELSE {}
     [] OTHER          -> {})
    \cup UNION {MutatedIn(used, e.kids[k]) : k \in DOMAIN e.kids}

RECURSIVE MutatedInBlock(_, _)
MutatedInBlock(used, block) ==
  UNION {MutatedIn(used, block[i].e) \cup MutatedInBlock(used, block[i].body) :
         i \in DOMAIN block}

(* has_mutated is written by the analysis alone, which runs between the two *)
(* markings and passes over an assignment to a variable not used by then.  *)
HasMutated(prog) == MutatedInBlock(FirstUsed(prog), prog.body)

RECURSIVE DeclarationsOf(_)
DeclarationsOf(block) ==
  UNION {(IF block[i].st = "decl" THEN {block[i]} ELSE {}) \cup DeclarationsOf(block[i].body) :
         i \in DOMAIN block}

(* The bodies this goes wrong for: a variable only a store into a caller's *)
(* object reads is found used by the second marking, too late for its      *)
(* has_mutated, and shares a register although it, or the variable it      *)
(* shares with, is assigned.                                               *)
Misshared(prog) ==
  LET with(mutated) == {st \in DeclarationsOf(prog.body) : Shares([mutated |-> mutated], st)}
  IN  with(HasMutated(prog)) # with(MutatedInBlock(Postprocessed(prog).used, prog.body))

(* What compile knows before it emits: the parameters are in the registers *)
(* after the result's, the locals in those after them.                     *)
Allocated(prog) ==
  LET live == Postprocessed(prog)
      body == BlockWithMarks(prog.body, live.mark, << >>)
      n    == Len(prog.params)
      a    == [used |-> live.used, mutated |-> HasMutated(prog),
               top |-> prog.top, reg |-> << >>, move |-> << >>, offset |-> << >>,
               var |-> [v \in Range(prog.params) |->
                          Local(CHOOSE i \in 1..n : prog.params[i] = v)],
               maxLocal |-> IF prog.top THEN 0 ELSE n,
               next |-> 0]
  IN  [AllocBlock(a, body, << >>, IF prog.top THEN 0 ELSE n + 1, 1) EXCEPT !.next = 0]
        @@ [body |-> body]
=============================================================================
