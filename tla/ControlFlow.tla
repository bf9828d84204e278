----------------------------- MODULE ControlFlow -----------------------------
(***************************************************************************)
(* One procedure on its way from statements to jumps: which statements     *)
(* parse_statment accepts where, whether code_paths_return finds that the  *)
(* procedure needs a return, the jumps compile_conditional leaves open and *)
(* fills in later, and then every way the procedure can run.               *)
(*                                                                         *)
(* The body is a sequence of tokens, one for each statement, condition and *)
(* closing brace.  The passes of the compiler all go through it in this    *)
(* order and none of them looks back, so a step takes one token through    *)
(* all of them.  A for statement is a while with a statement before it and *)
(* one more at the end of its body, and needs no token of its own.         *)
(*                                                                         *)
(* The instructions of one statement or condition, which all run or none   *)
(* of which does, are one instruction.  Ips count from 1 at the first of   *)
(* the procedure; 0 is that of the program.                                *)
(***************************************************************************)
EXTENDS Naturals, Sequences, SequencesExt, FiniteSetsExt

CONSTANTS
    MaxTokens,   \* bound: tokens in the body of the procedure
    MAX_BREAKS   \* size of lp_break_jumps

ASSUME MaxTokensAssumption == MaxTokens \in Nat
ASSUME MaxBreaksAssumption == MAX_BREAKS \in Nat \ {0}

VARIABLES
    src,    \* tokens of the body so far
    open,   \* the conditionals it is in, innermost last; open[1] is the body
    code,   \* instructions
    lp,     \* lp_break_jumps: one array, which every loop writes to
    phase,  \* "compile", "cut" once nothing more is emitted, "start", "run",
            \* or how that has ended
    pc,     \* the instruction to be executed next
    at      \* history: the token the program text says is next

vars == <<src, open, code, lp, phase, pc, at>>

\* The other tokens are act, break, continue, return and end.
Openers == {"while", "forever", "if"}   \* "forever": while on a truey condition
Clauses == {"elif", "else"}

Ins(op, to) == [op |-> op, tok |-> Len(src) + 1, to |-> to]

\* A conditional being compiled: this_continue_ip (start), the JUMP_CHECK to fill
\* in, lp_break_jump_count, escape_jumps and is_while_true; and what
\* code_paths_return knows of it, of the block scanned now ("open", "returns" or
\* "breaks") and of the clauses of an if before it ("return", "fall" or "breaks").
Init ==
    /\ src = << >>
    /\ open = <<[kind |-> "proc", start |-> 0, check |-> 0, breaks |-> 0,
                 escapes |-> << >>, forever |-> FALSE, block |-> "open",
                 clauses |-> "return"]>>
    /\ code = << >>
    /\ lp = [i \in 1 .. MAX_BREAKS |-> 0]
    /\ phase = "compile"
    /\ pc = 0
    /\ at = 0

-----------------------------------------------------------------------------
Here == Len(code) + 1     \* instruction_count
Top == open[Len(open)]
Loops == {k \in DOMAIN open : open[k].kind = "loop"}
Loop == Max(Loops)        \* the loop break and continue are about

\* The jumps of S get the ip to as their target.
Patched(c, S, to) ==
    [i \in DOMAIN c |-> IF i \in S THEN [c[i] EXCEPT !.to = to] ELSE c[i]]

\* parse_code_block reads one statement at least.
BlockRead == src # << >> /\ Last(src) \notin Openers \cup Clauses

\* What code_paths_return makes of a block it has come to the end of, and of
\* the clauses of an if up to that block.
BlockPaths(f) ==
    IF f.block # "open" THEN f.block
    ELSE IF f.forever THEN "returns" ELSE "open"
ClausePaths(f) ==
    IF f.clauses # "return" THEN f.clauses
    ELSE CASE BlockPaths(f) = "returns" -> "return"
           [] BlockPaths(f) = "breaks" -> "breaks"
           [] OTHER -> "fall"

\* The block of f goes on after a statement it concludes paths from.
Concluding(f, paths) == IF f.block = "open" THEN [f EXCEPT !.block = paths] ELSE f

\* Bound: t, what has to follow it and the braces still open fit in.
Needed(t) == CASE t \in Openers -> Len(open) + 2
               [] t \in Clauses -> Len(open) + 1
               [] t = "end" -> Len(open) - 1
               [] OTHER -> Len(open)

Reading == phase \in {"compile", "cut"}

\* The code is c from now on, unless the compiler has given up the procedure.
Emit(c) == code' = IF phase = "cut" THEN code ELSE c

Read(t) ==
    /\ Reading
    /\ Len(src) + Needed(t) <= MaxTokens
    /\ src' = Append(src, t)
    /\ UNCHANGED <<pc, at>>

-----------------------------------------------------------------------------
\* Any statement that only goes on to the next one.
Act ==
    /\ Read("act")
    /\ Emit(Append(code, Ins("act", 0)))
    /\ UNCHANGED <<open, lp, phase>>

Return ==
    /\ Read("return")
    /\ Emit(Append(code, Ins("return", 0)))
    /\ open' = [open EXCEPT ![Len(open)] = Concluding(@, "returns")]
    /\ UNCHANGED <<lp, phase>>

\* break is for loops only, and a loop has room for so many.  One break more is
\* an error that ends the compilation of the block and of those around it; but
\* compile_value does not look at the result for the body of a procedure.  So the
\* rest of the procedure is missing, the jumps that are open stay as they are, and
\* the program is compiled and run.
Break ==
    /\ Loops # {}
    /\ Read("break")
    /\ LET room == phase = "compile" /\ open[Loop].breaks < MAX_BREAKS
           closed(f) == IF f.forever THEN Concluding(f, "breaks") ELSE f
           passed == [open EXCEPT ![Len(open)] = closed(@)]
       IN  \/ /\ room
              /\ lp' = [lp EXCEPT ![open[Loop].breaks + 1] = Here]
              /\ code' = Append(code, Ins("jump", 0))
              /\ open' = [passed EXCEPT ![Loop].breaks = @ + 1]
              /\ UNCHANGED phase
           \/ /\ ~room
              /\ phase' = "cut"
              /\ open' = passed
              /\ UNCHANGED <<code, lp>>

Continue ==
    /\ Loops # {}
    /\ Read("continue")
    /\ Emit(Append(code, Ins("jump", open[Loop].start)))
    /\ UNCHANGED <<open, lp, phase>>

-----------------------------------------------------------------------------
Conditional(kind, forever) ==
    [kind |-> kind, start |-> Here, check |-> Here, breaks |-> 0,
     escapes |-> << >>, forever |-> forever, block |-> "open",
     clauses |-> "return"]

\* The condition of a while, and its JUMP_CHECK.
While(t) ==
    /\ Read(t)
    /\ Emit(Append(code, Ins("check", 0)))
    /\ open' = Append(open, Conditional("loop", t = "forever"))
    /\ UNCHANGED <<lp, phase>>

\* Mutant of EndWhile: the breaks recorded for the loop are not filled in.
EndWhileUnpatched ==
    /\ Top.kind = "loop"
    /\ BlockRead
    /\ Read("end")
    /\ Emit(Patched(Append(code, Ins("jump", Top.start)), {Top.check}, Here + 1))
    /\ open' = Front(open)
    /\ UNCHANGED <<lp, phase>>

\* The end of a while: the jump back, then the targets of its JUMP_CHECK and of
\* the first so many entries of lp_break_jumps.
EndWhile ==
    /\ Top.kind = "loop"
    /\ BlockRead
    /\ Read("end")
    /\ Emit(Patched(Append(code, Ins("jump", Top.start)),
                    {Top.check} \cup {lp[i] : i \in 1 .. Top.breaks}, Here + 1))
    /\ open' = IF Top.forever /\ BlockPaths(Top) = "returns"
               THEN [Front(open) EXCEPT ![Len(open) - 1] = Concluding(@, "returns")]
               ELSE Front(open)
    /\ UNCHANGED <<lp, phase>>

If ==
    /\ Read("if")
    /\ Emit(Append(code, Ins("check", 0)))
    /\ open' = Append(open, Conditional("chain", Top.forever))
    /\ UNCHANGED <<lp, phase>>

\* else or else if: the jump over the rest of the chain, the target of the last
\* JUMP_CHECK, and for else if the next condition.
Clause(t) ==
    /\ Top.kind = "chain" /\ Top.check # 0
    /\ BlockRead
    /\ Read(t)
    /\ LET jumped == Patched(Append(code, Ins("jump", 0)), {Top.check}, Here + 1)
       IN  Emit(IF t = "elif" THEN Append(jumped, Ins("check", 0)) ELSE jumped)
    /\ open' = [open EXCEPT ![Len(open)] =
                  [@ EXCEPT !.escapes = Append(@, Here),
                            !.check = IF t = "elif" THEN Here + 1 ELSE 0,
                            !.clauses = ClausePaths(Top),
                            !.block = "open"]]
    /\ UNCHANGED <<lp, phase>>

\* Mutant of EndIf: an if with an else all of whose blocks return does not count.
EndIfFalling ==
    /\ Top.kind = "chain"
    /\ BlockRead
    /\ Read("end")
    /\ Emit(Patched(code, {Top.check} \cup ToSet(Top.escapes), Here))
    /\ open' = Front(open)
    /\ UNCHANGED <<lp, phase>>

\* The end of the chain: the jumps that are still open lead here.
EndIf ==
    /\ Top.kind = "chain"
    /\ BlockRead
    /\ Read("end")
    /\ Emit(Patched(code, {Top.check} \cup ToSet(Top.escapes), Here))
    /\ open' = LET paths == ClausePaths(Top)
                   below == Front(open)
                   n == Len(below)
               IN  CASE paths = "return" /\ Top.check = 0 ->
                            [below EXCEPT ![n] = Concluding(@, "returns")]
                     [] paths = "breaks" ->
                            [below EXCEPT ![n] = Concluding(@, "breaks")]
                     [] OTHER -> below
    /\ UNCHANGED <<lp, phase>>

-----------------------------------------------------------------------------
(* What the text of the procedure means.                                   *)

Count(S, i, j) == Cardinality({k \in i .. j : src[k] \in S})

\* The end that closes the conditional opened at i, and what lies between.
Close(i) == Min({j \in i + 1 .. Len(src) :
                    src[j] = "end" /\ Count(Openers, i, j) = Count({"end"}, i, j)})
Body(i) == i + 1 .. Close(i) - 1
LoopsAround(j) == {i \in 1 .. j - 1 : src[i] \in {"while", "forever"} /\ j <= Close(i)}
LoopOf(j) == Max(LoopsAround(j))

\* The conditional whose clause or end stands at j.
Opener(j) == Max({i \in 1 .. j - 1 : src[i] \in Openers /\ j <= Close(i)})

\* The statement or condition the program comes to when it is at i, and Off at
\* the end of the procedure.
Off == Len(src) + 1
Where[i \in 1 .. Len(src) + 1] ==
    IF i = Off THEN Off
    ELSE CASE src[i] = "break" -> Where[Close(LoopOf(i)) + 1]
           [] src[i] = "continue" -> LoopOf(i)
           [] src[i] \in Clauses -> Where[Close(Opener(i)) + 1]
           [] src[i] = "end" -> IF src[Opener(i)] = "if" THEN Where[i + 1]
                                ELSE Opener(i)
           [] OTHER -> i

\* Where it goes when the condition at i is false.
IfFalse(i) ==
    IF src[i] \in {"while", "forever"} THEN Where[Close(i) + 1]
    ELSE LET chain == IF src[i] = "if" THEN i ELSE Opener(i)
             next == Min({j \in i + 1 .. Close(chain) :
                             src[j] \in Clauses \cup {"end"} /\ Opener(j) = chain})
         IN  IF src[next] = "elif" THEN next ELSE Where[next + 1]

-----------------------------------------------------------------------------
\* The instruction execution comes to at ip, after any jumps.
Land(ip) ==
    LET From[n \in 0 .. Len(code), p \in 0 .. Len(code) + 1] ==
            IF n = 0 \/ p \notin DOMAIN code THEN p
            ELSE IF code[p].op = "jump" THEN From[n - 1, code[p].to]
            ELSE p
    IN  From[Len(code), ip]

\* Mutant of EndProc: no return is added.
EndProcBare ==
    /\ Reading
    /\ Len(open) = 1
    /\ BlockRead
    /\ phase' = "start"
    /\ UNCHANGED <<src, open, code, lp, pc, at>>

\* The end of parse_proc_decl: a procedure not all of whose paths return gets a
\* return more if it returns nothing, and is rejected otherwise.
EndProc ==
    /\ Reading
    /\ Len(open) = 1
    /\ BlockRead
    /\ \/ /\ BlockPaths(Top) = "returns"
          /\ phase' = "start"
          /\ UNCHANGED <<src, code>>
       \/ /\ BlockPaths(Top) # "returns"
          /\ src' = Append(src, "return")
          /\ Emit(Append(code, Ins("return", 0)))
          /\ phase' = "start"
       \/ /\ BlockPaths(Top) # "returns"
          /\ phase' = "rejected"
          /\ UNCHANGED <<src, code>>
    /\ UNCHANGED <<open, lp, pc, at>>

\* The procedure is called.
Call ==
    /\ phase = "start"
    /\ phase' = "run"
    /\ pc' = Land(1)
    /\ at' = Where[1]
    /\ UNCHANGED <<src, open, code, lp>>

\* The machine executes an instruction, in step with the program text.
Running(op) ==
    /\ phase = "run"
    /\ pc \in DOMAIN code
    /\ code[pc].op = op
    /\ code[pc].tok = at
    /\ UNCHANGED <<src, open, code, lp>>

RunAct ==
    /\ Running("act")
    /\ pc' = Land(pc + 1)
    /\ at' = Where[at + 1]
    /\ UNCHANGED phase

RunCheck(holds) ==
    /\ Running("check")
    /\ src[at] = "forever" => holds
    /\ pc' = Land(IF holds THEN pc + 1 ELSE code[pc].to)
    /\ at' = IF holds THEN Where[at + 1] ELSE IfFalse(at)
    /\ UNCHANGED phase

RunReturn ==
    /\ Running("return")
    /\ phase' = "returned"
    /\ UNCHANGED <<pc, at>>

Next ==
    \/ Act
    \/ Return
    \/ Break
    \/ Continue
    \/ \E t \in {"while", "forever"} : While(t)
    \/ EndWhile
    \/ If
    \/ \E t \in Clauses : Clause(t)
    \/ EndIf
    \/ EndProc
    \/ Call
    \/ RunAct
    \/ \E holds \in BOOLEAN : RunCheck(holds)
    \/ RunReturn

Spec == Init /\ [][Next]_vars

-----------------------------------------------------------------------------
\* Loops write their breaks to the same array.  A loop in the body of another
\* one that has a break before it, and a break of its own, overwrites what the
\* outer one has recorded.
Breaks(i) == {j \in Body(i) : src[j] = "break" /\ LoopOf(j) = i}
Clobbered ==
    \E i, j \in {k \in DOMAIN src : src[k] \in {"while", "forever"}} :
        /\ j \in Body(i)
        /\ Breaks(j) # {}
        /\ \E b \in Breaks(i) : b < j

\* A loop with more breaks than lp_break_jumps holds.
Overfull ==
    \E i \in DOMAIN src :
        src[i] \in {"while", "forever"} /\ Cardinality(Breaks(i)) > MAX_BREAKS

\* The jumps mean what the text means: whatever the conditions turn out to be,
\* each instruction executed is that of the statement the text has come to, and
\* breaks, continues and ends of branches lead where they should, in every
\* nesting of loops and ifs but the two above.
InStep ==
    phase = "run" /\ ~Clobbered /\ ~Overfull =>
        IF at = Off THEN pc = Len(code) + 1
                    ELSE pc \in DOMAIN code /\ code[pc].tok = at

\* A procedure whose paths all return, or which was given a return, does return:
\* control never runs on into the code behind it, unless that was cut off for a
\* break too many.  code_paths_return counts a
\* branch that falls through in a loop on a truey condition as one that does not,
\* and misses the breaks that come after an if with an else.
Misjudged ==
    \E i \in DOMAIN src :
        /\ src[i] = "forever"
        /\ \E j \in Body(i), b \in Breaks(i) : src[j] = "else" /\ j < b
Returns ==
    phase = "run" /\ ~Misjudged /\ ~Overfull => at # Off /\ pc # Len(code) + 1

\* A procedure is rejected only if some run of it would come to its end, provided
\* no statement stands where it cannot be reached.
Exits(i) == CASE i = Off \/ src[i] = "return" -> {}
              [] src[i] = "act" -> {Where[i + 1]}
              [] src[i] = "forever" -> {Where[i + 1]}
              [] OTHER -> {Where[i + 1], IfFalse(i)}
CanEnd ==
    \A S \in SUBSET {Where[i] : i \in 1 .. Off} :
        Where[1] \in S /\ (\A i \in S : Exits(i) \subseteq S) => Off \in S
Tidy == \A i \in 1 .. Len(src) - 1 :
            src[i] \in {"break", "continue", "return"} => src[i + 1] \in Clauses \cup {"end"}
RejectedRightly == phase = "rejected" /\ Tidy => CanEnd

\* parse_proc_decl says "add implicit return" of the procedures that do not
\* return on all paths, and debug.c calls the others "unable to return": none
\* that is compiled comes to its end without a return.
ReturnsAlways == phase = "run" => at # Off
=============================================================================
