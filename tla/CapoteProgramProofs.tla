------------------------- MODULE CapoteProgramProofs -------------------------
(***************************************************************************)
(* Every program the compiler emits uses the heap as CapoteHeap says, so   *)
(* what is proved of that module holds of every such program.              *)
(***************************************************************************)
EXTENDS Escape, CapoteHeapProofs

\* The heap steps of each program step.
LEMMA StepIsHeapStep ==
    ASSUME ProgramTypeOK, [ProgramNext]_pvars
    PROVE  [Next]_vars
<1>1. CASE Statement
  <2>1. ASSUME NEW o \in Obj, AllocRecycled(o) \/ AllocFresh(o)
        PROVE  Next
    BY <2>1 DEF Next
  <2>2. CASE \E o \in Obj : New(o)
    BY <2>1, <2>2 DEF New
  <2>3. CASE \E g \in Globals, o \in Obj : SetGlobalNew(g, o)
    BY <2>1, <2>3 DEF SetGlobalNew
  <2> QED
    BY <1>1, <2>2, <2>3
    DEF Statement, SetProp, GetProp, SetGlobalVar, Call, Return, ReturnValue
<1>2. CASE Execute
  <2> DEFINE i == Head(code)
  <2>1. code \in Seq(Instr) /\ code # << >>
    BY <1>2 DEF Execute, ProgramTypeOK
  <2>2. i \in Instr
    BY <2>1
  <2>3. CASE i.op = "TRACE" /\ GcTrace(i.obj, i.flag)
    BY <2>2, <2>3 DEF Next, Instr
  <2>4. CASE i.op = "STORE" /\ Store(i.obj, i.val)
    BY <2>2, <2>4 DEF Next, Instr
  <2>5. CASE i.op = "FREE" /\ Free(i.obj)
    BY <2>2, <2>5 DEF Next, Instr
  <2> HIDE DEF i
  <2>6. CASE GcNewFrame \/ GcCleanBegin
    BY <2>6 DEF Next
  <2> QED
    BY <1>2, <2>3, <2>4, <2>5, <2>6 DEF Execute, i
<1>3. CASE Collect
    BY <1>3 DEF Collect, Next
<1>4. CASE Finish
    BY <1>4 DEF Finish, Next
<1>5. CASE UNCHANGED pvars
    BY <1>5 DEF pvars, vars
<1> QED
    BY <1>1, <1>2, <1>3, <1>4, <1>5 DEF ProgramNext

-----------------------------------------------------------------------------
(* Types of what the analysis decides.                                     *)

LEMMA TraceType ==
    ASSUME NEW o \in Obj, NEW f \in {0, 1}
    PROVE  Trace(o, f) \in Seq(Instr)
BY DEF Trace, Instr

\* A global is a variable of the outermost frame, seen with some status.
LEMMA GlobalsType ==
    ASSUME ProgramTypeOK, NEW g \in Globals
    PROVE  g[1] \in Var /\ g[1][1] \in Obj /\ g[1][2] \in Status /\ g[2] \in Status
<1>1. env[1] \subseteq Var /\ (frame > 1 => written[frame] \subseteq Var \X Status)
    BY FrameLimitAssumption DEF ProgramTypeOK, TypeOK, Frames
<1>2. CASE \E h \in env[1] : g = <<h, "superext">>
    BY <1>1, <1>2 DEF Var, Status
<1>3. CASE frame > 1 /\ g \in written[frame]
    BY <1>1, <1>3 DEF Var
<1> QED
    BY <1>2, <1>3 DEF Globals

\* What can be named is a variable of the frame or, marked as such, a global.
LEMMA ScopeType ==
    ASSUME ProgramTypeOK, NEW v \in Scope
    PROVE  /\ v[1] \in Obj /\ v[2] \in Status
           /\ \/ v \in env[frame] /\ v \in Var
              \/ \E g \in Globals : v = <<g[1][1], g[2], "global">>
<1>1. frame # 0 => env[frame] \subseteq Var
    BY FrameLimitAssumption DEF ProgramTypeOK, TypeOK, Frames
<1>2. CASE v \in env[frame] /\ frame # 0
    BY <1>1, <1>2 DEF Var
<1>3. CASE \E g \in Globals : v = <<g[1][1], g[2], "global">>
    BY <1>3, GlobalsType
<1> QED
    BY <1>2, <1>3 DEF Scope

LEMMA VarType ==
    ASSUME NEW o \in Obj, NEW s \in Status, NEW parent
    PROVE  /\ VarTrace(o, s, parent) \in Seq(Instr)
           /\ VarStatus(s, parent) \in Status
           /\ ValueStatus(s, parent) \in Status
           /\ ArgTrace(o, s) \in Seq(Instr)
<1>2. Trace(o, 0) \in Seq(Instr) /\ Trace(o, 1) \in Seq(Instr)
    BY TraceType
<1>3. << >> \in Seq(Instr)
    OBVIOUS
<1>4. VarTrace(o, s, parent) \in Seq(Instr)
    BY <1>2, <1>3 DEF VarTrace
<1>5. ArgTrace(o, s) \in Seq(Instr)
    BY <1>2, <1>3 DEF ArgTrace
<1>6. VarStatus(s, parent) \in Status /\ ValueStatus(s, parent) \in Status
    BY DEF VarStatus, ValueStatus, Status
<1> QED
    BY <1>4, <1>5, <1>6

LEMMA RetagType ==
    ASSUME NEW E \in SUBSET Var, NEW x, NEW s \in Status
    PROVE  Retag(E, x, s) \in SUBSET Var
BY DEF Retag, Var

LEMMA WrittenType ==
    ASSUME ProgramTypeOK, NEW g, NEW h \in Var, NEW s \in Status, Written(g, h, s)
    PROVE  written' \in [Frames -> SUBSET (Var \X Status)]
<1>1. ASSUME NEW k \in Frames, NEW w \in written[k]
      PROVE  w \in Var \X Status /\ <<IF w[1] = g THEN h ELSE w[1], w[2]>> \in Var \X Status
    <2>1. w \in Var \X Status
        BY <1>1 DEF ProgramTypeOK
    <2> QED
        BY <2>1
<1>2. <<h, s>> \in Var \X Status
    OBVIOUS
<1> DEFINE new(k) == IF k = frame THEN {w \in written[k] : w[1] # g} \cup {<<h, s>>}
                     ELSE {<<IF w[1] = g THEN h ELSE w[1], w[2]>> : w \in written[k]}
<1>3. ASSUME NEW k \in Frames PROVE new(k) \subseteq Var \X Status
    <2>1. CASE k = frame
        BY <1>1, <1>2, <2>1
    <2>2. CASE k # frame
        BY <1>1, <2>2
    <2> QED
        BY <2>1, <2>2
<1>4. written' = [k \in Frames |-> new(k)]
    BY DEF Written
<1> HIDE DEF new
<1> QED
    BY <1>3, <1>4

LEMMA ProgramTypeInit == ProgramInit => ProgramTypeOK
<1> SUFFICES ASSUME ProgramInit PROVE ProgramTypeOK
    OBVIOUS
<1>1. TypeOK
    BY TypeInit DEF ProgramInit
<1>2. << >> \in Seq(Instr)
    OBVIOUS
<1> QED
    BY <1>1, <1>2 DEF ProgramInit, ProgramTypeOK

LEMMA ProgramTypeStep ==
    ASSUME ProgramTypeOK, [ProgramNext]_pvars
    PROVE  ProgramTypeOK'
<1> DEFINE Typed == /\ env' \in [Frames -> SUBSET Var]
                    /\ written' \in [Frames -> SUBSET (Var \X Status)]
                    /\ code' \in Seq(Instr)
<1>1. TypeOK'
    BY StepIsHeapStep, TypeStep DEF ProgramTypeOK
<1>2. features' \in FeatureSets
    BY DEF ProgramNext, pvars, ProgramTypeOK
<1>3. /\ env \in [Frames -> SUBSET Var] /\ code \in Seq(Instr)
      /\ written \in [Frames -> SUBSET (Var \X Status)]
      /\ \A v \in Scope : v[1] \in Obj /\ v[2] \in Status
      /\ env[1] \subseteq Var /\ 1 \in Frames
      /\ frame \in 0 .. FRAME_LIMIT
    BY ScopeType, FrameLimitAssumption DEF ProgramTypeOK, TypeOK, Frames
<1>b. phase = "run" => frame \in Frames
    BY FrameLimitAssumption DEF ProgramTypeOK, TypeOK, Frames
<1> SUFFICES Typed
    BY <1>1, <1>2 DEF ProgramTypeOK
<1>4. ASSUME NEW o \in Obj, New(o)
      PROVE  Typed
  <2>1. <<o, "local">> \in Var
    BY DEF Var, Status
  <2> QED
    BY <1>3, <1>4, <2>1 DEF New
<1>5. ASSUME NEW r \in Scope, NEW v \in Scope, SetProp(r, v)
      PROVE  Typed
  <2> DEFINE rp == RecordParent(r[2], v[2])
             vp == StoreParent(r[2])
             store == <<[op |-> "STORE", obj |-> r[1], val |-> v[1]]>>
  <2>1. /\ VarTrace(r[1], r[2], rp) \in Seq(Instr)
        /\ VarTrace(v[1], v[2], vp) \in Seq(Instr)
        /\ VarStatus(r[2], rp) \in Status /\ VarStatus(v[2], vp) \in Status
    BY <1>3, VarType
  <2>a. r[1] \in Obj /\ v[1] \in Obj /\ written' = written
    BY <1>3, <1>5 DEF SetProp
  <2>2. store \in Seq(Instr)
    BY <2>a DEF Instr
  <2> HIDE DEF rp, vp, store
  <2>3. code' = VarTrace(r[1], r[2], rp) \o VarTrace(v[1], v[2], vp) \o store
    BY <1>5 DEF SetProp, rp, vp, store
  <2>4. env' = [env EXCEPT ![frame] = Retag(Retag(@, r, VarStatus(r[2], rp)),
                                            v, VarStatus(v[2], vp))]
    BY <1>5 DEF SetProp, rp, vp
  <2>5. frame \in Frames /\ env[frame] \in SUBSET Var
    BY <1>3, <1>5, <1>b DEF SetProp, Idle
  <2> DEFINE E == Retag(env[frame], r, VarStatus(r[2], rp))
             F == Retag(E, v, VarStatus(v[2], vp))
  <2>6. E \in SUBSET Var
    BY <2>1, <2>5, RetagType
  <2>7. F \in SUBSET Var
    <3> HIDE DEF E
    <3> QED  BY <2>1, <2>6, RetagType
  <2>8. env' = [env EXCEPT ![frame] = F]
    BY <2>4
  <2>9. code' \in Seq(Instr)
    BY <2>1, <2>2, <2>3
  <2> HIDE DEF F
  <2> QED
    BY <1>3, <2>a, <2>5, <2>7, <2>8, <2>9
<1>6. ASSUME NEW r \in Scope, GetProp(r)
      PROVE  Typed
  <2>1. PICK o \in refs[r[1]] :
            env' = [env EXCEPT ![frame] = @ \cup {<<o, PropStatus(r[2])>>}]
    BY <1>6 DEF GetProp
  <2>2. r[1] \in Obj /\ r[2] \in Status
    BY <1>3
  <2>3. o \in Obj
    BY <2>2 DEF ProgramTypeOK, TypeOK
  <2>4. <<o, PropStatus(r[2])>> \in Var
    BY <2>2, <2>3 DEF PropStatus, Var, Status
  <2> QED
    BY <1>3, <1>6, <2>1, <2>4 DEF GetProp
<1>7. ASSUME NEW g \in Globals, NEW o \in Obj, SetGlobalNew(g, o)
      PROVE  Typed
  <2> DEFINE parent == SetParent(g[2])
             h == <<o, g[1][2]>>
  <2>1. /\ h \in Var /\ "local" \in Status
        /\ VarTrace(o, "local", parent) \in Seq(Instr)
        /\ ValueStatus("local", parent) \in Status
    BY GlobalsType, VarType DEF Var, Status
  <2> HIDE DEF parent, h
  <2>2. /\ code' = VarTrace(o, "local", parent)
        /\ env' = [env EXCEPT ![1] = (@ \ {g[1]}) \cup {h}]
        /\ Written(g[1], h, ValueStatus("local", parent))
    BY <1>7 DEF SetGlobalNew, parent, h
  <2>3. written' \in [Frames -> SUBSET (Var \X Status)]
    BY <2>1, <2>2, WrittenType
  <2> QED
    BY <1>3, <2>1, <2>2, <2>3
<1>8. ASSUME NEW g \in Globals, NEW v \in Scope, SetGlobalVar(g, v)
      PROVE  Typed
  <2> DEFINE parent == SetParent(g[2])
             h == <<v[1], g[1][2]>>
             s == IF v \in env[frame] THEN VarStatus(v[2], parent)
                                     ELSE ValueStatus(v[2], parent)
  <2>1. /\ h \in Var /\ g[1][1] \in Obj
        /\ VarTrace(v[1], v[2], parent) \in Seq(Instr)
        /\ VarStatus(v[2], parent) \in Status
        /\ s \in Status
    BY <1>3, GlobalsType, VarType DEF Var
  <2>2. <<[op |-> "FREE", obj |-> g[1][1]]>> \in Seq(Instr)
    BY <2>1 DEF Instr
  <2>4. frame \in Frames /\ frame # 1 /\ env[frame] \in SUBSET Var
    BY <1>3, <1>8, <1>b DEF SetGlobalVar, Idle, Globals
  <2> HIDE DEF parent, h, s
  <2>5. Retag(env[frame], v, VarStatus(v[2], parent)) \in SUBSET Var
    BY <2>1, <2>4, RetagType
  <2>7. /\ env' = [env EXCEPT ![1] = (@ \ {g[1]}) \cup {h},
                             ![frame] = Retag(@, v, VarStatus(v[2], parent))]
        /\ code' = VarTrace(v[1], v[2], parent) \o <<[op |-> "FREE", obj |-> g[1][1]]>>
        /\ Written(g[1], h, s)
    BY <1>8 DEF SetGlobalVar, parent, h, s
  <2>8. written' \in [Frames -> SUBSET (Var \X Status)]
    BY <2>1, <2>7, WrittenType
  <2>9. code' \in Seq(Instr)
    BY <2>1, <2>2, <2>7
  <2> QED
    BY <1>3, <2>1, <2>4, <2>5, <2>7, <2>8, <2>9
<1>9. ASSUME NEW args \in Seq(Scope), Len(args) \in {0, 1, 2}, Call(args)
      PROVE  Typed
  <2> DEFINE emitted(x) == ArgTrace(x[1], x[2])
  <2>1. \A i \in DOMAIN args : args[i][1] \in Obj /\ args[i][2] \in Status
    <3>1. \A i \in DOMAIN args : args[i] \in Scope
      OBVIOUS
    <3> QED  BY <1>3, <3>1
  <2>2. \A i \in DOMAIN args : emitted(args[i]) \in Seq(Instr)
    BY <2>1, VarType
  <2>3. <<[op |-> "NEW_FRAME"]>> \in Seq(Instr)
    BY DEF Instr
  <2>4. {<<args[i][1], "extern">> : i \in DOMAIN args} \subseteq Var
    BY <2>1 DEF Var, Status
  <2> HIDE DEF emitted
  <2>5. code' = (IF Len(args) = 0 THEN << >>
                 ELSE IF Len(args) = 1 THEN emitted(args[1])
                 ELSE emitted(args[1]) \o emitted(args[2]))
                \o <<[op |-> "NEW_FRAME"]>>
    BY <1>9 DEF Call, emitted
  <2>6. code' \in Seq(Instr)
    <3>1. CASE Len(args) = 0
      BY <2>3, <2>5, <3>1
    <3>2. CASE Len(args) = 1
      BY <2>2, <2>3, <2>5, <3>2
    <3>3. CASE Len(args) = 2
      BY <2>2, <2>3, <2>5, <3>3
    <3>4. Len(args) = 0 \/ Len(args) = 1 \/ Len(args) = 2
      BY <1>9
    <3> QED
      BY <3>1, <3>2, <3>3, <3>4
  <2> QED
    BY <1>3, <1>9, <2>4, <2>6 DEF Call
<1>10. CASE Return
  <2>1. <<[op |-> "CLEAN"]>> \in Seq(Instr)
    BY DEF Instr
  <2> QED
    BY <1>3, <1>10, <2>1 DEF Return
<1>11. ASSUME NEW v \in Scope, ReturnValue(v)
       PROVE  Typed
  <2>1. /\ <<v[1], "unknown">> \in Var
        /\ VarTrace(v[1], v[2], "extern") \in Seq(Instr)
    BY <1>3, VarType DEF Var, Status
  <2>2. <<[op |-> "CLEAN"]>> \in Seq(Instr)
    BY DEF Instr
  <2> QED
    <3>1. code' \in Seq(Instr)
      BY <1>11, <2>1, <2>2 DEF ReturnValue
    <3>2. env' = [env EXCEPT ![frame] = {},
                             ![frame - 1] = @ \cup {<<v[1], "unknown">>}]
      BY <1>11 DEF ReturnValue
    <3>3. written' = [written EXCEPT ![frame] = {}]
      BY <1>11 DEF ReturnValue
    <3> QED
      BY <1>3, <2>1, <3>1, <3>2, <3>3
<1>12. CASE Execute
    BY <1>3, <1>12 DEF Execute
<1>13. CASE Collect
    BY <1>3, <1>13 DEF Collect
<1>14. CASE Finish
    BY <1>3, <1>14 DEF Finish
<1>15. CASE UNCHANGED pvars
    BY <1>3, <1>15 DEF pvars
<1>16. CASE Statement
  <2> HIDE DEF Typed
  <2>1. CASE Call(<< >>)
    <3>1. << >> \in Seq(Scope) /\ Len(<< >>) \in {0, 1, 2}
      OBVIOUS
    <3> QED
      BY <1>9, <2>1, <3>1
  <2>2. ASSUME NEW a \in Scope, Call(<<a>>)
        PROVE  Typed
    <3>1. <<a>> \in Seq(Scope) /\ Len(<<a>>) \in {0, 1, 2}
      OBVIOUS
    <3> QED
      BY <1>9, <2>2, <3>1
  <2>3. ASSUME NEW a \in Scope, NEW b \in Scope, Call(<<a, b>>)
        PROVE  Typed
    <3>1. <<a, b>> \in Seq(Scope) /\ Len(<<a, b>>) \in {0, 1, 2}
      OBVIOUS
    <3> QED
      BY <1>9, <2>3, <3>1
  <2> QED
    BY <1>4, <1>5, <1>6, <1>7, <1>8, <1>10, <1>11, <1>16, <2>1, <2>2, <2>3
    DEF Statement
<1> QED
    BY <1>12, <1>13, <1>14, <1>15, <1>16 DEF ProgramNext

\* No program drives the heap or the analysis out of its types.
THEOREM ProgramTypeCorrect == ProgramSpec => []ProgramTypeOK
BY ProgramTypeInit, ProgramTypeStep, PTL DEF ProgramSpec

\* CapoteProgram implements CapoteHeap: whatever the compiler emits, the heap
\* takes only the steps of Spec, so its invariants hold of every program.
THEOREM ProgramImplementsHeap == ProgramSpec => Spec
<1>1. ProgramInit => Init
    BY DEF ProgramInit
<1>2. ProgramTypeOK /\ [ProgramNext]_pvars => [Next]_vars
    BY StepIsHeapStep
<1> QED
    BY <1>1, <1>2, ProgramTypeCorrect, PTL DEF ProgramSpec, Spec

\* alloc hands no struct to two owners in any program, whatever the escape
\* analysis decides.
THEOREM ProgramAccounting == ProgramSpec => []StructAccounting
BY ProgramImplementsHeap, AccountingCorrect

-----------------------------------------------------------------------------
(***************************************************************************)
(* The escape analysis.  A collection keeps what is below the trace        *)
(* entries of the frame it closes, so an object is safe if every frame     *)
(* between its own and that of whoever refers to it keeps it.  Escape says *)
(* what each status promises about this; here every step is shown to keep  *)
(* those promises.                                                         *)
(***************************************************************************)

\* What is below R holds R.
LEMMA BelowRoots ==
    ASSUME NEW L, NEW R \in SUBSET Obj
    PROVE  R \subseteq Below(R, L) /\ Below(R, L) \subseteq Obj
BY DEF Below

\* What is below R is closed under the links.
LEMMA BelowClosed ==
    ASSUME NEW L \in [Obj -> SUBSET Obj], NEW R, NEW x \in Below(R, L)
    PROVE  L[x] \subseteq Below(R, L)
BY DEF Below

\* More roots and more links reach at least as much.
LEMMA BelowGrows ==
    ASSUME NEW L, NEW M, NEW R, NEW Q, R \subseteq Q,
           \A x \in Obj : L[x] \subseteq M[x]
    PROVE  Below(R, L) \subseteq Below(Q, M)
BY DEF Below

\* A set that holds R and is closed under the links holds what is below R.
LEMMA BelowLeast ==
    ASSUME NEW L, NEW R, NEW S \in SUBSET Obj, R \subseteq S,
           \A y \in S : L[y] \subseteq S
    PROVE  Below(R, L) \subseteq S
BY DEF Below

\* Types of the operators of Escape.
LinkTypes ==
    /\ Pending \subseteq Instr
    /\ Due \subseteq Obj
    /\ links \in [Obj -> SUBSET Obj]
    /\ \A k \in Frames : Roots(k) \in SUBSET Obj

\* The types of what the statuses are explained with.
LEMMA LinksTyped == ProgramTypeOK => LinkTypes
<1> SUFFICES ASSUME ProgramTypeOK PROVE LinkTypes
  OBVIOUS
<1>1. Pending \subseteq Instr
  BY DEF ProgramTypeOK, Pending
<1>2. Due \subseteq Obj
  BY <1>1 DEF Due, Instr
<1>3. links \in [Obj -> SUBSET Obj]
  <2>1. \A p \in Pending : p.op = "STORE" => p.val \in Obj
    BY <1>1 DEF Instr
  <2> QED BY <2>1 DEF links, ProgramTypeOK, TypeOK
<1>4. \A k \in Frames : Roots(k) \in SUBSET Obj
  BY <1>2 DEF Roots, ProgramTypeOK, TypeOK
<1> QED BY <1>1, <1>2, <1>3, <1>4 DEF LinkTypes

\* The same of the next state.
LEMMA LinksTypedNext == ProgramTypeOK' => LinkTypes'
BY LinksTyped, PTL

\* Kept is what its definition says.
KeptProper ==
    \A k \in Frames : /\ Roots(k) \subseteq Kept(k)
                      /\ Kept(k) \subseteq Obj
                      /\ \A x \in Kept(k) : links[x] \subseteq Kept(k)

\* What a frame keeps holds its roots and is closed under the links.
LEMMA KeptIsProper == LinkTypes => KeptProper
BY BelowRoots, BelowClosed DEF LinkTypes, Kept, KeptProper

\* The same of the next state.
LEMMA KeptIsProperNext == LinkTypes' => KeptProper'
BY KeptIsProper, PTL

\* A step that takes no root and no link away keeps what was kept.
LEMMA KeptGrows ==
  ASSUME NEW k \in Frames, Roots(k) \subseteq Roots(k)', \A x \in Obj : links[x] \subseteq links'[x]
  PROVE  Kept(k) \subseteq Kept(k)'
BY BelowGrows DEF Kept

\* Executing an instruction leaves the others pending.
LEMMA CodeTail ==
  ASSUME code \in Seq(Instr), code # << >>, code' = Tail(code)
  PROVE  /\ Pending = {Head(code)} \cup Pending'
         /\ Len(code') = Len(code) - 1
         /\ DOMAIN code' = 1 .. Len(code')
         /\ \A i \in DOMAIN code' : code'[i] = code[i + 1]
         /\ \A i \in DOMAIN code' : i + 1 \in DOMAIN code
<1>1. Len(code) \in Nat \ {0} /\ Head(code) = code[1] /\ DOMAIN code = 1 .. Len(code)
  OBVIOUS
<1>2. /\ Len(code') = Len(code) - 1 /\ DOMAIN code' = 1 .. Len(code')
      /\ \A i \in DOMAIN code' : code'[i] = code[i + 1]
  BY <1>1
<1>3. \A i \in DOMAIN code' : i + 1 \in DOMAIN code
  BY <1>1, <1>2
<1>4. \A i \in DOMAIN code : i = 1 \/ (i - 1 \in DOMAIN code' /\ code[i] = code'[i - 1])
  BY <1>1, <1>2
<1>5. Pending = {Head(code)} \cup Pending'
  BY <1>1, <1>2, <1>3, <1>4 DEF Pending
<1> QED BY <1>2, <1>3, <1>5

\* An object is registered with exactly one frame, and that one is open.
LEMMA Levels ==
  TypeOK /\ TableExact /\ phase \in {"run", "mark"} =>
    \A o \in Obj : /\ o \in reg <=> \E k \in Frames : In(o, k)
                   /\ \A k \in Frames : In(o, k) => k <= Top
                   /\ \A k, l \in Frames : In(o, k) /\ In(o, l) => k = l
BY DEF TableExact, In

\* A statement only adds roots and links, so it is enough that its own variables
\* and links are sound.
LEMMA StatementSound ==
  ASSUME LinkTypes, LinkTypes', TypeOK, TableExact, Sound, phase = "run", code = << >>,
         UNCHANGED vars,
         \A i \in DOMAIN code' :
              /\ code'[i].op # "FREE"
              /\ code'[i].op = "TRACE" => code'[i].flag = 0
              /\ code'[i].op \in {"NEW_FRAME", "CLEAN"} => i = Len(code'),
         Due' \subseteq reg,
         \A k \in Frames : Vacant(k)' => env'[k] = {},
         \A k \in Frames : \A v \in env'[k] : v \in env[k] \/ VarSound(k, v)',
         \A x \in Obj : \A y \in links'[x] : y \in links[x] \/ LinkSound(x, y)'
  PROVE  Sound'
<1>0. /\ Top' = Top /\ \A o, k : In(o, k)' <=> In(o, k)
      /\ Top = frame /\ reset' = reset /\ phase' = phase /\ reg' = reg
  BY DEF vars, Top, In, closing
<1>1. Due = {} /\ \A x \in Obj : links[x] = refs[x]
  BY DEF Due, Pending, links
<1>2. \A x \in Obj : links[x] \subseteq links'[x]
  BY <1>1 DEF vars, links
<1>3. \A k \in Frames : Roots(k) \subseteq Roots(k)'
  BY <1>0, <1>1 DEF vars, Roots
<1>4. \A k \in Frames : Kept(k) \subseteq Kept(k)'
  BY <1>2, <1>3, KeptGrows
<1>5. \A o, j, k : Held(o, j, k) => Held(o, j, k)'
  BY <1>4 DEF Held
<1>6. QuietSound' /\ CodeSound(0)' /\ FramesSound'
  BY <1>0 DEF Sound, QuietSound, CodeSound, FramesSound, vars
<1>7. RootsSound'
  <2> SUFFICES ASSUME NEW k \in Frames, NEW r \in Roots(k)'
               PROVE  \E j \in Frames : j <= k /\ In(r, j)
    BY <1>0 DEF RootsSound
  <2>1. CASE r \in Roots(k)
    BY <2>1 DEF Sound, RootsSound
  <2>2. CASE k = Top /\ r \in Due'
    BY <1>0, <2>2, Levels DEF TypeOK
  <2> QED BY <1>0, <2>1, <2>2 DEF Roots, vars
<1>8. ASSUME NEW k \in Frames, NEW v \in env'[k]
      PROVE  VarSound(k, v)'
  <2>1. CASE v \in env[k]
    BY <1>0, <1>4, <1>5, <2>1 DEF Sound, VarSound
  <2> QED BY <2>1
<1>9. ASSUME NEW x \in Obj, NEW y \in links'[x]
      PROVE  LinkSound(x, y)'
  <2>1. CASE y \in links[x]
    BY <1>0, <1>5, <2>1 DEF Sound, LinkSound
  <2> QED BY <2>1
<1> QED BY <1>6, <1>7, <1>8, <1>9 DEF Sound

\* s consists of traces of the objects of S, all with flag f.
Emits(s, S, f) ==
  /\ s \in Seq(Instr)
  /\ \A i \in DOMAIN s : s[i].op = "TRACE" /\ s[i].flag = f
  /\ {s[i].obj : i \in DOMAIN s} = S

\* Emitting nothing traces nothing.
LEMMA EmitNone == ASSUME NEW f PROVE Emits(<< >>, {}, f)
BY DEF Emits

\* One GC_TRACE traces its object.
LEMMA EmitOne == ASSUME NEW o \in Obj, NEW f \in {0, 1} PROVE Emits(Trace(o, f), {o}, f)
<1> DEFINE p == [op |-> "TRACE", obj |-> o, flag |-> f]
<1>1. p.op = "TRACE" /\ p.flag = f /\ p.obj = o
  OBVIOUS
<1>2. Trace(o, f) = <<p>> /\ Trace(o, f) \in Seq(Instr)
  BY TraceType DEF Trace
<1> HIDE DEF p
<1>3. DOMAIN <<p>> = {1} /\ <<p>>[1] = p
  OBVIOUS
<1> QED BY <1>1, <1>2, <1>3 DEF Emits

\* Two sequences of traces after each other trace what both trace.
LEMMA EmitBoth ==
  ASSUME NEW s, NEW t, NEW S, NEW T, NEW f, Emits(s, S, f), Emits(t, T, f)
  PROVE  Emits(s \o t, S \cup T, f)
<1>1. s \in Seq(Instr) /\ t \in Seq(Instr) /\ s \o t \in Seq(Instr)
  BY DEF Emits
<1>2. /\ Len(s \o t) = Len(s) + Len(t)
      /\ \A i \in 1 .. Len(s) : (s \o t)[i] = s[i]
      /\ \A i \in 1 .. Len(t) : (s \o t)[Len(s) + i] = t[i]
      /\ \A i \in 1 .. Len(s) + Len(t) : i \in 1 .. Len(s) \/ (i - Len(s) \in 1 .. Len(t) /\ (s \o t)[i] = t[i - Len(s)])
  BY <1>1
<1>3. DOMAIN s = 1 .. Len(s) /\ DOMAIN t = 1 .. Len(t) /\ DOMAIN (s \o t) = 1 .. Len(s) + Len(t)
      /\ Len(s) \in Nat /\ Len(t) \in Nat
  BY <1>1, <1>2
<1> DEFINE u == s \o t
<1>4. \A i \in DOMAIN u : \/ i \in DOMAIN s /\ u[i] = s[i]
                          \/ \E j \in DOMAIN t : u[i] = t[j]
  BY <1>2, <1>3
<1>a. \A j \in DOMAIN t : Len(s) + j \in DOMAIN u /\ u[Len(s) + j] = t[j]
  BY <1>2, <1>3
<1>b. \A i \in DOMAIN s : i \in DOMAIN u /\ u[i] = s[i]
  BY <1>2, <1>3
<1> HIDE DEF u
<1>5. (\A i \in DOMAIN s : i \in DOMAIN u /\ u[i] = s[i]) /\ (\A j \in DOMAIN t : \E i \in DOMAIN u : u[i] = t[j])
  BY <1>a, <1>b
<1>6. \A i \in DOMAIN u : u[i].op = "TRACE" /\ u[i].flag = f
  BY <1>4 DEF Emits
<1>7. {u[i].obj : i \in DOMAIN u} = S \cup T
  BY <1>4, <1>5 DEF Emits
<1> QED BY <1>1, <1>6, <1>7 DEF Emits, u

\* What is due and pending after a statement has emitted its code.
LEMMA StatementCode ==
  ASSUME NEW s, NEW S, NEW f, Emits(s, S, f), NEW l \in Instr, l.op \notin {"FREE", "TRACE"},
         code' = s \o <<l>>, LinkTypes'
  PROVE  /\ \A i \in DOMAIN code' :
              /\ code'[i].op # "FREE"
              /\ code'[i].op = "TRACE" => code'[i].flag = f
              /\ code'[i].op \in {"NEW_FRAME", "CLEAN"} => i = Len(code')
         /\ Due' = S
         /\ \A p \in Pending' : p.op # "TRACE" => p = l
         /\ l \in Pending'
<1>1. s \in Seq(Instr) /\ \A i \in DOMAIN s : s[i].op = "TRACE" /\ s[i].flag = f
  BY DEF Emits
<1>a. <<l>> \in Seq(Instr) /\ Len(<<l>>) = 1 /\ <<l>>[1] = l
  OBVIOUS
<1>b. DOMAIN s = 1 .. Len(s) /\ Len(s) \in Nat
  BY <1>1
<1>c. /\ Len(code') = Len(s) + 1 /\ DOMAIN code' = 1 .. Len(s) + 1
      /\ \A i \in 1 .. Len(s) : code'[i] = s[i]
      /\ code'[Len(s) + 1] = l
  BY <1>1, <1>a, <1>b
<1>d. \A i \in DOMAIN code' : \/ i \in DOMAIN s /\ code'[i] = s[i]
                              \/ i = Len(code') /\ code'[i] = l
  BY <1>b, <1>c
<1>2. /\ \A i \in DOMAIN code' :
              /\ code'[i].op # "FREE"
              /\ code'[i].op = "TRACE" => code'[i].flag = f
              /\ code'[i].op \in {"NEW_FRAME", "CLEAN"} => i = Len(code')
      /\ Pending' = {s[i] : i \in DOMAIN s} \cup {l}
  <2>1. \A i \in DOMAIN s : i \in DOMAIN code' /\ code'[i] = s[i]
    BY <1>b, <1>c
  <2>2. Len(s) + 1 \in DOMAIN code' /\ code'[Len(s) + 1] = l
    BY <1>b, <1>c
  <2>3. Pending' = {s[i] : i \in DOMAIN s} \cup {l}
    BY <1>d, <2>1, <2>2 DEF Pending
  <2>4. ASSUME NEW i \in DOMAIN code'
        PROVE  /\ code'[i].op # "FREE"
               /\ code'[i].op = "TRACE" => code'[i].flag = f
               /\ code'[i].op \in {"NEW_FRAME", "CLEAN"} => i = Len(code')
    BY <1>1, <1>d
  <2> QED BY <2>3, <2>4
<1>3. Due' = S
  BY <1>2 DEF Due, Emits
<1> QED BY <1>1, <1>2, <1>3

\* The families of programs these proofs are about.
ParamsAndLoads == features \subseteq {"params", "loads"}

\* What can be named is a variable of the frame.
LEMMA ScopeSound ==
  ASSUME ProgramTypeOK, Sound, ParamsAndLoads, phase = "run", NEW v \in Scope
  PROVE  /\ frame \in Frames /\ v \in env[frame] /\ v \in Var
         /\ v = <<v[1], v[2]>> /\ v[1] \in Obj
         /\ v[2] \in {"local", "extern", "traced"}
         /\ VarSound(frame, v)
<1>1. frame \in Frames
  BY FrameLimitAssumption DEF ProgramTypeOK, TypeOK, Frames
<1>2. v \in env[frame]
  BY <1>1 DEF Scope, Globals, ParamsAndLoads, Frames
<1>3. v \in Var
  BY <1>1, <1>2 DEF ProgramTypeOK
<1> QED BY <1>1, <1>2, <1>3 DEF Sound, VarSound, Var

\* The three ways to store a reference: into a local record a parameter, into a
\* parameter a local value, and any other without a trace.
LEMMA SetPropCases ==
  ASSUME ProgramTypeOK, Sound, ParamsAndLoads, NEW r \in Scope, NEW v \in Scope, SetProp(r, v)
  PROVE  \E S \in SUBSET {r[1], v[1]} :
           /\ \E s : Emits(s, S, 0) /\ code' = s \o <<[op |-> "STORE", obj |-> r[1], val |-> v[1]]>>
           /\ env'[frame] \subseteq env[frame] \cup {<<x, "traced">> : x \in S}
           /\ \A k \in Frames \ {frame} : env'[k] = env[k]
           /\ r[2] = "local" /\ v[2] = "extern" => r[1] \in S
           /\ r[2] = "extern" /\ v[2] = "local" => v[1] \in S
           /\ \A x \in S : (x = r[1] /\ r[2] = "local") \/ (x = v[1] /\ v[2] = "local")
<1> DEFINE rp == RecordParent(r[2], v[2])
           vp == StoreParent(r[2])
           store == <<[op |-> "STORE", obj |-> r[1], val |-> v[1]]>>
           E == Retag(Retag(env[frame], r, VarStatus(r[2], rp)), v, VarStatus(v[2], vp))
           code1 == VarTrace(r[1], r[2], rp) \o VarTrace(v[1], v[2], vp) \o store
<1>0. /\ phase = "run" /\ frame \in Frames
      /\ r = <<r[1], r[2]>> /\ r[1] \in Obj /\ r[2] \in {"local", "extern", "traced"}
      /\ v = <<v[1], v[2]>> /\ v[1] \in Obj /\ v[2] \in {"local", "extern", "traced"}
      /\ r \in env[frame] /\ v \in env[frame]
  BY ScopeSound DEF SetProp, Idle
<1>1. /\ code' = code1
      /\ env' = [env EXCEPT ![frame] = E]
  BY DEF SetProp
<1>2. store \in Seq(Instr) /\ << >> \o store = store
  BY <1>0 DEF Instr
<1>3. env'[frame] = E /\ \A k \in Frames \ {frame} : env'[k] = env[k]
  BY <1>0, <1>1 DEF ProgramTypeOK
<1>a. \A o \in Obj : << >> \o Trace(o, 0) = Trace(o, 0) /\ Trace(o, 0) \o << >> = Trace(o, 0)
  BY TraceType
<1>b. << >> \o << >> = << >>
  OBVIOUS
<1>4. CASE r[2] = "local" /\ v[2] = "extern"
  <2>1. rp = "extern" /\ vp = "local"
    BY <1>4 DEF RecordParent, StoreParent
  <2>2. VarTrace(r[1], r[2], rp) = Trace(r[1], 0) /\ VarTrace(v[1], v[2], vp) = << >>
    BY <1>4, <2>1 DEF VarTrace
  <2>3. VarStatus(r[2], rp) = "traced" /\ VarStatus(v[2], vp) = v[2]
    BY <1>4, <2>1 DEF VarStatus
  <2>4. E \subseteq env[frame] \cup {<<x, "traced">> : x \in {r[1]}}
    BY <1>0, <2>3 DEF Retag
  <2>5. code' = Trace(r[1], 0) \o store
    BY <1>0, <1>1, <1>a, <2>2
  <2>7. Emits(Trace(r[1], 0), {r[1]}, 0)
    BY <1>0, EmitOne
  <2> WITNESS {r[1]} \in SUBSET {r[1], v[1]}
  <2> HIDE DEF E
  <2> QED BY <1>0, <1>3, <1>4, <2>4, <2>5, <2>7
<1>5. CASE r[2] = "extern" /\ v[2] = "local"
  <2>1. rp = "local" /\ vp = "extern"
    BY <1>5 DEF RecordParent, StoreParent
  <2>2. VarTrace(v[1], v[2], vp) = Trace(v[1], 0) /\ VarTrace(r[1], r[2], rp) = << >>
    BY <1>5, <2>1 DEF VarTrace
  <2>3. VarStatus(v[2], vp) = "traced" /\ VarStatus(r[2], rp) = r[2]
    BY <1>5, <2>1 DEF VarStatus
  <2>4. E \subseteq env[frame] \cup {<<x, "traced">> : x \in {v[1]}}
    BY <1>0, <2>3 DEF Retag
  <2>5. code' = Trace(v[1], 0) \o store
    BY <1>0, <1>1, <1>a, <2>2
  <2>7. Emits(Trace(v[1], 0), {v[1]}, 0)
    BY <1>0, EmitOne
  <2> WITNESS {v[1]} \in SUBSET {r[1], v[1]}
  <2> HIDE DEF E
  <2> QED BY <1>0, <1>3, <1>5, <2>4, <2>5, <2>7
<1>6. CASE ~(r[2] = "local" /\ v[2] = "extern") /\ ~(r[2] = "extern" /\ v[2] = "local")
  <2>1. /\ rp # "extern" \/ r[2] # "local"
        /\ vp # "extern" \/ v[2] # "local"
        /\ rp # "superext" /\ vp # "superext"
    BY <1>0, <1>6 DEF RecordParent, StoreParent
  <2>2. VarTrace(v[1], v[2], vp) = << >> /\ VarTrace(r[1], r[2], rp) = << >>
    BY <1>0, <2>1 DEF VarTrace
  <2>3. VarStatus(v[2], vp) = v[2] /\ VarStatus(r[2], rp) = r[2]
    BY <1>0, <2>1 DEF VarStatus
  <2>4. E \subseteq env[frame] \cup {<<x, "traced">> : x \in {}}
    BY <1>0, <2>3 DEF Retag
  <2>5. code' = << >> \o store
    BY <1>0, <1>1, <1>b, <2>2
  <2> WITNESS {} \in SUBSET {r[1], v[1]}
  <2> QED BY <1>0, <1>3, <1>6, <2>4, <2>5, EmitNone
<1> QED BY <1>4, <1>5, <1>6

\* A store keeps the statuses true: both objects last equally long from then on.
LEMMA SetPropSound ==
  ASSUME ProgramTypeOK, LinkTypes, LinkTypes', TableExact, Sound, ParamsAndLoads,
         NEW r \in Scope, NEW v \in Scope, SetProp(r, v)
  PROVE  Sound'
<1> DEFINE x == r[1]
           y == v[1]
           store == [op |-> "STORE", obj |-> x, val |-> y]
<1>n. PICK n \in Frames : n = frame
  BY ScopeSound DEF SetProp, Idle
<1>1. PICK S \in SUBSET {x, y} :
           /\ \E s : Emits(s, S, 0) /\ code' = s \o <<store>>
           /\ env'[n] \subseteq env[n] \cup {<<z, "traced">> : z \in S}
           /\ \A k \in Frames \ {n} : env'[k] = env[k]
           /\ r[2] = "local" /\ v[2] = "extern" => x \in S
           /\ r[2] = "extern" /\ v[2] = "local" => y \in S
           /\ \A z \in S : (z = x /\ r[2] = "local") \/ (z = y /\ v[2] = "local")
  BY <1>n, SetPropCases
<1>2. PICK s : Emits(s, S, 0) /\ code' = s \o <<store>>
  BY <1>1
<1>3. /\ phase = "run" /\ code = << >> /\ UNCHANGED vars /\ n = frame
      /\ x \in Obj /\ r[2] \in {"local", "extern", "traced"} /\ VarSound(n, r)
      /\ y \in Obj /\ v[2] \in {"local", "extern", "traced"} /\ VarSound(n, v)
  BY <1>n, ScopeSound DEF SetProp, Idle
<1>4. store \in Instr /\ store.op = "STORE" /\ store.obj = x /\ store.val = y
  BY <1>3 DEF Instr
<1> HIDE DEF store
<1>5. /\ \A i \in DOMAIN code' :
              /\ code'[i].op # "FREE"
              /\ code'[i].op = "TRACE" => code'[i].flag = 0
              /\ code'[i].op \in {"NEW_FRAME", "CLEAN"} => i = Len(code')
      /\ Due' = S
      /\ \A p \in Pending' : p.op # "TRACE" => p = store
      /\ store \in Pending'
  BY <1>2, <1>4, StatementCode
<1>6. /\ \A z \in Obj : links'[z] = links[z] \cup (IF z = x THEN {y} ELSE {})
      /\ ~Entering' /\ ~Entering /\ ~Leaving' /\ ~Leaving
  <2>1. Pending = {}
    BY <1>3 DEF Pending
  <2> QED BY <1>3, <1>4, <1>5, <2>1 DEF links, Entering, Leaving, vars
<1>7. /\ Top' = Top /\ Top = n /\ \A o, k : In(o, k)' <=> In(o, k)
      /\ reset' = reset /\ reg' = reg /\ TypeOK
  BY <1>3 DEF vars, Top, In, closing, ProgramTypeOK
<1>8. /\ \A o \in Obj : /\ o \in reg <=> \E k \in Frames : In(o, k)
                        /\ \A k \in Frames : In(o, k) => k <= n
                        /\ \A k, l \in Frames : In(o, k) /\ In(o, l) => k = l
      /\ x \in reg /\ y \in reg
  BY <1>3, <1>7, Levels DEF VarSound
<1>9. /\ \A k \in Frames : Roots(k) \subseteq Roots(k)' /\ Kept(k) \subseteq Kept(k)'
      /\ S \subseteq Kept(n)'
      /\ \A k \in Frames : x \in Kept(k)' => y \in Kept(k)'
  <2>1. \A k \in Frames : Roots(k) \subseteq Roots(k)'
    BY <1>3, <1>7 DEF Roots, Due, Pending, vars
  <2>2. \A k \in Frames : Kept(k) \subseteq Kept(k)'
    BY <1>6, <2>1, KeptGrows
  <2>3. KeptProper'
    BY KeptIsProperNext
  <2>4. S \subseteq Roots(n)'
    BY <1>5, <1>7, <1>3 DEF Roots, vars
  <2> QED BY <1>3, <1>6, <2>1, <2>2, <2>3, <2>4 DEF KeptProper
<1>10. \A o \in Obj : \A j, k : Held(o, j, k) => \A m \in Frames : j < m /\ m <= k => o \in Kept(m)'
  BY <1>9 DEF Held
<1>11. ASSUME NEW i \in Frames, NEW j \in Frames, In(x, i), In(y, j)
       PROVE  Held(y, i, j)' /\ Held(y, j, i)'
  <2>1. i <= n /\ j <= n /\ i \in Nat /\ j \in Nat /\ n \in Nat
    BY <1>3, <1>8, <1>11 DEF Frames
  <2>2. ASSUME NEW m \in Frames, i < m, m <= j
        PROVE  y \in Kept(m)'
    <3>1. CASE m <= n - 1
      <4>1. x \in Kept(m)'
        BY <1>3, <1>10, <1>11, <2>2, <3>1 DEF VarSound
      <4> QED BY <1>9, <4>1
    <3>2. CASE m = n
      <4>1. j = n
        BY <2>1, <2>2, <3>2
      <4>2. r[2] # "extern" => x \in Kept(n)'
        BY <1>3, <1>10, <1>11, <2>1, <2>2, <3>2 DEF VarSound
      <4>3. v[2] # "local" => y \in Kept(n)'
        BY <1>3, <1>9, <1>11, <4>1 DEF VarSound
      <4> QED BY <1>1, <1>3, <1>9, <3>2, <4>2, <4>3
    <3> QED BY <2>1, <2>2, <3>1, <3>2 DEF Frames
  <2>3. ASSUME NEW m \in Frames, j < m, m <= i
        PROVE  y \in Kept(m)'
    <3>1. CASE m <= n - 1
      BY <1>3, <1>10, <1>11, <2>3, <3>1 DEF VarSound
    <3>2. CASE m = n
      <4>1. i = n
        BY <2>1, <2>3, <3>2
      <4>2. v[2] # "extern" => y \in Kept(n)'
        BY <1>3, <1>10, <1>11, <2>1, <2>3, <3>2 DEF VarSound
      <4>3. r[2] # "local" => x \in Kept(n)'
        BY <1>3, <1>9, <1>11, <4>1 DEF VarSound
      <4> QED BY <1>1, <1>3, <1>9, <3>2, <4>2, <4>3
    <3> QED BY <2>1, <2>3, <3>1, <3>2 DEF Frames
  <2> QED BY <2>2, <2>3 DEF Held
<1>12. LinkSound(x, y)'
  BY <1>7, <1>8, <1>11 DEF LinkSound
<1>13. \A z \in Obj : \A w \in links'[z] : w \in links[z] \/ LinkSound(z, w)'
  BY <1>6, <1>12
<1>14. ASSUME NEW k \in Frames, NEW w \in env'[k]
       PROVE  w \in env[k] \/ VarSound(k, w)'
  <2>1. CASE k # n
    BY <1>1, <2>1
  <2>2. CASE k = n /\ w \notin env[n]
    <3>1. PICK z \in S : w = <<z, "traced">>
      BY <1>1, <2>2
    <3>2. z \in Kept(n)' /\ w[1] = z /\ w[2] = "traced"
      BY <1>9, <3>1
    <3>3. (\E j \in Frames : j <= n /\ In(z, j)) /\ \A j \in Frames : In(z, j) => Held(z, j, n - 1) /\ Held(z, j, n)
      BY <1>1, <1>3, <3>1 DEF VarSound
    <3>4. z \in Obj
      BY <1>3
    <3>5. \A j \in Frames : In(z, j) => Held(z, j, n - 1)' /\ Held(z, j, n)'
      BY <1>10, <3>3, <3>4 DEF Held
    <3> QED BY <1>7, <2>2, <3>2, <3>3, <3>5 DEF VarSound
  <2> QED BY <2>1, <2>2
<1>15. Due' \subseteq reg
  BY <1>5, <1>8
<1>16. \A k \in Frames : Vacant(k)' => env'[k] = {}
  BY <1>1, <1>3, <1>6 DEF Sound, FramesSound, Frames, Vacant, vars
<1> QED
  BY <1>3, <1>5, <1>7, <1>13, <1>14, <1>15, <1>16, StatementSound

\* A property read from a record lasts as long as the record.
LEMMA GetPropSound ==
  ASSUME ProgramTypeOK, LinkTypes, LinkTypes', TableExact, Sound, ParamsAndLoads,
         NEW r \in Scope, GetProp(r)
  PROVE  Sound'
<1>n. PICK n \in Frames : n = frame
  BY ScopeSound DEF GetProp, Idle
<1>1. PICK o \in refs[r[1]] : env' = [env EXCEPT ![n] = @ \cup {<<o, PropStatus(r[2])>>}]
  BY <1>n DEF GetProp
<1> DEFINE x == r[1]
           w == <<o, PropStatus(r[2])>>
<1>2. /\ phase = "run" /\ code = << >> /\ UNCHANGED vars /\ code' = code /\ n = frame
      /\ x \in Obj /\ r[2] \in {"local", "extern", "traced"} /\ VarSound(n, r)
  BY <1>n, ScopeSound DEF GetProp, Idle
<1>3. /\ Pending = {} /\ Pending' = {} /\ o \in links[x]
      /\ \A z \in Obj : links'[z] = links[z]
      /\ Due' = {} /\ Due = {} /\ ~Entering /\ ~Entering' /\ ~Leaving /\ ~Leaving'
  BY <1>2 DEF Pending, links, Due, Entering, Leaving, vars
<1>4. /\ LinkSound(x, o)
      /\ w[1] = o /\ w[2] = PropStatus(r[2]) /\ (w[2] = "extern" <=> r[2] = "extern")
      /\ w[2] \in {"local", "extern"}
  BY <1>2, <1>3 DEF Sound, PropStatus
<1>5. /\ Top' = Top /\ Top = n /\ \A z, k : In(z, k)' <=> In(z, k)
      /\ reset' = reset /\ reg' = reg /\ TypeOK /\ o \in Obj /\ n \in Nat
  BY <1>2 DEF vars, Top, In, closing, ProgramTypeOK, TypeOK, Frames
<1>6. /\ \A z \in Obj : /\ z \in reg <=> \E k \in Frames : In(z, k)
                        /\ \A k \in Frames : In(z, k) => k <= n
                        /\ \A k, l \in Frames : In(z, k) /\ In(z, l) => k = l
      /\ x \in reg /\ o \in reg
  BY <1>2, <1>4, <1>5, Levels DEF LinkSound
<1>7. \A k \in Frames : Roots(k)' = Roots(k) /\ Kept(k)' = Kept(k)
  <2>1. \A k \in Frames : Roots(k)' = Roots(k)
    BY <1>2, <1>3, <1>5 DEF Roots, vars
  <2>2. links' = links
    BY <1>2 DEF links, Pending, vars
  <2> QED BY <2>1, <2>2 DEF Kept
<1>8. \A k \in Frames : x \in Kept(k) => o \in Kept(k)
  BY <1>3, KeptIsProper DEF KeptProper
<1>9. PICK i \in Frames : In(x, i) /\ i <= n
  BY <1>2, <1>6
<1>10. ASSUME NEW j \in Frames, In(o, j)
       PROVE  /\ Held(o, j, n - 1)
              /\ w[2] # "extern" => Held(o, j, n)
              /\ w[2] = "extern" /\ j = n => o \in Kept(n)
  <2>1. Held(o, i, j) /\ Held(o, j, i)
    BY <1>4, <1>9, <1>10 DEF LinkSound
  <2>2. /\ Held(x, i, n - 1)
        /\ r[2] # "extern" => Held(x, i, n)
        /\ r[2] = "extern" /\ i = n => x \in Kept(n)
    BY <1>2, <1>9 DEF VarSound
  <2>3. /\ Held(o, i, n - 1)
        /\ r[2] # "extern" => Held(o, i, n)
        /\ r[2] = "extern" /\ i = n => o \in Kept(n)
    BY <1>8, <2>2 DEF Held
  <2>4. i \in Nat /\ j \in Nat /\ j <= n
    BY <1>6, <1>10, <1>5 DEF Frames
  <2>5. \A m \in Frames : j < m => (j < m /\ m <= i) \/ i < m
    BY <2>4 DEF Frames
  <2>6. Held(o, j, n - 1) /\ (r[2] # "extern" => Held(o, j, n))
    BY <2>1, <2>3, <2>5 DEF Held
  <2>7. r[2] = "extern" /\ j = n => o \in Kept(n)
    <3>1. CASE i = n
      BY <2>3, <3>1
    <3>2. CASE i < n /\ j = n
      BY <2>1, <3>2, <2>4, <1>5 DEF Held
    <3> QED BY <1>9, <2>4, <3>1, <3>2, <1>5
  <2> QED BY <1>4, <2>6, <2>7
<1>11. VarSound(n, w)'
  <2>1. \A z, j, k : Held(z, j, k)' <=> Held(z, j, k)
    BY <1>7 DEF Held
  <2>2. \E j \in Frames : j <= n /\ In(o, j)
    BY <1>6, <1>5
  <2> HIDE DEF w
  <2> QED BY <1>4, <1>5, <1>7, <1>10, <2>1, <2>2 DEF VarSound
<1>12. \A k \in Frames : \A v \in env'[k] : v \in env[k] \/ VarSound(k, v)'
  <2>1. \A k \in Frames \ {n} : env'[k] = env[k]
    BY <1>1, <1>n DEF ProgramTypeOK
  <2>2. env'[n] = env[n] \cup {w}
    BY <1>1, <1>n DEF ProgramTypeOK
  <2> QED BY <1>11, <2>1, <2>2
<1>13. \A k \in Frames : Vacant(k)' => env'[k] = {}
  BY <1>1, <1>2, <1>3, <1>n DEF Sound, FramesSound, Frames, ProgramTypeOK, Vacant, vars
<1> QED
  BY <1>2, <1>3, <1>5, <1>12, <1>13, StatementSound

\* A call: an argument that is a parameter of its own frame is traced, and lasts
\* as long as the caller for the callee.
LEMMA CallSound ==
  ASSUME ProgramTypeOK, LinkTypes, LinkTypes', TableExact, Sound, ParamsAndLoads,
         NEW args \in Seq(Scope), Len(args) \in {0, 1, 2}, Call(args)
  PROVE  Sound'
<1>0. phase = "run" /\ code = << >> /\ UNCHANGED vars /\ frame # FRAME_LIMIT
  BY DEF Call, Idle
<1>n. PICK n \in Frames : n = frame /\ n + 1 \in Frames /\ n \in Nat
  BY <1>0, FrameLimitAssumption DEF ProgramTypeOK, TypeOK, Frames
<1> DEFINE emitted(a) == ArgTrace(a[1], a[2])
           last == [op |-> "NEW_FRAME"]
           traced(a) == IF n # 1 /\ a[2] = "extern" THEN {a[1]} ELSE {}
<1>1. ASSUME NEW i \in DOMAIN args
      PROVE  /\ args[i] \in Scope /\ VarSound(n, args[i]) /\ args[i][1] \in Obj
             /\ args[i][2] \in {"local", "extern", "traced"}
             /\ Emits(emitted(args[i]), traced(args[i]), 0)
  <2>1. args[i] \in Scope
    OBVIOUS
  <2>2. /\ VarSound(n, args[i]) /\ args[i][1] \in Obj
        /\ args[i][2] \in {"local", "extern", "traced"}
    BY <1>0, <1>n, <2>1, ScopeSound
  <2>3. Emits(emitted(args[i]), traced(args[i]), 0)
    BY <1>n, <2>2, EmitNone, EmitOne DEF ArgTrace
  <2> QED BY <2>1, <2>2, <2>3
<1> DEFINE S == UNION {traced(args[i]) : i \in DOMAIN args}
<1>2. PICK s : Emits(s, S, 0) /\ code' = s \o <<last>>
  <2>1. code' = (IF Len(args) = 0 THEN << >>
                 ELSE IF Len(args) = 1 THEN emitted(args[1])
                 ELSE emitted(args[1]) \o emitted(args[2]))
                \o <<last>>
    BY DEF Call
  <2> HIDE DEF emitted, traced, last
  <2>2. CASE Len(args) = 0
    <3>1. S = {}
      BY <2>2
    <3> QED BY <2>1, <2>2, <3>1, EmitNone
  <2>3. CASE Len(args) = 1
    <3>1. S = traced(args[1]) /\ 1 \in DOMAIN args
      BY <2>3
    <3>2. code' = emitted(args[1]) \o <<last>>
      BY <2>1, <2>3
    <3>3. Emits(emitted(args[1]), S, 0)
      BY <1>1, <3>1
    <3> HIDE DEF S
    <3> QED BY <3>2, <3>3
  <2>4. CASE Len(args) = 2
    <3>1. S = traced(args[1]) \cup traced(args[2]) /\ 1 \in DOMAIN args /\ 2 \in DOMAIN args
      BY <2>4
    <3>2. Emits(emitted(args[1]) \o emitted(args[2]), S, 0)
      BY <1>1, <3>1, EmitBoth
    <3>3. code' = emitted(args[1]) \o emitted(args[2]) \o <<last>>
      BY <2>1, <2>4
    <3> HIDE DEF S
    <3> QED BY <3>2, <3>3
  <2> QED BY <2>2, <2>3, <2>4
<1>3. last \in Instr /\ last.op = "NEW_FRAME"
  BY DEF Instr
<1>4. /\ \A i \in DOMAIN code' :
              /\ code'[i].op # "FREE"
              /\ code'[i].op = "TRACE" => code'[i].flag = 0
              /\ code'[i].op \in {"NEW_FRAME", "CLEAN"} => i = Len(code')
      /\ Due' = S
      /\ \A p \in Pending' : p.op # "TRACE" => p = last
      /\ last \in Pending'
  <2> HIDE DEF last, S
  <2> QED BY <1>2, <1>3, StatementCode
<1>5. /\ \A z \in Obj : links'[z] = links[z]
      /\ Entering' /\ ~Entering /\ ~Leaving' /\ ~Leaving
  <2>1. Pending = {}
    BY <1>0 DEF Pending
  <2> HIDE DEF last
  <2> QED BY <1>0, <1>3, <1>4, <2>1 DEF links, Entering, Leaving, vars
<1>6. /\ Top' = Top /\ Top = n /\ \A o, k : In(o, k)' <=> In(o, k)
      /\ reset' = reset /\ reg' = reg /\ TypeOK
  BY <1>0, <1>n DEF vars, Top, In, closing, ProgramTypeOK
<1>7. \A z \in Obj : /\ z \in reg <=> \E k \in Frames : In(z, k)
                     /\ \A k \in Frames : In(z, k) => k <= n
                     /\ \A k, l \in Frames : In(z, k) /\ In(z, l) => k = l
  BY <1>0, <1>6, Levels
<1>8. \A k \in Frames : Kept(k) \subseteq Kept(k)'
  <2>1. \A k \in Frames : Roots(k) \subseteq Roots(k)'
    BY <1>0, <1>6 DEF Roots, Due, Pending, vars
  <2> QED BY <1>5, <2>1, KeptGrows
<1>9. S \subseteq Kept(n)'
  <2>1. S \subseteq Roots(n)'
    BY <1>4, <1>6 DEF Roots
  <2> QED BY <2>1, KeptIsProperNext DEF KeptProper
<1>10. ASSUME NEW w \in env'[n + 1]
       PROVE  VarSound(n + 1, w)'
  <2>1. env'[n + 1] = {<<args[i][1], "extern">> : i \in DOMAIN args}
    BY <1>n DEF Call, ProgramTypeOK
  <2>2. PICK i \in DOMAIN args : w = <<args[i][1], "extern">>
    BY <2>1
  <2> DEFINE a == args[i]
  <2>3. w[1] = a[1] /\ w[2] = "extern" /\ VarSound(n, a) /\ a[1] \in Obj /\ a[2] \in {"local", "extern", "traced"}
    BY <1>1, <2>2
  <2>4. \E j \in Frames : j <= n + 1 /\ In(a[1], j)
    BY <1>n, <2>3 DEF VarSound, Frames
  <2>5. ASSUME NEW j \in Frames, In(a[1], j)
        PROVE  Held(a[1], j, n)' /\ j <= n
    <3>1. j <= n
      BY <1>7, <2>3, <2>5
    <3>2. ASSUME NEW m \in Frames, j < m, m <= n
          PROVE  a[1] \in Kept(m)'
      <4>1. CASE m <= n - 1 \/ a[2] # "extern"
        BY <1>8, <2>3, <2>5, <3>2, <4>1 DEF VarSound, Held
      <4>2. CASE m = n /\ a[2] = "extern"
        <5>1. n # 1
          BY <3>2, <4>2 DEF Frames
        <5>2. a[1] \in S
          BY <4>2, <5>1
        <5> QED BY <1>9, <4>2, <5>2
      <4> QED BY <1>n, <3>2, <4>1, <4>2 DEF Frames
    <3> QED BY <3>1, <3>2 DEF Held
  <2> HIDE DEF a
  <2>6. n + 1 - 1 = n /\ \A j \in Frames : j <= n => j # n + 1
    BY <1>n DEF Frames
  <2>7. \E j \in Frames : j <= n + 1 /\ In(w[1], j)'
    BY <1>6, <2>3, <2>4
  <2>9. \A k \in Frames : k = n + 1 => VarSound(k, w)'
    <3> SUFFICES ASSUME NEW k \in Frames, k = n + 1 PROVE VarSound(k, w)'
      OBVIOUS
    <3>1. w[2] \in {"local", "extern", "traced"} /\ w[2] = "extern" /\ w[2] # "traced"
      BY <2>3
    <3>2. \E j \in Frames : j <= k /\ In(w[1], j)'
      BY <2>7
    <3>3. \A j \in Frames : In(w[1], j)' => Held(w[1], j, k - 1)' /\ j # k
      <4>1. k - 1 = n
        BY <1>n
      <4>2. \A j \in Frames : In(w[1], j)' => Held(w[1], j, n)' /\ j # n + 1
        BY <1>6, <2>3, <2>5, <2>6
      <4> QED BY <4>1, <4>2
    <3> QED BY <3>1, <3>2, <3>3 DEF VarSound
  <2> QED BY <1>n, <2>9
<1>11. \A k \in Frames : \A v \in env'[k] : v \in env[k] \/ VarSound(k, v)'
  <2>1. \A k \in Frames \ {n + 1} : env'[k] = env[k]
    BY <1>n DEF Call, ProgramTypeOK
  <2> QED BY <1>10, <2>1
<1>12. \A k \in Frames : Vacant(k)' => env'[k] = {}
  BY <1>5, <1>n, <1>0 DEF Call, Sound, FramesSound, Frames, ProgramTypeOK, Vacant, vars
<1>13. Due' \subseteq reg
  <2>1. \A i \in DOMAIN args : args[i][1] \in reg
    BY <1>1, <1>7 DEF VarSound
  <2> QED BY <1>4, <2>1
<1> HIDE DEF S, last
<1> QED
  BY <1>0, <1>4, <1>5, <1>6, <1>11, <1>12, <1>13, StatementSound

\* A return without a value leaves the frame without variables.
LEMMA ReturnSound ==
  ASSUME ProgramTypeOK, LinkTypes, LinkTypes', TableExact, Sound, ParamsAndLoads, Return
  PROVE  Sound'
<1> DEFINE last == [op |-> "CLEAN"]
<1>0. phase = "run" /\ code = << >> /\ UNCHANGED vars /\ frame \in Frames
  BY FrameLimitAssumption DEF Return, Idle, ProgramTypeOK, TypeOK, Frames
<1>1. code' = << >> \o <<last>> /\ last \in Instr /\ last.op = "CLEAN"
  BY DEF Return, Instr
<1> HIDE DEF last
<1>2. /\ \A i \in DOMAIN code' :
              /\ code'[i].op # "FREE"
              /\ code'[i].op = "TRACE" => code'[i].flag = 0
              /\ code'[i].op \in {"NEW_FRAME", "CLEAN"} => i = Len(code')
      /\ Due' = {}
      /\ \A p \in Pending' : p.op # "TRACE" => p = last
  BY <1>1, EmitNone, StatementCode
<1>3. \A z \in Obj : links'[z] = links[z]
  BY <1>0, <1>1, <1>2 DEF links, Pending, vars
<1>4. \A k \in Frames : env'[k] = IF k = frame THEN {} ELSE env[k]
  BY <1>0 DEF Return, ProgramTypeOK
<1>5. ~Entering /\ ~Leaving /\ ~Entering'
  BY <1>0, <1>1, <1>2 DEF Entering, Leaving, Pending
<1>6. \A k \in Frames : Vacant(k)' => env'[k] = {}
  BY <1>0, <1>4, <1>5 DEF Sound, FramesSound, Vacant, vars
<1>7. TypeOK
  BY DEF ProgramTypeOK
<1> QED
  BY <1>0, <1>2, <1>3, <1>4, <1>6, <1>7, StatementSound

\* alloc returns an object that is not registered, and registers it with the
\* current frame.
LEMMA AllocShape ==
  ASSUME TypeOK, StructAccounting, pre = {}, phase = "run", NEW o \in Obj,
         AllocRecycled(o) \/ AllocFresh(o),
         NEW n \in Frames, n = frame
  PROVE  /\ o \notin reg
         /\ UNCHANGED <<phase, frame, traces, reset>>
         /\ reg' = reg \cup {o} /\ pre' = {} /\ flag' = flag \ {o}
         /\ \A z \in Obj : refs'[z] = IF z = o THEN {} ELSE refs[z]
         /\ \A z \in Obj, k \in Frames : In(z, k)' <=> (In(z, k) \/ (z = o /\ k = n))
<1>1. freed \in [Obj -> Nat] /\ refs \in [Obj -> SUBSET Obj] /\ table \in [Frames -> [Obj -> Nat]]
  BY DEF TypeOK
<1>2. o \notin reg
  <2>1. CASE AllocRecycled(o)
    <3>1. freed[o] > 0 /\ freed[o] <= 1 /\ freed[o] \in Nat
      BY <1>1, <2>1 DEF AllocRecycled, StructAccounting
    <3>2. freed[o] = 1
      BY <3>1
    <3> QED BY <1>1, <3>2 DEF StructAccounting
  <2>2. CASE AllocFresh(o)
    BY <1>1, <2>2 DEF AllocFresh, StructAccounting
  <2> QED BY <2>1, <2>2
<1>3. /\ table' = [table EXCEPT ![n][o] = @ + 1]
      /\ UNCHANGED <<phase, frame, traces, reset>>
      /\ reg' = reg \cup {o} /\ pre' = pre \ {o} /\ flag' = flag \ {o}
      /\ refs' = [refs EXCEPT ![o] = {}]
  BY <1>2 DEF AllocRecycled, AllocFresh, Registered, Refreshed
<1>4. ASSUME NEW z \in Obj, NEW k \in Frames
      PROVE  In(z, k)' <=> (In(z, k) \/ (z = o /\ k = n))
  <2>1. table[k][z] \in Nat
    BY <1>1
  <2>2. table'[k][z] = IF z = o /\ k = n THEN table[k][z] + 1 ELSE table[k][z]
    BY <1>1, <1>3
  <2> QED BY <2>1, <2>2 DEF In
<1> QED BY <1>1, <1>2, <1>3, <1>4

\* A new object is in the table of its own frame only, and nothing refers to it.
LEMMA NewSound ==
  ASSUME ProgramTypeOK, LinkTypes, LinkTypes', TableExact, StructAccounting, Sound, ParamsAndLoads,
         NEW o \in Obj, New(o)
  PROVE  Sound'
<1>1. /\ phase = "run" /\ code = << >> /\ code' = code /\ pre = {} /\ TypeOK
      /\ flag = {} /\ reset = {} /\ (AllocRecycled(o) \/ AllocFresh(o))
  BY DEF New, Idle, Sound, QuietSound, ProgramTypeOK
<1>n. PICK n \in Frames : n = frame
  BY <1>1, FrameLimitAssumption DEF TypeOK, Frames
<1>2. o \notin reg
  BY <1>1, <1>n, AllocShape
<1>3. /\ UNCHANGED <<phase, frame, traces, reset>>
      /\ reg' = reg \cup {o} /\ pre' = {} /\ flag' = flag \ {o}
      /\ \A z \in Obj : refs'[z] = IF z = o THEN {} ELSE refs[z]
      /\ env' = [env EXCEPT ![n] = @ \cup {<<o, "local">>}]
  BY <1>1, <1>n, AllocShape DEF New
<1>4. /\ Top' = Top /\ Top = n /\ n \in Nat
  BY <1>1, <1>3, <1>n DEF Top, closing, Frames
<1>5. \A z \in Obj : /\ z \in reg <=> \E k \in Frames : In(z, k)
                     /\ \A k \in Frames : In(z, k) => k <= n
                     /\ \A k, l \in Frames : In(z, k) /\ In(z, l) => k = l
  BY <1>1, <1>4, Levels
<1>6. \A z \in Obj, k \in Frames : In(z, k)' <=> (In(z, k) \/ (z = o /\ k = n))
  BY <1>1, <1>n, AllocShape
<1>7. Pending = {} /\ Pending' = {}
  BY <1>1 DEF Pending
<1>8. links[o] = {}
  BY <1>2 DEF Sound, LinkSound
<1>9. links' = links
  <2>1. \A z \in Obj : links[z] = refs[z] /\ links'[z] = refs'[z]
    BY <1>7 DEF links
  <2>2. \A z \in Obj : refs'[z] = IF z = o THEN {} ELSE refs[z]
    BY <1>3
  <2>3. links \in [Obj -> SUBSET Obj] /\ links' \in [Obj -> SUBSET Obj]
    BY DEF LinkTypes
  <2> QED BY <1>8, <2>1, <2>2, <2>3
<1>10. \A k \in Frames : Roots(k)' = Roots(k) /\ Kept(k)' = Kept(k)
  <2>1. \A k \in Frames : Roots(k)' = Roots(k)
    BY <1>3, <1>4, <1>7 DEF Roots, Due
  <2> QED BY <1>9, <2>1 DEF Kept
<1>11. \A z, j, k : Held(z, j, k)' <=> Held(z, j, k)
  BY <1>10 DEF Held
<1>12. QuietSound' /\ CodeSound(0)'
  BY <1>1, <1>3 DEF Sound, QuietSound, CodeSound
<1>13. env' = [k \in Frames |-> IF k = n THEN env[n] \cup {<<o, "local">>} ELSE env[k]]
  BY <1>3, <1>n DEF ProgramTypeOK
<1>14. FramesSound'
  BY <1>3, <1>4, <1>7, <1>13, <1>n DEF Sound, FramesSound, Vacant, Entering, Leaving, Frames
<1>15. RootsSound'
  <2> SUFFICES ASSUME NEW k \in Frames, NEW r \in Roots(k)
               PROVE  \E j \in Frames : j <= k /\ In(r, j)'
    BY <1>10 DEF RootsSound
  <2>1. r \in Obj
    BY DEF LinkTypes
  <2> QED BY <1>6, <2>1 DEF Sound, RootsSound
<1>16. ASSUME NEW k \in Frames, NEW w \in env[k]
       PROVE  VarSound(k, w)'
  <2>1. VarSound(k, w) /\ w[1] \in Obj
    BY DEF Sound, ProgramTypeOK, Var
  <2>2. w[1] # o
    BY <1>2, <1>5, <2>1 DEF VarSound
  <2>3. \A j \in Frames : In(w[1], j)' <=> In(w[1], j)
    BY <1>6, <2>1, <2>2
  <2> QED BY <1>10, <1>11, <2>1, <2>3 DEF VarSound
<1>17. VarSound(n, <<o, "local">>)'
  <2> DEFINE w == <<o, "local">>
  <2>1. w[1] = o /\ w[2] = "local"
    OBVIOUS
  <2> HIDE DEF w
  <2>2. \A j \in Frames : In(o, j)' <=> j = n
    BY <1>2, <1>5, <1>6
  <2>3. Held(o, n, n - 1)' /\ Held(o, n, n)'
    BY <1>4 DEF Held, Frames
  <2>4. \E j \in Frames : j <= n /\ In(o, j)'
    BY <1>4, <1>n, <2>2
  <2>5. VarSound(n, w)'
    BY <1>4, <2>1, <2>2, <2>3, <2>4 DEF VarSound
  <2> QED BY <2>5 DEF w
<1>18. \A k \in Frames : \A w \in env'[k] : VarSound(k, w)'
  BY <1>13, <1>16, <1>17
<1>19. ASSUME NEW x \in Obj, NEW y \in links'[x]
       PROVE  LinkSound(x, y)'
  <2>1. y \in links[x] /\ LinkSound(x, y) /\ y \in Obj
    BY <1>9 DEF Sound, LinkTypes
  <2>2. x # o /\ y # o
    BY <1>2, <2>1 DEF LinkSound
  <2>3. \A j \in Frames : (In(x, j)' <=> In(x, j)) /\ (In(y, j)' <=> In(y, j))
    BY <1>6, <2>1, <2>2
  <2> QED BY <1>3, <1>11, <2>1, <2>3 DEF LinkSound
<1> QED BY <1>12, <1>14, <1>15, <1>18, <1>19 DEF Sound

\* Appending an element adds it to the elements of a sequence.
LEMMA AppendRange ==
  ASSUME NEW T, NEW s \in Seq(T), NEW e \in T
  PROVE  {Append(s, e)[j] : j \in DOMAIN Append(s, e)} = {s[j] : j \in DOMAIN s} \cup {e}
<1>1. /\ DOMAIN s = 1 .. Len(s) /\ Len(s) \in Nat /\ DOMAIN Append(s, e) = 1 .. Len(s) + 1
      /\ Append(s, e)[Len(s) + 1] = e /\ \A j \in 1 .. Len(s) : Append(s, e)[j] = s[j]
  OBVIOUS
<1>2. \A j \in 1 .. Len(s) + 1 : j \in 1 .. Len(s) \/ j = Len(s) + 1
  BY <1>1
<1>3. Len(s) + 1 \in 1 .. Len(s) + 1 /\ \A j \in 1 .. Len(s) : j \in 1 .. Len(s) + 1
  BY <1>1
<1> QED BY <1>1, <1>2, <1>3

\* The elements of a sequence are its head and those of its tail.
LEMMA TailRange ==
  ASSUME NEW T, NEW s \in Seq(T), s # << >>
  PROVE  /\ Head(s) \in T /\ Head(s) = s[1] /\ 1 \in DOMAIN s
         /\ {s[j] : j \in DOMAIN s} = {Tail(s)[j] : j \in DOMAIN Tail(s)} \cup {Head(s)}
<1>1. /\ DOMAIN s = 1 .. Len(s) /\ Len(s) \in Nat \ {0} /\ DOMAIN Tail(s) = 1 .. Len(s) - 1
      /\ Head(s) = s[1] /\ \A j \in 1 .. Len(s) - 1 : Tail(s)[j] = s[j + 1]
  OBVIOUS
<1>2. \A j \in 1 .. Len(s) : j = 1 \/ (j - 1 \in 1 .. Len(s) - 1 /\ Tail(s)[j - 1] = s[j])
  BY <1>1
<1>3. 1 \in 1 .. Len(s) /\ \A j \in 1 .. Len(s) - 1 : j + 1 \in 1 .. Len(s)
  BY <1>1
<1>4. \A j \in DOMAIN Tail(s) : j + 1 \in DOMAIN s /\ Tail(s)[j] = s[j + 1]
  BY <1>1, <1>3
<1>5. \A j \in DOMAIN s : j = 1 \/ \E i \in DOMAIN Tail(s) : Tail(s)[i] = s[j]
  BY <1>1, <1>2
<1> QED BY <1>1, <1>3, <1>4, <1>5

\* A step that leaves the table alone and takes no root or link away.
LEMMA KeepsSound ==
  ASSUME TypeOK, TypeOK', LinkTypes, LinkTypes', Sound, UNCHANGED <<table, reg, env>>,
         \A k \in Frames : Roots(k) \subseteq Roots(k)',
         \A x \in Obj : links'[x] = links[x],
         QuietSound', CodeSound(0)', FramesSound', RootsSound'
  PROVE  Sound'
<1>1. \A k \in Frames : Kept(k) \subseteq Kept(k)'
  BY KeptGrows
<1>2. \A o, j, k : Held(o, j, k) => Held(o, j, k)'
  BY <1>1 DEF Held
<1>3. \A o, k : In(o, k)' <=> In(o, k)
  BY DEF In
<1>4. ASSUME NEW k \in Frames, NEW v \in env'[k]
      PROVE  VarSound(k, v)'
  <2>1. v \in env[k]
    OBVIOUS
  <2>2. VarSound(k, v)
    BY <2>1 DEF Sound
  <2> QED BY <1>1, <1>2, <1>3, <2>2 DEF VarSound
<1>5. ASSUME NEW x \in Obj, NEW y \in links'[x]
      PROVE  LinkSound(x, y)'
  <2>1. LinkSound(x, y)
    BY DEF Sound
  <2> QED BY <1>2, <1>3, <2>1 DEF LinkSound
<1> QED BY <1>4, <1>5 DEF Sound

\* An instruction does what was pending: a trace makes a due root an entry, a
\* store makes a pending link a register, a call opens a frame without roots, and
\* a return starts to close one; what was promised of roots and links stays true.
LEMMA ExecuteShape ==
  ASSUME ProgramTypeOK, ProgramTypeOK', NEW f \in {0, 1}, CodeSound(f), FramesSound,
         reset = {}, Execute
  PROVE  /\ UNCHANGED <<table, reg, env, pre>> /\ reset' = {}
         /\ \A k \in Frames : Roots(k)' = Roots(k)
         /\ \A x \in Obj : links'[x] \subseteq links[x]
         /\ "overwrite" \notin features => \A x \in Obj : links'[x] = links[x]
         /\ CodeSound(f)' /\ FramesSound'
         /\ f = 0 => flag' \subseteq flag
         /\ f = 1 => flag \subseteq flag' /\ flag' \cup Due' = flag \cup Due
         /\ f = 1 => \A k \in Frames : \A j \in DOMAIN traces'[k] :
                        traces'[k][j] \in flag' \/ \E h \in DOMAIN traces[k] : traces'[k][j] = traces[k][h]
<1> DEFINE i == Head(code)
<1>1. /\ phase = "run" /\ code # << >> /\ code' = Tail(code) /\ env' = env
      /\ code \in Seq(Instr) /\ TypeOK /\ TypeOK'
  BY DEF Execute, ProgramTypeOK
<1>n. PICK n \in Frames : n = frame
  BY <1>1, FrameLimitAssumption DEF ProgramTypeOK, TypeOK, Frames
<1>2. /\ i \in Instr /\ i = code[1] /\ 1 \in DOMAIN code /\ Len(code) \in Nat \ {0}
  BY <1>1
<1> HIDE DEF i
<1>3. /\ Pending = {i} \cup Pending'
      /\ Len(code') = Len(code) - 1
      /\ DOMAIN code' = 1 .. Len(code')
      /\ \A j \in DOMAIN code' : code'[j] = code[j + 1] /\ j + 1 \in DOMAIN code
  BY <1>1, CodeTail DEF i
<1>4. /\ i.op # "FREE"
      /\ i.op = "TRACE" => i.flag = f
      /\ i.op \in {"NEW_FRAME", "CLEAN"} => Len(code) = 1
  BY <1>2 DEF CodeSound
<1>5. \A j \in DOMAIN code' :
              /\ code'[j].op # "FREE"
              /\ code'[j].op = "TRACE" => code'[j].flag = f
              /\ code'[j].op \in {"NEW_FRAME", "CLEAN"} => j = Len(code')
  BY <1>2, <1>3 DEF CodeSound
<1>6. Top = n
  BY <1>1, <1>n DEF Top
<1>7. CASE i.op = "TRACE" /\ GcTrace(i.obj, i.flag)
  <2>1. /\ traces' = [traces EXCEPT ![n] = Append(@, i.obj)]
        /\ flag' = (IF f = 1 THEN flag \cup {i.obj} ELSE flag \ {i.obj}) /\ i.obj \in Obj
        /\ UNCHANGED <<phase, frame, table, reset, reg, pre, refs>>
    BY <1>4, <1>7, <1>n, <1>2 DEF GcTrace, Instr
  <2>2. Due = {i.obj} \cup Due' /\ (Entering <=> Entering') /\ (Leaving <=> Leaving')
    BY <1>3, <1>7 DEF Due, Entering, Leaving
  <2>3. Top' = n
    BY <1>1, <1>n, <2>1 DEF Top
  <2>4. traces \in [Frames -> Seq(Obj)] /\ traces[n] \in Seq(Obj)
    BY <1>1 DEF TypeOK
  <2>5. \A k \in Frames : traces'[k] = IF k = n THEN Append(traces[n], i.obj) ELSE traces[k]
    BY <2>1, <2>4
  <2>6. {traces'[n][j] : j \in DOMAIN traces'[n]} = {traces[n][j] : j \in DOMAIN traces[n]} \cup {i.obj}
    <3> DEFINE t == traces[n]
    <3>1. t \in Seq(Obj) /\ traces'[n] = Append(t, i.obj)
      BY <2>4, <2>5
    <3> HIDE DEF t
    <3>2. {Append(t, i.obj)[j] : j \in DOMAIN Append(t, i.obj)} = {t[j] : j \in DOMAIN t} \cup {i.obj}
      BY <2>1, <3>1, AppendRange
    <3> QED BY <3>1, <3>2 DEF t
  <2>7. \A k \in Frames : Roots(k)' = Roots(k)
    <3>1. Roots(n)' = Roots(n)
      BY <1>6, <2>1, <2>2, <2>3, <2>6 DEF Roots
    <3>2. \A k \in Frames \ {n} : Roots(k)' = Roots(k)
      BY <1>6, <2>3, <2>5 DEF Roots
    <3> QED BY <3>1, <3>2
  <2>8. \A x \in Obj : links'[x] = links[x]
    BY <1>3, <1>7, <2>1 DEF links
  <2>9. CodeSound(f)'
    BY <1>1, <1>5, <2>1 DEF CodeSound
  <2>10. FramesSound'
    <3>1. \A k \in Frames : k > Top' => traces'[k] = << >>
      BY <1>6, <2>3, <2>5 DEF FramesSound, Frames
    <3> QED BY <1>1, <2>1, <2>2, <3>1 DEF FramesSound, Vacant
  <2>11. \A k \in Frames : \A j \in DOMAIN traces'[k] :
            traces'[k][j] = i.obj \/ \E h \in DOMAIN traces[k] : traces'[k][j] = traces[k][h]
    BY <2>5, <2>6
  <2>12. f = 1 => flag \subseteq flag' /\ i.obj \in flag' /\ flag' \cup Due' = flag \cup Due
    BY <2>1, <2>2
  <2> QED BY <1>1, <2>1, <2>7, <2>8, <2>9, <2>10, <2>11, <2>12
<1>8. CASE i.op = "STORE" /\ Store(i.obj, i.val)
              /\ ("overwrite" \in features \/ refs[i.obj] \subseteq refs'[i.obj])
  <2>1. PICK old \in {{}} \cup {{x} : x \in refs[i.obj]} :
          refs' = [refs EXCEPT ![i.obj] = (refs[i.obj] \ old) \cup {i.val}]
    BY <1>8 DEF Store
  <2>2. /\ UNCHANGED <<phase, frame, table, traces, reset, reg, pre, flag>>
        /\ i.obj \in Obj /\ i.val \in Obj
    BY <1>8, <1>2 DEF Store, Instr
  <2>3. refs \in [Obj -> SUBSET Obj]
    BY <1>1 DEF TypeOK
  <2>4. /\ \A x \in Obj : x # i.obj => refs'[x] = refs[x]
        /\ refs'[i.obj] \subseteq refs[i.obj] \cup {i.val} /\ i.val \in refs'[i.obj]
        /\ "overwrite" \notin features => refs'[i.obj] = refs[i.obj] \cup {i.val}
    <3>1. refs'[i.obj] = (refs[i.obj] \ old) \cup {i.val}
      BY <2>1, <2>2, <2>3
    <3>2. \A x \in Obj \ {i.obj} : refs'[x] = refs[x]
      BY <2>1, <2>3
    <3> QED BY <1>8, <3>1, <3>2
  <2>5. ASSUME NEW x \in Obj
        PROVE  /\ links'[x] \subseteq links[x]
               /\ "overwrite" \notin features => links'[x] = links[x]
    <3> DEFINE stored(P) == {p.val : p \in {q \in P : q.op = "STORE" /\ q.obj = x}}
    <3>1. links[x] = refs[x] \cup stored(Pending) /\ links'[x] = refs'[x] \cup stored(Pending')
      BY DEF links
    <3>2. stored(Pending) = stored(Pending') \cup (IF x = i.obj THEN {i.val} ELSE {})
      BY <1>3, <1>8
    <3> HIDE DEF stored
    <3> QED BY <2>4, <3>1, <3>2
  <2>6. Due' = Due /\ (Entering <=> Entering') /\ (Leaving <=> Leaving') /\ Top' = Top
    BY <1>3, <1>8, <2>2 DEF Due, Entering, Leaving, Top, closing
  <2>7. \A k \in Frames : Roots(k)' = Roots(k)
    BY <2>2, <2>6 DEF Roots
  <2>8. CodeSound(f)'
    BY <1>1, <1>5, <2>2 DEF CodeSound
  <2>9. FramesSound'
    BY <1>1, <2>2, <2>6 DEF FramesSound, Vacant
  <2> QED BY <1>1, <2>2, <2>5, <2>6, <2>7, <2>8, <2>9
<1>9. CASE i.op \in {"NEW_FRAME", "CLEAN"}
  <2>1. code' = << >> /\ Pending' = {} /\ Pending = {i} /\ Due = {} /\ Due' = {}
    BY <1>1, <1>2, <1>3, <1>4, <1>9 DEF Pending, Due
  <2>2. \A x \in Obj : refs' = refs => links'[x] = links[x]
    BY <1>9, <2>1 DEF links
  <2>3. CASE i.op = "NEW_FRAME" /\ GcNewFrame
    <3>1. /\ frame' = n + 1 /\ n + 1 \in Frames /\ n \in Nat
          /\ UNCHANGED <<phase, table, traces, reset, reg, pre, flag, refs>>
      BY <1>1, <1>n, <2>3 DEF GcNewFrame, TypeOK, Frames
    <3>2. Top' = n + 1
      BY <1>1, <3>1 DEF Top
    <3>3. traces[n + 1] = << >>
      BY <1>6, <3>1 DEF FramesSound
    <3>4. \A k \in Frames : Roots(k)' = Roots(k)
      BY <1>1, <1>6, <2>1, <3>1, <3>2 DEF Roots
    <3>5. CodeSound(f)'
      BY <1>1, <1>5, <3>1 DEF CodeSound
    <3>6. FramesSound'
      <4>1. \A k \in Frames : Vacant(k)' => Vacant(k)
        BY <1>n, <2>1, <3>1 DEF Vacant, Entering, Leaving, Frames
      <4>2. \A k \in Frames : k > n + 1 => k > n
        BY <3>1 DEF Frames
      <4> QED BY <1>1, <1>6, <3>1, <3>2, <4>1, <4>2 DEF FramesSound
    <3> QED BY <1>1, <2>1, <2>2, <3>1, <3>4, <3>5, <3>6
  <2>4. CASE i.op = "CLEAN" /\ GcCleanBegin
    <3>1. /\ frame' = n - 1 /\ n > 1 /\ n \in Nat /\ phase' = "mark" /\ reset' = {}
          /\ UNCHANGED <<table, traces, reg, pre, flag, refs>>
      BY <1>1, <1>n, <2>4 DEF GcCleanBegin, TypeOK, Frames
    <3>2. Top' = n
      BY <3>1 DEF Top, closing
    <3>4. \A k \in Frames : Roots(k)' = Roots(k)
      BY <1>1, <1>6, <2>1, <3>1, <3>2 DEF Roots
    <3>5. CodeSound(f)'
      BY <1>1, <1>5, <2>1, <3>1 DEF CodeSound
    <3>6. FramesSound'
      <4>1. \A k \in Frames : Vacant(k)' => Vacant(k)
        <5>1. Leaving /\ ~Entering /\ ~Leaving' /\ ~Entering'
          BY <2>1, <2>4 DEF Entering, Leaving
        <5> QED BY <1>n, <5>1, <3>1 DEF Vacant, Frames
      <4> QED BY <1>1, <1>6, <3>1, <3>2, <4>1 DEF FramesSound
    <3> QED BY <1>1, <2>1, <2>2, <3>1, <3>4, <3>5, <3>6
  <2> QED BY <1>4, <1>9, <2>3, <2>4 DEF Execute, i
<1> QED BY <1>4, <1>7, <1>8, <1>9 DEF Execute, i

\* An instruction keeps the statuses true.
LEMMA ExecuteSound ==
  ASSUME ProgramTypeOK, ProgramTypeOK', LinkTypes, LinkTypes', Sound, ParamsAndLoads, Execute
  PROVE  Sound'
<1>1. /\ CodeSound(0) /\ FramesSound /\ reset = {} /\ "overwrite" \notin features
      /\ flag = {} /\ pre = {} /\ TypeOK /\ TypeOK'
  BY DEF Sound, QuietSound, ParamsAndLoads, Execute, ProgramTypeOK
<1>2. /\ UNCHANGED <<table, reg, env, pre>> /\ reset' = {}
      /\ \A k \in Frames : Roots(k)' = Roots(k)
      /\ \A x \in Obj : links'[x] = links[x]
      /\ CodeSound(0)' /\ FramesSound' /\ flag' \subseteq flag
  BY <1>1, ExecuteShape
<1>3. QuietSound' /\ RootsSound'
  BY <1>1, <1>2 DEF QuietSound, Sound, RootsSound, In
<1> QED BY <1>1, <1>2, <1>3, KeepsSound

\* One entry of the marking loop: what gc_clean has flagged is below the entries.
LEMMA MarkSound ==
  ASSUME ProgramTypeOK, ProgramTypeOK', LinkTypes, LinkTypes', TableExact, StructAccounting,
         MarkClosed, Sound, GcMark, UNCHANGED <<env, code>>
  PROVE  Sound'
<1> DEFINE o == Head(traces[closing])
<1>1. /\ phase = "mark" /\ TypeOK /\ TypeOK' /\ code = << >> /\ flag = reset /\ pre = {}
      /\ Pending = {} /\ Pending' = {} /\ Due = {} /\ Due' = {} /\ ~Entering /\ ~Leaving
      /\ ~Entering' /\ ~Leaving'
  BY DEF GcMark, ProgramTypeOK, Sound, QuietSound, CodeSound, Pending, Due, Entering, Leaving
<1>n. PICK n \in Frames : n = closing /\ n = frame + 1 /\ n = Top
  BY <1>1, FrameLimitAssumption DEF ProgramTypeOK, TypeOK, Frames, closing, Top
<1>2. /\ traces[n] # << >> /\ traces[n] \in Seq(Obj) /\ traces \in [Frames -> Seq(Obj)]
      /\ traces' = [traces EXCEPT ![n] = Tail(@)]
      /\ UNCHANGED <<phase, frame, table, mallocd, freed, reg, pre, refs>>
  BY <1>1, <1>n DEF GcMark, TypeOK
<1>3. /\ o \in Obj /\ o = traces[n][1] /\ 1 \in DOMAIN traces[n]
      /\ {traces[n][j] : j \in DOMAIN traces[n]} = {traces'[n][j] : j \in DOMAIN traces'[n]} \cup {o}
  <2> DEFINE t == traces[n]
  <2>1. t \in Seq(Obj) /\ t # << >> /\ Head(t) = o /\ traces'[n] = Tail(t)
    BY <1>2, <1>n
  <2> HIDE DEF t, o
  <2>2. /\ o \in Obj /\ o = t[1] /\ 1 \in DOMAIN t
        /\ {t[j] : j \in DOMAIN t} = {Tail(t)[j] : j \in DOMAIN Tail(t)} \cup {o}
    BY <2>1, TailRange
  <2> QED BY <2>1, <2>2 DEF t
<1> HIDE DEF o
<1>4. Top' = n
  BY <1>1, <1>2, <1>n DEF Top, closing
<1>5. \A x \in Obj : links'[x] = links[x] /\ links[x] = refs[x]
  BY <1>1, <1>2 DEF links
<1>6. /\ reset \subseteq reset' /\ o \in reset' /\ flag' = reset'
      /\ \A z \in reset' : z \in reset \/ z \in Allocated
  <2>1. CASE MarkPermanent(o)
    <3>1. Walk(o, flag \ {o}) \subseteq flag
      <4>1. o \in flag /\ flag \in SUBSET Obj /\ Closed(flag, flag \ {o})
        BY <1>1, <2>1 DEF MarkPermanent, MarkClosed, Closed, TypeOK
      <4> QED BY <4>1 DEF Walk
    <3> QED BY <1>1, <2>1, <3>1 DEF MarkPermanent
  <2>2. CASE MarkTransient(o)
    <3>1. o \in Walk(o, flag)
      BY <1>3, WalkStart
    <3> QED BY <1>1, <2>2, <3>1 DEF MarkTransient
  <2> QED BY <1>n, <2>1, <2>2 DEF GcMark, o
<1>7. \A k \in Frames : k # n => Roots(k)' = Roots(k)
  BY <1>2, <1>4, <1>n DEF Roots
<1>8. /\ Roots(n) \subseteq Roots(n)'
      /\ Roots(n)' \subseteq Roots(n) \cup reset'
  BY <1>1, <1>3, <1>4, <1>6, <1>n DEF Roots
<1>9. \A k \in Frames : Roots(k) \subseteq Roots(k)'
  BY <1>7, <1>8
<1>10. QuietSound' /\ CodeSound(0)'
  BY <1>1, <1>2, <1>6 DEF Sound, QuietSound, CodeSound
<1>11. FramesSound'
  <2>1. \A k \in Frames : k > n => traces'[k] = traces[k]
    BY <1>2 DEF Frames
  <2>2. \A k \in Frames : Vacant(k)' <=> Vacant(k)
    BY <1>1, <1>2 DEF Vacant
  <2> QED BY <1>4, <1>n, <2>1, <2>2 DEF Sound, FramesSound
<1>12. RootsSound'
  <2> SUFFICES ASSUME NEW k \in Frames, NEW r \in Roots(k)'
               PROVE  \E j \in Frames : j <= k /\ In(r, j)
    BY <1>2 DEF RootsSound, In
  <2>1. CASE r \in Roots(k)
    BY <2>1 DEF Sound, RootsSound
  <2>2. CASE k = n /\ r \in Allocated
    <3>1. r \in reg /\ r \in Obj
      BY <1>1, <2>2 DEF Allocated, StructAccounting, TypeOK
    <3> QED BY <1>1, <1>n, <2>2, <3>1, Levels
  <2>3. CASE k = n /\ r \in reset
    BY <1>n, <2>3 DEF Roots, Sound, RootsSound
  <2> QED BY <1>6, <1>7, <1>8, <2>1, <2>2, <2>3
<1> QED BY <1>1, <1>2, <1>5, <1>9, <1>10, <1>11, <1>12, KeepsSound

\* The sweep: no object that stays has a reference to one that goes, and the frames
\* below keep what they kept.
LEMMA SweepSound ==
  ASSUME ProgramTypeOK, ProgramTypeOK', LinkTypes, LinkTypes', TableExact,
         MarkClosed, Sound, GcSweep, UNCHANGED <<env, code>>
  PROVE  Sound'
<1>1. /\ phase = "mark" /\ TypeOK /\ TypeOK' /\ code = << >> /\ flag = reset /\ pre = {}
      /\ Pending = {} /\ Pending' = {} /\ Due = {} /\ Due' = {} /\ ~Entering /\ ~Leaving
      /\ ~Entering' /\ ~Leaving' /\ KeptProper /\ KeptProper'
  BY KeptIsProper, KeptIsProperNext
     DEF GcSweep, ProgramTypeOK, Sound, QuietSound, CodeSound, Pending, Due, Entering, Leaving
<1>n. PICK c \in Frames : c = closing /\ c = frame + 1 /\ c = Top
  BY <1>1, FrameLimitAssumption DEF ProgramTypeOK, TypeOK, Frames, closing, Top
<1>f. PICK n \in Frames : n = frame /\ n \in Nat /\ c = n + 1
  BY <1>1, <1>n DEF TypeOK, Frames
<1>2. /\ traces[c] = << >> /\ phase' = "run" /\ flag' = flag \ reset /\ reset' = {}
      /\ reg' = reg \ Dropped /\ refs' = Emptied(Reclaimed)
      /\ UNCHANGED <<frame, traces, pre>>
      /\ \A o \in Obj : o \in Dropped <=> In(o, c) /\ o \notin flag
      /\ Reclaimed = Dropped /\ Dropped \subseteq Obj
  BY <1>1, <1>n DEF GcSweep, Dropped, Reclaimed, In
<1>3. \A o \in Obj : /\ o \in reg <=> \E k \in Frames : In(o, k)
                     /\ \A k \in Frames : In(o, k) => k <= c
                     /\ \A k, l \in Frames : In(o, k) /\ In(o, l) => k = l
  BY <1>1, <1>n, Levels
<1>4. \A o \in Obj, k \in Frames :
         In(o, k)' <=> /\ k # c
                       /\ In(o, k) \/ (k = n /\ In(o, c) /\ o \in flag)
  <2> SUFFICES ASSUME NEW o \in Obj, NEW k \in Frames
               PROVE  In(o, k)' <=> /\ k # c
                                    /\ In(o, k) \/ (k = n /\ In(o, c) /\ o \in flag)
    OBVIOUS
  <2>1. table[k][o] \in Nat /\ table[c][o] \in Nat
    BY <1>1 DEF TypeOK
  <2>2. table'[k][o] = IF k = c THEN 0
                       ELSE IF k = n /\ o \in flag THEN table[k][o] + table[c][o]
                       ELSE table[k][o]
    BY <1>n, <1>f DEF GcSweep, Empty
  <2> QED BY <2>1, <2>2 DEF In
<1>5. \A x \in Obj : /\ links[x] = refs[x]
                     /\ links'[x] = IF x \in Dropped THEN {} ELSE links[x]
  BY <1>1, <1>2 DEF links, Emptied
<1>6. Kept(c) \subseteq flag
  <2>1. Roots(c) = reset
    BY <1>1, <1>2, <1>n DEF Roots
  <2>2. \A y \in flag : links[y] \subseteq flag
    BY <1>1, <1>5 DEF MarkClosed, TypeOK
  <2> QED BY <1>1, <2>1, <2>2, BelowLeast DEF Kept, TypeOK
<1>7. Top' = n
  BY <1>2, <1>f DEF Top
<1>8. \A k \in Frames : Roots(k)' = IF k < c THEN Roots(k) ELSE {}
  <2>1. \A k \in Frames : k > c => traces[k] = << >>
    BY <1>n DEF Sound, FramesSound
  <2> QED BY <1>1, <1>2, <1>7, <1>n, <1>f, <2>1 DEF Roots, Frames
<1> DEFINE Surv == Obj \ Dropped
<1>9. \A x \in Surv : links[x] \subseteq Surv
  <2> SUFFICES ASSUME NEW x \in Surv, NEW y \in links[x], y \in Dropped
               PROVE  FALSE
    BY DEF LinkTypes
  <2>1. LinkSound(x, y) /\ In(y, c) /\ y \notin flag
    BY <1>2 DEF Sound
  <2>2. PICK i \in Frames : In(x, i) /\ i <= c
    BY <1>3, <2>1 DEF LinkSound
  <2>3. CASE i = c
    <3>1. x \in flag
      BY <1>2, <2>2, <2>3
    <3> QED BY <1>1, <1>5, <2>1, <3>1 DEF MarkClosed
  <2>4. CASE i < c
    <3>1. y \in Kept(c)
      BY <2>1, <2>2, <2>4 DEF LinkSound, Held, Frames
    <3> QED BY <1>6, <2>1, <3>1
  <2> QED BY <2>2, <2>3, <2>4 DEF Frames
<1>10. ASSUME NEW k \in Frames, k < c, NEW r \in Obj, \E j \in Frames : j <= k /\ In(r, j)
       PROVE  r \in Surv /\ \A j \in Frames : In(r, j)' <=> In(r, j)
  <2>1. PICK j \in Frames : j <= k /\ In(r, j)
    BY <1>10
  <2>2. ~In(r, c)
    BY <1>3, <1>10, <2>1 DEF Frames
  <2> QED BY <1>2, <1>4, <2>2
<1>11. \A k \in Frames : k < c => Kept(k) \subseteq Kept(k)'
  <2> SUFFICES ASSUME NEW k \in Frames, k < c
               PROVE  Kept(k) \subseteq Kept(k)'
    OBVIOUS
  <2> DEFINE S == Kept(k)' \cap Surv
  <2>1. Kept(k)' \subseteq Obj /\ Roots(k) \subseteq Kept(k)'
        /\ \A x \in Kept(k)' : links'[x] \subseteq Kept(k)'
    BY <1>1, <1>8 DEF KeptProper
  <2>2. Roots(k) \subseteq Surv
    BY <1>10 DEF Sound, RootsSound, LinkTypes
  <2>3. \A x \in S : links[x] \subseteq S
    BY <1>5, <1>9, <2>1
  <2>4. S \in SUBSET Obj /\ Roots(k) \subseteq S
    BY <2>1, <2>2
  <2> HIDE DEF S
  <2>5. Kept(k) \subseteq S
    BY <2>3, <2>4, BelowLeast DEF Kept
  <2> QED BY <2>5 DEF S
<1>12. QuietSound' /\ CodeSound(0)'
  BY <1>1, <1>2 DEF Sound, QuietSound, CodeSound
<1>13. FramesSound'
  <2>1. \A k \in Frames : Vacant(k)' <=> Vacant(k)
    BY <1>1, <1>2 DEF Vacant
  <2>2. \A k \in Frames : k > n => k = c \/ k > c
    BY <1>f DEF Frames
  <2> QED BY <1>2, <1>7, <1>n, <2>1, <2>2 DEF Sound, FramesSound
<1>14. RootsSound'
  <2> SUFFICES ASSUME NEW k \in Frames, NEW r \in Roots(k)'
               PROVE  \E j \in Frames : j <= k /\ In(r, j)'
    BY DEF RootsSound
  <2>1. k < c /\ r \in Roots(k) /\ r \in Obj
    BY <1>8 DEF LinkTypes
  <2> QED BY <1>10, <2>1 DEF Sound, RootsSound
<1>15. ASSUME NEW k \in Frames, NEW v \in env'[k]
       PROVE  VarSound(k, v)'
  <2>1. v \in env[k] /\ VarSound(k, v) /\ v[1] \in Obj
    BY DEF Sound, ProgramTypeOK, Var
  <2>2. k < c /\ k \in Nat /\ c \in Nat
    BY <1>1, <1>f, <2>1 DEF Sound, FramesSound, Vacant, Frames
  <2>3. \A j \in Frames : In(v[1], j)' <=> In(v[1], j)
    BY <1>10, <2>1, <2>2 DEF VarSound
  <2>4. \A j \in Frames : /\ Held(v[1], j, k) => Held(v[1], j, k)'
                          /\ Held(v[1], j, k - 1) => Held(v[1], j, k - 1)'
    BY <1>11, <2>2 DEF Held, Frames
  <2> QED BY <1>11, <2>1, <2>2, <2>3, <2>4 DEF VarSound
<1>16. ASSUME NEW x \in Obj, NEW y \in links'[x]
       PROVE  LinkSound(x, y)'
  <2>1. x \in Surv /\ y \in links[x] /\ LinkSound(x, y) /\ y \in Surv
    BY <1>5, <1>9 DEF Sound
  <2>2. x \in reg' /\ y \in reg'
    BY <1>2, <2>1 DEF LinkSound
  <2>3. ASSUME NEW i \in Frames, NEW j \in Frames, In(x, i)', In(y, j)'
        PROVE  \A m \in Frames : (i < m /\ m <= j) \/ (j < m /\ m <= i) => y \in Kept(m)'
    <3> SUFFICES ASSUME NEW m \in Frames, (i < m /\ m <= j) \/ (j < m /\ m <= i)
                 PROVE  y \in Kept(m)'
      OBVIOUS
    <3>1. i <= n /\ j <= n /\ i \in Nat /\ j \in Nat /\ m \in Nat /\ m < c
      BY <1>3, <1>4, <1>f, <2>1, <2>3 DEF Frames
    <3>2. /\ In(x, i) \/ (i = n /\ In(x, c))
          /\ In(y, j) \/ (j = n /\ In(y, c))
      BY <1>4, <2>1, <2>3
    <3>3. PICK a \in Frames, b \in Frames : /\ In(x, a) /\ In(y, b)
                                            /\ a = i \/ (i = n /\ a = c)
                                            /\ b = j \/ (j = n /\ b = c)
      BY <3>2
    <3>4. (a < m /\ m <= b) \/ (b < m /\ m <= a)
      BY <1>f, <3>1, <3>3
    <3>5. y \in Kept(m)
      BY <2>1, <3>3, <3>4 DEF LinkSound, Held
    <3> QED BY <1>11, <3>1, <3>5
  <2> QED BY <2>2, <2>3 DEF LinkSound, Held
<1> QED BY <1>12, <1>13, <1>14, <1>15, <1>16 DEF Sound

\* Every step of a program keeps the statuses true.
LEMMA StatusesStep ==
  ASSUME ProgramTypeOK, ProgramTypeOK', IInv, StatusesSound, [ProgramNext]_pvars
  PROVE  StatusesSound'
<1> SUFFICES ASSUME ParamsAndLoads', phase' \in {"run", "mark"} PROVE Sound'
  BY DEF StatusesSound, ParamsAndLoads
<1>0. LinkTypes /\ LinkTypes' /\ TableExact /\ StructAccounting /\ MarkClosed /\ features' = features /\ ParamsAndLoads
  BY LinksTyped, LinksTypedNext DEF IInv, ProgramNext, pvars, ParamsAndLoads
<1>1. phase \in {"run", "mark"} => Sound
  BY <1>0 DEF StatusesSound, ParamsAndLoads
<1>2. CASE Statement
  <2>1. phase = "run" /\ Sound
    BY <1>1, <1>2 DEF Statement, New, SetProp, GetProp, SetGlobalNew, SetGlobalVar, Call,
          Return, ReturnValue, Idle
  <2>2. "globals" \notin features /\ "returns" \notin features
    BY <1>0 DEF ParamsAndLoads
  <2>3. CASE \E o \in Obj : New(o)
    BY <1>0, <2>1, <2>3, NewSound
  <2>4. CASE \E r, v \in Scope : SetProp(r, v)
    BY <1>0, <2>1, <2>4, SetPropSound
  <2>5. CASE \E r \in Scope : GetProp(r)
    BY <1>0, <2>1, <2>5, GetPropSound
  <2>6. CASE Call(<< >>)
    <3>1. << >> \in Seq(Scope) /\ Len(<< >>) \in {0, 1, 2}
      OBVIOUS
    <3> QED BY <1>0, <2>1, <2>6, <3>1, CallSound
  <2>7. CASE \E a \in Scope : Call(<<a>>)
    <3>1. PICK a \in Scope : Call(<<a>>)
      BY <2>7
    <3>2. <<a>> \in Seq(Scope) /\ Len(<<a>>) \in {0, 1, 2}
      OBVIOUS
    <3> QED BY <1>0, <2>1, <3>1, <3>2, CallSound
  <2>8. CASE \E a, b \in Scope : Call(<<a, b>>)
    <3>1. PICK a \in Scope, b \in Scope : Call(<<a, b>>)
      BY <2>8
    <3>2. <<a, b>> \in Seq(Scope) /\ Len(<<a, b>>) \in {0, 1, 2}
      OBVIOUS
    <3> QED BY <1>0, <2>1, <3>1, <3>2, CallSound
  <2>9. CASE Return
    BY <1>0, <2>1, <2>9, ReturnSound
  <2> QED BY <1>2, <2>2, <2>3, <2>4, <2>5, <2>6, <2>7, <2>8, <2>9
          DEF Statement, Globals, ReturnValue
<1>3. CASE Execute
  <2>1. Sound
    BY <1>1, <1>3 DEF Execute
  <2> QED BY <1>0, <1>3, <2>1, ExecuteSound
<1>4. CASE Collect
  <2>1. Sound
    BY <1>1, <1>4 DEF Collect, GcMark, GcSweep
  <2> QED BY <1>0, <1>4, <2>1, MarkSound, SweepSound DEF Collect
<1>5. CASE Finish
  BY <1>5 DEF Finish, GcCleanLast, Abort, FreeRuntime
<1>6. CASE UNCHANGED pvars
  <2>1. Sound /\ UNCHANGED vars /\ UNCHANGED <<env, code>>
    BY <1>1, <1>6 DEF pvars, vars
  <2>2. UNCHANGED <<phase, frame, table, traces, reset, reg, pre, flag, refs, env, code>>
    BY <2>1 DEF vars
  <2>3. Pending' = Pending /\ Top' = Top
    BY <2>2 DEF Pending, Top, closing
  <2>4. Due' = Due /\ (Entering' <=> Entering) /\ (Leaving' <=> Leaving)
        /\ \A x \in Obj : links'[x] = links[x]
    BY <2>2, <2>3 DEF Due, Entering, Leaving, links
  <2>5. \A k \in Frames : Roots(k)' = Roots(k)
    BY <2>2, <2>3, <2>4 DEF Roots
  <2>6. QuietSound' /\ CodeSound(0)'
    BY <2>1, <2>2 DEF Sound, QuietSound, CodeSound
  <2>7. FramesSound'
    BY <2>1, <2>2, <2>3, <2>4 DEF Sound, FramesSound, Vacant
  <2>8. RootsSound'
    BY <2>1, <2>2, <2>5 DEF Sound, RootsSound, In
  <2> QED BY <1>0, <2>1, <2>2, <2>4, <2>5, <2>6, <2>7, <2>8, KeepsSound DEF ProgramTypeOK
<1> QED BY <1>2, <1>3, <1>4, <1>5, <1>6 DEF ProgramNext

\* At the start there is nothing a status could be wrong about.
LEMMA StatusesInit == ProgramInit => StatusesSound
<1> SUFFICES ASSUME ProgramInit PROVE Sound
  BY DEF StatusesSound
<1>1. /\ phase = "run" /\ frame = 1 /\ code = << >> /\ reset = {} /\ flag = {} /\ pre = {} /\ reg = {}
      /\ Pending = {} /\ Due = {} /\ Top = 1
      /\ \A k \in Frames : traces[k] = << >> /\ env[k] = {} /\ Roots(k) = {}
  BY DEF ProgramInit, Init, Pending, Due, Top, Roots
<1>2. \A x \in Obj : links[x] = {}
  BY <1>1 DEF ProgramInit, Init, links
<1> QED BY <1>1, <1>2 DEF Sound, QuietSound, CodeSound, FramesSound, RootsSound

\* What the statuses promise is enough: registered objects only refer to
\* registered objects, and none of them has been released.
LEMMA SoundIsSafe ==
  ASSUME ProgramTypeOK, TableExact, StructAccounting, StatusesSound, features \subseteq {"params", "loads"}
  PROVE  NoDangling /\ SupertraceKeepsAlive
<1> SUFFICES ASSUME phase \in {"run", "mark"}
             PROVE  /\ Reachable \subseteq Allocated
                    /\ UNION {Walk(g[1], {}) : g \in env[1]} \subseteq Reachable
  BY DEF NoDangling, SupertraceKeepsAlive
<1>1. Sound /\ frame \in Nat /\ 1 <= frame /\ frame <= FRAME_LIMIT /\ pre = {}
  BY FrameLimitAssumption DEF StatusesSound, ProgramTypeOK, TypeOK, Sound, QuietSound
<1>2. reg \subseteq Allocated /\ reg \subseteq Obj
  BY <1>1 DEF StructAccounting, Allocated, ProgramTypeOK, TypeOK
<1>3. Closed(reg, {})
  BY <1>1, <1>2 DEF Closed, links, Sound, LinkSound, ProgramTypeOK, TypeOK
<1>4. \A o \in reg : Walk(o, {}) \subseteq reg
  BY <1>2, <1>3 DEF Walk
<1>5. \A k \in 1 .. frame : \A v \in env[k] : v[1] \in reg
  <2> SUFFICES ASSUME NEW k \in 1 .. frame, NEW v \in env[k] PROVE v[1] \in reg
    OBVIOUS
  <2>1. k \in Frames /\ v \in Var
    BY <1>1, FrameLimitAssumption DEF Frames, ProgramTypeOK
  <2>3. v[1] \in Obj
    BY <2>1 DEF Var
  <2>2. VarSound(k, v)
    BY <1>1, <2>1 DEF Sound
  <2> QED BY <2>1, <2>2, <2>3, Levels DEF VarSound, ProgramTypeOK
<1> QED BY <1>1, <1>2, <1>4, <1>5 DEF Reachable

\* The statuses are true in every program of these families.
THEOREM StatusesCorrect == ProgramSpec => []StatusesSound
<1>1. ProgramInit => StatusesSound
  BY StatusesInit
<1>2. ProgramTypeOK /\ ProgramTypeOK' /\ IInv /\ StatusesSound /\ [ProgramNext]_pvars
        => StatusesSound'
  BY StatusesStep
<1> QED
  BY <1>1, <1>2, ProgramTypeCorrect, ProgramImplementsHeap, Invariance, PTL DEF ProgramSpec

\* The escape analysis is sound for procedures with parameters that read and
\* write properties: for any number of objects, frames and variables, whatever is
\* stored where and however deep the calls are, no variable of an open frame leads
\* to an object that gc_clean has released.
THEOREM ParamsAndLoadsSafe ==
  ProgramSpec => [](features \subseteq {"params", "loads"}
                      => NoDangling /\ SupertraceKeepsAlive)
<1>1. ProgramTypeOK /\ IInv /\ StatusesSound
        => (features \subseteq {"params", "loads"} => NoDangling /\ SupertraceKeepsAlive)
  BY SoundIsSafe DEF IInv
<1> QED
  BY <1>1, StatusesCorrect, ProgramTypeCorrect, ProgramImplementsHeap, Invariance, PTL

-----------------------------------------------------------------------------
(***************************************************************************)
(* Programs that share objects through globals.  Here the traces are       *)
(* permanent; the proof is that every reference that could outlive its     *)
(* frame has a flag at its end, or will have when the frame is closed.     *)
(***************************************************************************)

\* The other families.
GlobalsOnly == features \subseteq {"globals", "overwrite"}

\* A step that changes no table, root or link, and who is flagged, changes no promise.
LEMMA KeepsSupertraced ==
  ASSUME TypeOK, TypeOK', LinkTypes, LinkTypes', Supertraced, UNCHANGED <<table, reg, env>>,
         Flagged' = Flagged,
         \A k \in Frames : Roots(k)' = Roots(k),
         \A x \in Obj : links'[x] \subseteq links[x],
         PermanentSound', CodeSound(1)', FramesSound'
  PROVE  Supertraced'
<1>1. \A o, k : In(o, k)' <=> In(o, k)
  BY DEF In
<1>2. \A x : \A k \in Frames : Rooted(x, k)' <=> Rooted(x, k)
  BY <1>1 DEF Rooted
<1>3. OriginSound'
  BY <1>1 DEF Supertraced, OriginSound
<1>4. \A v \in env'[1] : v[2] = "local" /\ GlobalSound(v[1])'
  BY <1>1 DEF Supertraced, GlobalSound
<1>5. \A k \in Frames \ {1} : \A v \in env'[k] : OwnSound(k, v)'
  <2> SUFFICES ASSUME NEW k \in Frames \ {1}, NEW v \in env[k] PROVE OwnSound(k, v)'
    OBVIOUS
  <2>1. OwnSound(k, v)
    BY DEF Supertraced
  <2> QED BY <1>2, <2>1 DEF OwnSound
<1>6. \A x \in Obj : \A y \in links'[x] : SharedSound(x, y)'
  <2> SUFFICES ASSUME NEW x \in Obj, NEW y \in links'[x] PROVE SharedSound(x, y)'
    OBVIOUS
  <2>1. SharedSound(x, y)
    BY DEF Supertraced
  <2> QED BY <1>1, <1>2, <2>1 DEF SharedSound
<1> QED BY <1>3, <1>4, <1>5, <1>6 DEF Supertraced

\* A statement that traces objects of its own frame.
LEMMA StatementSupertraced ==
  ASSUME TypeOK, TableExact, LinkTypes', Supertraced, phase = "run", code = << >>, UNCHANGED vars,
         NEW n \in Frames, n = frame,
         \A i \in DOMAIN code' :
              /\ code'[i].op # "FREE"
              /\ code'[i].op = "TRACE" => code'[i].flag = 1
              /\ code'[i].op \in {"NEW_FRAME", "CLEAN"} => i = Len(code'),
         \A o \in Due' : In(o, n),
         \A k \in Frames : Vacant(k)' => env'[k] = {},
         \A v \in env'[1] : v \in env[1] \/ (v[2] = "local" /\ GlobalSound(v[1])'),
         \A k \in Frames \ {1} : \A v \in env'[k] : v \in env[k] \/ OwnSound(k, v)',
         \A x \in Obj : \A y \in links'[x] : y \in links[x] \/ SharedSound(x, y)'
  PROVE  Supertraced'
<1>0. /\ Top' = Top /\ \A o, k : In(o, k)' <=> In(o, k)
      /\ Top = n /\ reset' = reset /\ phase' = phase /\ reg' = reg /\ flag' = flag /\ traces' = traces
  BY DEF vars, Top, In, closing
<1>1. Due = {} /\ Flagged = flag /\ Flagged' = flag \cup Due'
  BY <1>0 DEF Due, Pending, Flagged
<1>2. \A k \in Frames : Roots(k)' = Roots(k) \cup (IF k = n THEN Due' ELSE {})
  BY <1>0, <1>1 DEF Roots
<1>3. ASSUME NEW x \in Obj, NEW k \in Frames, Rooted(x, k) PROVE Rooted(x, k)'
  <2>1. x \in Due' => k = n
    BY <1>0, <1>3, Levels DEF Rooted
  <2> QED BY <1>0, <1>1, <1>2, <1>3, <2>1 DEF Rooted
<1>4. PermanentSound' /\ CodeSound(1)' /\ FramesSound'
  BY <1>0 DEF Supertraced, PermanentSound, CodeSound, FramesSound, vars
<1>5. OriginSound'
  BY <1>0, <1>2 DEF Supertraced, OriginSound
<1>6. \A v \in env'[1] : v[2] = "local" /\ GlobalSound(v[1])'
  BY <1>0, <1>1 DEF Supertraced, GlobalSound
<1>7. ASSUME NEW k \in Frames \ {1}, NEW v \in env'[k]
      PROVE  OwnSound(k, v)'
  <2>1. CASE v \in env[k]
    <3>1. OwnSound(k, v)
      BY <2>1 DEF Supertraced
    <3>2. v[1] \in Obj
      BY <3>1 DEF OwnSound, TypeOK
    <3> QED BY <1>0, <1>1, <1>3, <3>1, <3>2 DEF OwnSound
  <2> QED BY <2>1
<1>8. ASSUME NEW x \in Obj, NEW y \in links'[x]
      PROVE  SharedSound(x, y)'
  <2>1. CASE y \in links[x]
    <3>1. SharedSound(x, y)
      BY <2>1 DEF Supertraced
    <3> QED BY <1>0, <1>1, <1>3, <3>1 DEF SharedSound
  <2> QED BY <2>1
<1> QED BY <1>4, <1>5, <1>6, <1>7, <1>8 DEF Supertraced

\* What the code of a frame can name, and what is known of it.
LEMMA ScopeGlobals ==
  ASSUME ProgramTypeOK, GlobalsOnly, Supertraced, phase = "run",
         NEW n \in Frames, n = frame, NEW v \in Scope
  PROVE  /\ v \in env[n] => v = <<v[1], v[2]>>
         /\ v[1] \in Obj /\ v[1] \in reg
         /\ n = 1 => v \in env[1] /\ v[2] = "local" /\ GlobalSound(v[1])
         /\ n # 1 => \/ v[2] = "local" /\ v \in env[n] /\ Rooted(v[1], n)
                     \/ v[2] = "superext" /\ (In(v[1], 1) \/ v[1] \in Flagged)
<1>1. v[1] \in Obj /\ 1 \in Frames
  BY ScopeType, FrameLimitAssumption DEF Frames
<1>2. v \in env[n] => v = <<v[1], v[2]>>
  BY DEF ProgramTypeOK, Var
<1>3. CASE v \in env[n] /\ n = 1
  BY <1>1, <1>2, <1>3 DEF Supertraced, GlobalSound
<1>4. CASE v \in env[n] /\ n # 1
  <2>1. OwnSound(n, v)
    BY <1>4 DEF Supertraced
  <2> QED BY <1>1, <1>2, <1>4, <2>1 DEF OwnSound
<1>5. CASE v \notin env[n]
  <2>1. PICK g \in Globals : v = <<g[1][1], g[2], "global">>
    BY <1>5 DEF Scope
  <2>2. n # 1 /\ g[1] \in env[1] /\ g[2] = "superext"
    BY <2>1 DEF Globals, GlobalsOnly
  <2>3. GlobalSound(v[1]) /\ v[2] = "superext"
    BY <2>1, <2>2 DEF Supertraced
  <2> QED BY <1>1, <1>5, <2>2, <2>3 DEF GlobalSound
<1> QED BY <1>3, <1>4, <1>5

\* A store traces the local side if the other one is shared.
LEMMA SetPropShared ==
  ASSUME ProgramTypeOK, GlobalsOnly, Supertraced,
         NEW r \in Scope, NEW v \in Scope, SetProp(r, v), NEW n \in Frames, n = frame
  PROVE  \E S \in SUBSET {r[1], v[1]} :
           /\ \E s : Emits(s, S, 1) /\ code' = s \o <<[op |-> "STORE", obj |-> r[1], val |-> v[1]]>>
           /\ env'[n] \subseteq env[n] \cup {<<x, "superext">> : x \in S}
           /\ \A k \in Frames \ {n} : env'[k] = env[k]
           /\ n = 1 => S = {}
           /\ r[2] = "superext" /\ v[2] = "local" => v[1] \in S
           /\ \A x \in S : (x = r[1] /\ r[2] = "local") \/ (x = v[1] /\ v[2] = "local")
<1> DEFINE rp == RecordParent(r[2], v[2])
           vp == StoreParent(r[2])
           store == <<[op |-> "STORE", obj |-> r[1], val |-> v[1]]>>
           E == Retag(Retag(env[n], r, VarStatus(r[2], rp)), v, VarStatus(v[2], vp))
           code1 == VarTrace(r[1], r[2], rp) \o VarTrace(v[1], v[2], vp) \o store
<1>0. /\ phase = "run"
      /\ r \in env[n] => r = <<r[1], r[2]>>
      /\ v \in env[n] => v = <<v[1], v[2]>>
      /\ r[1] \in Obj /\ r[2] \in {"local", "superext"}
      /\ v[1] \in Obj /\ v[2] \in {"local", "superext"}
      /\ n = 1 => r[2] = "local" /\ v[2] = "local"
  BY ScopeGlobals DEF SetProp, Idle
<1>1. code' = code1 /\ env' = [env EXCEPT ![n] = E]
  BY DEF SetProp
<1>2. store \in Seq(Instr) /\ << >> \o store = store
  BY <1>0 DEF Instr
<1>3. env'[n] = E /\ \A k \in Frames \ {n} : env'[k] = env[k]
  BY <1>0, <1>1 DEF ProgramTypeOK
<1>a. \A o \in Obj : << >> \o Trace(o, 1) = Trace(o, 1) /\ Trace(o, 1) \o << >> = Trace(o, 1)
  BY TraceType
<1>b. << >> \o << >> = << >>
  OBVIOUS
<1>4. CASE r[2] = "local" /\ v[2] = "superext"
  <2>1. rp = "superext" /\ vp = "local"
    BY <1>4 DEF RecordParent, StoreParent
  <2>2. VarTrace(r[1], r[2], rp) = Trace(r[1], 1) /\ VarTrace(v[1], v[2], vp) = << >>
    BY <1>4, <2>1 DEF VarTrace
  <2>3. VarStatus(r[2], rp) = "superext" /\ VarStatus(v[2], vp) = v[2]
    BY <1>4, <2>1 DEF VarStatus
  <2>4. E \subseteq env[n] \cup {<<x, "superext">> : x \in {r[1]}}
    BY <1>0, <2>3 DEF Retag
  <2>5. code' = Trace(r[1], 1) \o store
    BY <1>0, <1>1, <1>a, <2>2
  <2>7. Emits(Trace(r[1], 1), {r[1]}, 1)
    BY <1>0, EmitOne
  <2> WITNESS {r[1]} \in SUBSET {r[1], v[1]}
  <2> HIDE DEF E
  <2> QED BY <1>0, <1>3, <1>4, <2>4, <2>5, <2>7
<1>5. CASE r[2] = "superext" /\ v[2] = "local"
  <2>1. rp = "local" /\ vp = "superext"
    BY <1>5 DEF RecordParent, StoreParent
  <2>2. VarTrace(v[1], v[2], vp) = Trace(v[1], 1) /\ VarTrace(r[1], r[2], rp) = << >>
    BY <1>5, <2>1 DEF VarTrace
  <2>3. VarStatus(v[2], vp) = "superext" /\ VarStatus(r[2], rp) = r[2]
    BY <1>5, <2>1 DEF VarStatus
  <2>4. E \subseteq env[n] \cup {<<x, "superext">> : x \in {v[1]}}
    BY <1>0, <2>3 DEF Retag
  <2>5. code' = Trace(v[1], 1) \o store
    BY <1>0, <1>1, <1>a, <2>2
  <2>7. Emits(Trace(v[1], 1), {v[1]}, 1)
    BY <1>0, EmitOne
  <2> WITNESS {v[1]} \in SUBSET {r[1], v[1]}
  <2> HIDE DEF E
  <2> QED BY <1>0, <1>3, <1>5, <2>4, <2>5, <2>7
<1>6. CASE r[2] = v[2]
  <2>1. /\ rp = "local"
        /\ vp = v[2]
    BY <1>0, <1>6 DEF RecordParent, StoreParent
  <2>2. VarTrace(v[1], v[2], vp) = << >> /\ VarTrace(r[1], r[2], rp) = << >>
    BY <1>0, <1>6, <2>1 DEF VarTrace
  <2>3. VarStatus(v[2], vp) = v[2] /\ VarStatus(r[2], rp) = r[2]
    BY <1>0, <1>6, <2>1 DEF VarStatus
  <2>4. E \subseteq env[n] \cup {<<x, "superext">> : x \in {}}
    BY <1>0, <2>3 DEF Retag
  <2>5. code' = << >> \o store
    BY <1>0, <1>1, <1>b, <2>2
  <2>6. Emits(<< >>, {}, 1)
    BY EmitNone
  <2> WITNESS {} \in SUBSET {r[1], v[1]}
  <2> QED BY <1>0, <1>3, <1>6, <2>4, <2>5, <2>6
<1> QED BY <1>0, <1>4, <1>5, <1>6

\* A store keeps what is shared flagged: either both ends are local to one frame,
\* or the local one is traced with the store.
LEMMA SetPropSupertraced ==
  ASSUME ProgramTypeOK, LinkTypes, LinkTypes', TableExact, GlobalsOnly, Supertraced,
         NEW r \in Scope, NEW v \in Scope, SetProp(r, v)
  PROVE  Supertraced'
<1> DEFINE x == r[1]
           y == v[1]
           store == [op |-> "STORE", obj |-> x, val |-> y]
<1>0. phase = "run" /\ code = << >> /\ UNCHANGED vars /\ TypeOK
  BY DEF SetProp, Idle, ProgramTypeOK
<1>n. PICK n \in Frames : n = frame
  BY <1>0, FrameLimitAssumption DEF TypeOK, Frames
<1>1. PICK S \in SUBSET {x, y} :
           /\ \E s : Emits(s, S, 1) /\ code' = s \o <<store>>
           /\ env'[n] \subseteq env[n] \cup {<<z, "superext">> : z \in S}
           /\ \A k \in Frames \ {n} : env'[k] = env[k]
           /\ n = 1 => S = {}
           /\ r[2] = "superext" /\ v[2] = "local" => y \in S
           /\ \A z \in S : (z = x /\ r[2] = "local") \/ (z = y /\ v[2] = "local")
  BY <1>n, SetPropShared
<1>2. PICK s : Emits(s, S, 1) /\ code' = s \o <<store>>
  BY <1>1
<1>3. /\ x \in Obj /\ x \in reg
      /\ n = 1 => r[2] = "local" /\ GlobalSound(x)
      /\ n # 1 => \/ r[2] = "local" /\ Rooted(x, n)
                  \/ r[2] = "superext" /\ (In(x, 1) \/ x \in Flagged)
      /\ y \in Obj /\ y \in reg
      /\ n = 1 => v[2] = "local" /\ GlobalSound(y)
      /\ n # 1 => \/ v[2] = "local" /\ Rooted(y, n)
                  \/ v[2] = "superext" /\ (In(y, 1) \/ y \in Flagged)
  BY <1>0, <1>n, ScopeGlobals
<1>4. store \in Instr /\ store.op = "STORE" /\ store.obj = x /\ store.val = y
  BY <1>3 DEF Instr
<1> HIDE DEF store
<1>5. /\ \A i \in DOMAIN code' :
              /\ code'[i].op # "FREE"
              /\ code'[i].op = "TRACE" => code'[i].flag = 1
              /\ code'[i].op \in {"NEW_FRAME", "CLEAN"} => i = Len(code')
      /\ Due' = S
      /\ \A p \in Pending' : p.op # "TRACE" => p = store
      /\ store \in Pending'
  BY <1>2, <1>4, StatementCode
<1>6. /\ \A z \in Obj : links'[z] = links[z] \cup (IF z = x THEN {y} ELSE {})
      /\ ~Entering' /\ ~Entering /\ ~Leaving' /\ ~Leaving
  <2>1. Pending = {}
    BY <1>0 DEF Pending
  <2> QED BY <1>0, <1>4, <1>5, <2>1 DEF links, Entering, Leaving, vars
<1>7. /\ Top' = Top /\ Top = n /\ \A o, k : In(o, k)' <=> In(o, k)
      /\ reg' = reg /\ flag' = flag /\ traces' = traces /\ reset' = reset
  BY <1>0, <1>n DEF vars, Top, In, closing
<1>8. /\ Flagged' = flag \cup S /\ Flagged = flag
      /\ Roots(n)' = Roots(n) \cup S
  BY <1>0, <1>5, <1>7 DEF Flagged, Due, Pending, Roots
<1>9. \A z \in S : In(z, n) /\ n # 1
  BY <1>1, <1>3 DEF Rooted
<1>10. SharedSound(x, y)'
  <2>1. CASE n = 1
    BY <1>3, <1>7, <1>8, <2>1 DEF GlobalSound, SharedSound
  <2>2. CASE n # 1 /\ (v[2] = "superext" \/ r[2] = "superext")
    BY <1>1, <1>3, <1>7, <1>8, <2>2 DEF SharedSound
  <2>3. CASE n # 1 /\ v[2] = "local" /\ r[2] = "local"
    <3>1. Rooted(x, n)' /\ In(y, n)'
      BY <1>3, <1>7, <1>8, <2>3 DEF Rooted
    <3> QED BY <1>3, <1>7, <3>1 DEF SharedSound
  <2> QED BY <1>3, <2>1, <2>2, <2>3
<1>11. \A z \in Obj : \A w \in links'[z] : w \in links[z] \/ SharedSound(z, w)'
  BY <1>6, <1>10
<1>12. \A w \in env'[1] : w \in env[1]
  BY <1>1, FrameLimitAssumption DEF Frames
<1>13. ASSUME NEW k \in Frames \ {1}, NEW w \in env'[k]
       PROVE  w \in env[k] \/ OwnSound(k, w)'
  <2>1. CASE k = n /\ w \notin env[n]
    <3>1. PICK z \in S : w = <<z, "superext">>
      BY <1>1, <2>1
    <3>2. w[1] = z /\ w[2] = "superext"
      BY <3>1
    <3> QED BY <1>3, <1>7, <1>8, <3>2 DEF OwnSound
  <2> QED BY <1>1, <2>1
<1>14. \A k \in Frames : Vacant(k)' => env'[k] = {}
  BY <1>0, <1>1, <1>6, <1>n DEF Supertraced, FramesSound, Frames, Vacant, vars
<1>15. \A o \in Due' : In(o, n)
  BY <1>5, <1>9
<1>16. 1 \in Frames
  BY FrameLimitAssumption DEF Frames
<1>17. \A w \in env'[1] : w \in env[1] \/ (w[2] = "local" /\ GlobalSound(w[1])')
  BY <1>1, <1>12, <1>16
<1> QED
  BY <1>0, <1>n, <1>5, <1>11, <1>13, <1>14, <1>15, <1>17, StatementSupertraced

\* A new object, held by a variable of the frame or by a global that has it traced.
LEMMA AllocSupertraced ==
  ASSUME ProgramTypeOK, LinkTypes, LinkTypes', TableExact, StructAccounting, Supertraced,
         phase = "run", code = << >>, NEW o \in Obj, AllocRecycled(o) \/ AllocFresh(o),
         NEW n \in Frames, n = frame,
         \A i \in DOMAIN code' : code'[i].op = "TRACE" /\ code'[i].flag = 1,
         Due' \subseteq {o},
         \A k \in Frames : Vacant(k)' => env'[k] = {},
         \A v \in env'[1] : v \in env[1] \/ (v[2] = "local" /\ v[1] = o /\ (n = 1 \/ o \in Due')),
         \A k \in Frames \ {1} : \A v \in env'[k] :
            v \in env[k] \/ (v[2] = "local" /\ v[1] = o /\ k = n /\ Due' = {})
  PROVE  Supertraced'
<1>1. /\ TypeOK /\ pre = {} /\ reset = {}
      /\ Pending = {} /\ Due = {} /\ Flagged = flag
  BY DEF Supertraced, PermanentSound, ProgramTypeOK, Pending, Due, Flagged
<1>2. /\ o \notin reg
      /\ UNCHANGED <<phase, frame, traces, reset>>
      /\ reg' = reg \cup {o} /\ pre' = {} /\ flag' = flag \ {o}
      /\ \A z \in Obj : refs'[z] = IF z = o THEN {} ELSE refs[z]
      /\ \A z \in Obj, k \in Frames : In(z, k)' <=> (In(z, k) \/ (z = o /\ k = n))
  BY <1>1, AllocShape
<1>3. /\ Top' = Top /\ Top = n /\ Flagged' = (flag \ {o}) \cup Due'
  BY <1>2 DEF Top, closing, Flagged
<1>4. \A z \in Obj : /\ z \in reg <=> \E k \in Frames : In(z, k)
                     /\ \A k \in Frames : In(z, k) => k <= n
                     /\ \A k, l \in Frames : In(z, k) /\ In(z, l) => k = l
  BY <1>1, <1>3, Levels
<1>5. \A k \in Frames : Roots(k)' = Roots(k) \cup (IF k = n THEN Due' ELSE {})
  BY <1>1, <1>2, <1>3 DEF Roots
<1>6. \A x \in Obj : x # o => \A k \in Frames : Rooted(x, k) => Rooted(x, k)'
  BY <1>1, <1>2, <1>3, <1>5 DEF Rooted
<1>7. \A p \in Pending' : p.op = "TRACE"
  BY DEF Pending
<1>8. \A z \in Obj : links'[z] = links[z]
  <2>1. \A z \in Obj : links[z] = refs[z] /\ links'[z] = refs'[z]
    BY <1>1, <1>7 DEF links
  <2>2. links[o] = {}
    BY <1>2 DEF Supertraced, SharedSound
  <2> QED BY <1>2, <2>1, <2>2
<1>9. PermanentSound'
  <2> SUFFICES ASSUME NEW k \in Frames, NEW i \in DOMAIN traces[k]
               PROVE  traces[k][i] # o /\ traces[k][i] \in flag
    BY <1>1, <1>2 DEF PermanentSound
  <2>1. traces[k][i] \in Roots(k)
    BY DEF Roots
  <2> QED BY <1>2, <1>4, <2>1 DEF Supertraced, OriginSound, PermanentSound
<1>10. CodeSound(1)' /\ FramesSound'
  BY <1>2, <1>3 DEF Supertraced, CodeSound, FramesSound
<1>11. OriginSound'
  <2> SUFFICES ASSUME NEW k \in Frames, NEW r \in Roots(k)' PROVE In(r, k)'
    BY DEF OriginSound
  <2>1. CASE r \in Roots(k)
    BY <1>2, <2>1 DEF Supertraced, OriginSound, LinkTypes
  <2>2. CASE k = n /\ r = o
    BY <1>2, <2>2
  <2> QED BY <1>5, <2>1, <2>2
<1>12. \A v \in env'[1] : v[2] = "local" /\ GlobalSound(v[1])'
  <2> SUFFICES ASSUME NEW v \in env'[1] PROVE v[2] = "local" /\ GlobalSound(v[1])'
    OBVIOUS
  <2>0. 1 \in Frames
    BY FrameLimitAssumption DEF Frames
  <2>1. CASE v \in env[1]
    <3>1. v[2] = "local" /\ GlobalSound(v[1])
      BY <2>1 DEF Supertraced
    <3>2. v[1] \in Obj /\ v[1] # o
      BY <1>1, <1>2, <3>1 DEF GlobalSound, TypeOK
    <3> QED BY <1>1, <1>2, <1>3, <2>0, <3>1, <3>2 DEF GlobalSound
  <2>2. CASE v[2] = "local" /\ v[1] = o /\ (n = 1 \/ o \in Due')
    BY <1>2, <1>3, <2>0, <2>2 DEF GlobalSound
  <2> QED BY <2>1, <2>2
<1>13. ASSUME NEW k \in Frames \ {1}, NEW v \in env'[k]
       PROVE  OwnSound(k, v)'
  <2>1. CASE v \in env[k]
    <3>1. OwnSound(k, v)
      BY <2>1 DEF Supertraced
    <3>2. v[1] \in Obj /\ v[1] # o
      BY <1>1, <1>2, <3>1 DEF OwnSound, TypeOK
    <3> QED BY <1>1, <1>2, <1>3, <1>6, <3>1, <3>2 DEF OwnSound
  <2>2. CASE v[2] = "local" /\ v[1] = o /\ k = n /\ Due' = {}
    BY <1>2, <1>3, <2>2 DEF OwnSound, Rooted
  <2> QED BY <2>1, <2>2
<1>14. ASSUME NEW x \in Obj, NEW y \in links'[x]
       PROVE  SharedSound(x, y)'
  <2>1. SharedSound(x, y)
    BY <1>8 DEF Supertraced
  <2>2. y \in Obj /\ x # o /\ y # o
    BY <1>1, <1>2, <2>1 DEF SharedSound, TypeOK
  <2>3. 1 \in Frames
    BY FrameLimitAssumption DEF Frames
  <2> QED BY <1>1, <1>2, <1>3, <1>6, <2>1, <2>2, <2>3 DEF SharedSound
<1> QED BY <1>9, <1>10, <1>11, <1>12, <1>13, <1>14 DEF Supertraced

\* A variable initialised with a new object: unflagged, and of its own frame.
LEMMA NewSupertraced ==
  ASSUME ProgramTypeOK, LinkTypes, LinkTypes', TableExact, StructAccounting, Supertraced,
         NEW o \in Obj, New(o)
  PROVE  Supertraced'
<1>1. /\ phase = "run" /\ code = << >> /\ code' = << >> /\ TypeOK /\ pre = {}
      /\ AllocRecycled(o) \/ AllocFresh(o)
  BY DEF New, Idle, ProgramTypeOK, Supertraced, PermanentSound
<1>n. PICK n \in Frames : n = frame
  BY <1>1, FrameLimitAssumption DEF TypeOK, Frames
<1>2. \A k \in Frames : env'[k] = IF k = n THEN env[n] \cup {<<o, "local">>} ELSE env[k]
  BY <1>n DEF New, ProgramTypeOK
<1>3. Due' = {} /\ ~Entering /\ ~Leaving /\ ~Entering' /\ ~Leaving' /\ frame' = frame
      /\ 1 \in Frames
  BY <1>1, FrameLimitAssumption
     DEF Due, Pending, Entering, Leaving, AllocRecycled, AllocFresh, Frames
<1>4. \A k \in Frames : Vacant(k)' => env'[k] = {}
  BY <1>2, <1>3, <1>n DEF Supertraced, FramesSound, Vacant, Frames
<1> QED BY <1>1, <1>n, <1>2, <1>3, <1>4, AllocSupertraced

\* A global assigned a new object: it is traced before anything can happen to it.
LEMMA SetGlobalNewSupertraced ==
  ASSUME ProgramTypeOK, LinkTypes, LinkTypes', TableExact, StructAccounting, Supertraced,
         GlobalsOnly, NEW o \in Obj, NEW g \in Globals, SetGlobalNew(g, o)
  PROVE  Supertraced'
<1>g. frame > 1 /\ g[1] \in env[1] /\ g[2] = "superext"
  BY DEF Globals, GlobalsOnly
<1>1. /\ phase = "run" /\ code = << >> /\ code' = Trace(o, 1) /\ TypeOK /\ pre = {}
      /\ (AllocRecycled(o) \/ AllocFresh(o)) /\ frame' = frame
  <2>1. code' = VarTrace(o, "local", SetParent(g[2]))
    BY DEF SetGlobalNew
  <2>2. SetParent(g[2]) = "superext"
    BY <1>g DEF SetParent
  <2> QED BY <2>1, <2>2 DEF SetGlobalNew, VarTrace, Idle, ProgramTypeOK, Supertraced, PermanentSound,
             AllocRecycled, AllocFresh
<1>n. PICK n \in Frames : n = frame /\ n # 1
  BY <1>1, <1>g, FrameLimitAssumption DEF TypeOK, Frames
<1>2. 1 \in Frames /\ g[1][2] = "local"
  BY <1>g, FrameLimitAssumption DEF Frames, Supertraced
<1>3. \A k \in Frames : env'[k] = IF k = 1 THEN (env[1] \ {g[1]}) \cup {<<o, g[1][2]>>} ELSE env[k]
  BY <1>n, <1>2 DEF SetGlobalNew, ProgramTypeOK
<1>4. Emits(code', {o}, 1)
  BY <1>1, EmitOne
<1>5. /\ \A i \in DOMAIN code' : code'[i].op = "TRACE" /\ code'[i].flag = 1
      /\ Due' = {o}
      /\ ~Entering' /\ ~Leaving' /\ ~Entering /\ ~Leaving
  <2>1. Pending = {} /\ \A p \in Pending' : p.op = "TRACE"
    BY <1>1, <1>4 DEF Emits, Pending
  <2>2. ~Entering' /\ ~Leaving' /\ ~Entering /\ ~Leaving
    BY <2>1 DEF Entering, Leaving
  <2>3. Due' = {code'[i].obj : i \in DOMAIN code'}
    BY <2>1 DEF Due, Pending
  <2> QED BY <1>4, <2>2, <2>3 DEF Emits
<1>6. \A k \in Frames : Vacant(k)' => env'[k] = {}
  BY <1>1, <1>3, <1>5, <1>n DEF Supertraced, FramesSound, Vacant, Frames
<1> QED BY <1>1, <1>n, <1>2, <1>3, <1>5, <1>6, AllocSupertraced

\* A call opens a frame without variables.
LEMMA CallSupertraced ==
  ASSUME ProgramTypeOK, LinkTypes, LinkTypes', TableExact, Supertraced, Call(<< >>)
  PROVE  Supertraced'
<1> DEFINE last == [op |-> "NEW_FRAME"]
<1>0. phase = "run" /\ code = << >> /\ UNCHANGED vars /\ frame # FRAME_LIMIT /\ TypeOK
  BY DEF Call, Idle, ProgramTypeOK
<1>n. PICK n \in Frames : n = frame /\ n + 1 \in Frames /\ n \in Nat
  BY <1>0, FrameLimitAssumption DEF TypeOK, Frames
<1>1. code' = << >> \o <<last>> /\ last \in Instr /\ last.op = "NEW_FRAME"
  BY DEF Call, Instr
<1>2. Emits(<< >>, {}, 1)
  BY EmitNone
<1> HIDE DEF last
<1>3. /\ \A i \in DOMAIN code' :
              /\ code'[i].op # "FREE"
              /\ code'[i].op = "TRACE" => code'[i].flag = 1
              /\ code'[i].op \in {"NEW_FRAME", "CLEAN"} => i = Len(code')
      /\ Due' = {}
      /\ \A p \in Pending' : p.op # "TRACE" => p = last
      /\ last \in Pending'
  BY <1>1, <1>2, StatementCode
<1>4. /\ \A z \in Obj : links'[z] = links[z]
      /\ Entering' /\ ~Entering /\ ~Leaving' /\ ~Leaving
  <2>1. Pending = {}
    BY <1>0 DEF Pending
  <2> QED BY <1>0, <1>1, <1>3, <2>1 DEF links, Entering, Leaving, vars
<1>5. \A k \in Frames : env'[k] = IF k = n + 1 THEN {} ELSE env[k]
  <2>1. {<<(<< >>)[i][1], "extern">> : i \in DOMAIN << >>} = {}
    OBVIOUS
  <2>2. env' = [env EXCEPT ![n + 1] = {}]
    BY <1>n, <2>1 DEF Call
  <2> QED BY <1>n, <2>2 DEF ProgramTypeOK
<1>6. \A k \in Frames : Vacant(k)' => env'[k] = {}
  BY <1>0, <1>4, <1>5, <1>n DEF Supertraced, FramesSound, Vacant, Frames, vars
<1>7. 1 \in Frames
  BY FrameLimitAssumption DEF Frames
<1> QED BY <1>0, <1>n, <1>3, <1>4, <1>5, <1>6, <1>7, StatementSupertraced

\* A return leaves the frame without variables.
LEMMA ReturnSupertraced ==
  ASSUME ProgramTypeOK, LinkTypes, LinkTypes', TableExact, Supertraced, Return
  PROVE  Supertraced'
<1> DEFINE last == [op |-> "CLEAN"]
<1>0. phase = "run" /\ code = << >> /\ UNCHANGED vars /\ TypeOK
  BY DEF Return, Idle, ProgramTypeOK
<1>n. PICK n \in Frames : n = frame
  BY <1>0, FrameLimitAssumption DEF TypeOK, Frames
<1>1. code' = << >> \o <<last>> /\ last \in Instr /\ last.op = "CLEAN"
  BY DEF Return, Instr
<1>2. Emits(<< >>, {}, 1)
  BY EmitNone
<1> HIDE DEF last
<1>3. /\ \A i \in DOMAIN code' :
              /\ code'[i].op # "FREE"
              /\ code'[i].op = "TRACE" => code'[i].flag = 1
              /\ code'[i].op \in {"NEW_FRAME", "CLEAN"} => i = Len(code')
      /\ Due' = {}
      /\ \A p \in Pending' : p.op # "TRACE" => p = last
  BY <1>1, <1>2, StatementCode
<1>4. /\ \A z \in Obj : links'[z] = links[z]
      /\ ~Entering' /\ ~Entering /\ ~Leaving
  <2>1. Pending = {}
    BY <1>0 DEF Pending
  <2> QED BY <1>0, <1>1, <1>3, <2>1 DEF links, Entering, Leaving, vars
<1>5. \A k \in Frames : env'[k] = IF k = n THEN {} ELSE env[k]
  BY <1>n DEF Return, ProgramTypeOK
<1>6. \A k \in Frames : Vacant(k)' => env'[k] = {}
  BY <1>0, <1>4, <1>5, <1>n DEF Supertraced, FramesSound, Vacant, Frames, vars
<1>7. 1 \in Frames
  BY FrameLimitAssumption DEF Frames
<1> QED BY <1>0, <1>n, <1>3, <1>4, <1>5, <1>6, <1>7, StatementSupertraced

\* An instruction does what was pending.
LEMMA ExecuteSupertraced ==
  ASSUME ProgramTypeOK, ProgramTypeOK', LinkTypes, LinkTypes', Supertraced, GlobalsOnly, Execute
  PROVE  Supertraced'
<1>1. /\ CodeSound(1) /\ FramesSound /\ PermanentSound /\ TypeOK /\ TypeOK'
      /\ reset = {} /\ pre = {}
  BY DEF Supertraced, PermanentSound, GlobalsOnly, ProgramTypeOK
<1>2. /\ UNCHANGED <<table, reg, env, pre>> /\ reset' = {}
      /\ \A k \in Frames : Roots(k)' = Roots(k)
      /\ \A x \in Obj : links'[x] \subseteq links[x]
      /\ CodeSound(1)' /\ FramesSound'
      /\ flag \subseteq flag' /\ flag' \cup Due' = flag \cup Due
      /\ \A k \in Frames : \A j \in DOMAIN traces'[k] :
            traces'[k][j] \in flag' \/ \E h \in DOMAIN traces[k] : traces'[k][j] = traces[k][h]
  BY <1>1, ExecuteShape
<1>3. PermanentSound'
  BY <1>1, <1>2 DEF PermanentSound
<1>4. Flagged' = Flagged
  BY <1>2 DEF Flagged
<1> QED BY <1>1, <1>2, <1>3, <1>4, KeepsSupertraced

\* One entry of the marking loop: supertrace flags only objects of the frame being
\* closed and of the outermost one, since what is below a frame's objects and not
\* flagged is of that frame; so no frame in between loses its way to its own.
LEMMA MarkSupertraced ==
  ASSUME ProgramTypeOK, ProgramTypeOK', LinkTypes, LinkTypes', TableExact, StructAccounting,
         Supertraced, GcMark, UNCHANGED <<env, code>>
  PROVE  Supertraced'
<1> DEFINE o == Head(traces[closing])
           below == Walk(o, flag \ {o})
<1>1. /\ phase = "mark" /\ TypeOK /\ TypeOK' /\ code = << >> /\ reset = {} /\ pre = {}
      /\ Pending = {} /\ Pending' = {} /\ Due = {} /\ Due' = {} /\ ~Entering /\ ~Leaving
      /\ ~Entering' /\ ~Leaving'
  BY DEF GcMark, ProgramTypeOK, Supertraced, PermanentSound, CodeSound, Pending, Due, Entering, Leaving
<1>n. PICK n \in Frames : n = closing /\ n = frame + 1 /\ n = Top /\ n # 1 /\ frame \in Nat
  BY <1>1, FrameLimitAssumption DEF ProgramTypeOK, TypeOK, Frames, closing, Top
<1>2. /\ traces[n] # << >> /\ traces[n] \in Seq(Obj) /\ traces \in [Frames -> Seq(Obj)]
      /\ traces' = [traces EXCEPT ![n] = Tail(@)]
      /\ UNCHANGED <<phase, frame, table, mallocd, freed, reg, pre, refs>>
  BY <1>1, <1>n DEF GcMark, TypeOK
<1>3. /\ o \in Obj /\ o = traces[n][1] /\ 1 \in DOMAIN traces[n]
      /\ {traces[n][j] : j \in DOMAIN traces[n]} = {traces'[n][j] : j \in DOMAIN traces'[n]} \cup {o}
  <2> DEFINE t == traces[n]
  <2>1. t \in Seq(Obj) /\ t # << >> /\ Head(t) = o /\ traces'[n] = Tail(t)
    BY <1>2, <1>n
  <2> HIDE DEF t, o
  <2>2. /\ o \in Obj /\ o = t[1] /\ 1 \in DOMAIN t
        /\ {t[j] : j \in DOMAIN t} = {Tail(t)[j] : j \in DOMAIN Tail(t)} \cup {o}
    BY <2>1, TailRange
  <2> QED BY <2>1, <2>2 DEF t
<1>4. MarkPermanent(o) \/ MarkTransient(o)
  BY DEF GcMark
<1> HIDE DEF o
<1>5. /\ o \in flag /\ In(o, n)
  BY <1>3, <1>n DEF Supertraced, PermanentSound, OriginSound, Roots
<1>6. /\ flag' = flag \cup below /\ reset' = {}
  BY <1>1, <1>4, <1>5 DEF MarkPermanent, MarkTransient
<1>7. /\ Top' = n /\ Flagged = flag /\ Flagged' = flag \cup below
  BY <1>1, <1>2, <1>n, <1>6 DEF Top, closing, Flagged
<1>8. \A x \in Obj : links'[x] = links[x] /\ links[x] = refs[x]
  BY <1>1, <1>2 DEF links
<1>9. \A k \in Frames : Roots(k) = Roots(k)' \cup (IF k = n THEN {o} ELSE {})
  <2>1. Roots(n) = Roots(n)' \cup {o}
    BY <1>1, <1>3, <1>6, <1>7, <1>n DEF Roots
  <2>2. \A k \in Frames \ {n} : Roots(k)' = Roots(k)
    BY <1>2, <1>7, <1>n DEF Roots
  <2> QED BY <2>1, <2>2
<1>10. /\ o \in below /\ below \subseteq Obj
       /\ \A x \in below : refs[x] \subseteq below \cup flag
  <2>1. /\ o \in below /\ below \subseteq Obj
    BY <1>3, WalkStart DEF Walk
  <2>2. \A x \in below : refs[x] \ (flag \ {o}) \subseteq below
    BY <1>1, <1>3, WalkClosed DEF TypeOK, Closed
  <2> QED BY <2>1, <2>2
<1>11. \A k \in Frames : \A x \in Obj : In(x, k)' <=> In(x, k)
  BY <1>2 DEF In
<1>12. \A z \in Obj : /\ z \in reg <=> \E k \in Frames : In(z, k)
                      /\ \A k \in Frames : In(z, k) => k <= n
                      /\ \A k, l \in Frames : In(z, k) /\ In(z, l) => k = l
  BY <1>1, <1>n, Levels
<1>13. \A z \in below : z \in flag \/ In(z, 1) \/ In(z, n)
  <2> DEFINE S == {o} \cup {z \in Obj : z \notin flag /\ (In(z, 1) \/ In(z, n))}
  <2>1. 1 \in Frames
    BY FrameLimitAssumption DEF Frames
  <2>2. ASSUME NEW x \in S, NEW y \in refs[x], y \notin flag
        PROVE  y \in S
    <3>1. x \in Obj /\ y \in Obj
      BY <1>1, <1>3 DEF TypeOK
    <3>2. SharedSound(x, y)
      BY <1>8, <3>1 DEF Supertraced
    <3>3. CASE In(y, 1)
      BY <2>2, <3>1, <3>3
    <3>4. ASSUME NEW k \in Frames, In(y, k), Rooted(x, k)
          PROVE  y \in S
      <4>1. In(x, 1) \/ In(x, n)
        BY <1>5
      <4>2. k = 1 \/ k = n
        BY <1>12, <2>1, <3>1, <3>4, <4>1 DEF Rooted
      <4> QED BY <2>2, <3>1, <3>4, <4>2
    <3> QED BY <1>7, <2>2, <3>2, <3>3, <3>4 DEF SharedSound
  <2>3. Closed(S, flag \ {o})
    BY <2>2 DEF Closed
  <2>4. S \in SUBSET Obj /\ o \in S
    BY <1>3
  <2> HIDE DEF S
  <2>5. below \subseteq S
    BY <2>3, <2>4 DEF Walk
  <2> QED BY <1>5, <2>5 DEF S
<1> HIDE DEF below
<1>14. PermanentSound'
  <2> SUFFICES ASSUME NEW k \in Frames, NEW i \in DOMAIN traces'[k]
               PROVE  traces'[k][i] \in flag
    BY <1>1, <1>2, <1>6 DEF PermanentSound
  <2>1. CASE k = n
    <3>1. traces'[n][i] \in {traces[n][j] : j \in DOMAIN traces[n]}
      BY <1>3, <2>1
    <3> QED BY <2>1, <3>1 DEF Supertraced, PermanentSound
  <2>2. CASE k # n
    BY <1>2, <2>2 DEF Supertraced, PermanentSound
  <2> QED BY <2>1, <2>2
<1>15. CodeSound(1)' /\ FramesSound'
  <2>1. \A k \in Frames : k > n => traces'[k] = traces[k]
    BY <1>2 DEF Frames
  <2>2. \A k \in Frames : Vacant(k)' <=> Vacant(k)
    BY <1>1, <1>2 DEF Vacant
  <2> QED BY <1>1, <1>2, <1>7, <1>n, <2>1, <2>2 DEF Supertraced, CodeSound, FramesSound
<1>16. OriginSound'
  <2> SUFFICES ASSUME NEW k \in Frames, NEW r \in Roots(k)' PROVE In(r, k)
    BY <1>11 DEF OriginSound, LinkTypes
  <2> QED BY <1>9 DEF Supertraced, OriginSound
<1>17. \A v \in env'[1] : v[2] = "local" /\ GlobalSound(v[1])'
  <2> SUFFICES ASSUME NEW v \in env[1] PROVE v[2] = "local" /\ GlobalSound(v[1])'
    OBVIOUS
  <2>1. v[2] = "local" /\ GlobalSound(v[1])
    BY DEF Supertraced
  <2> QED BY <1>2, <1>7, <2>1 DEF GlobalSound, In
<1>18. ASSUME NEW k \in Frames \ {1}, NEW v \in env'[k]
       PROVE  OwnSound(k, v)'
  <2>1. OwnSound(k, v) /\ v[1] \in reg /\ v[1] \in Obj
    BY <1>1 DEF Supertraced, OwnSound, TypeOK
  <2>2. k # n
    BY <1>1, <1>n, <1>18 DEF Supertraced, FramesSound, Vacant
  <2>3. CASE v[2] = "local"
    <3>1. Rooted(v[1], k)
      BY <2>1, <2>3 DEF OwnSound
    <3>2. 1 \in Frames /\ v[1] \notin below \ flag
      BY <1>12, <1>13, <2>1, <2>2, <3>1, FrameLimitAssumption DEF Rooted, Frames
    <3>3. Rooted(v[1], k)'
      BY <1>7, <1>9, <1>11, <2>1, <2>2, <3>1, <3>2 DEF Rooted
    <3> QED BY <1>2, <2>1, <2>3, <3>3 DEF OwnSound
  <2>4. CASE v[2] # "local"
    BY <1>2, <1>7, <2>1, <2>4 DEF OwnSound
  <2> QED BY <2>3, <2>4
<1>19. ASSUME NEW x \in Obj, NEW y \in links'[x]
       PROVE  SharedSound(x, y)'
  <2>1. SharedSound(x, y) /\ y \in refs[x] /\ y \in Obj
    BY <1>1, <1>8 DEF Supertraced, TypeOK
  <2>2. CASE x \in below
    BY <1>2, <1>7, <1>10, <2>1, <2>2 DEF SharedSound
  <2>3. CASE x \notin below
    <3>1. \A k \in Frames : Rooted(x, k) => Rooted(x, k)'
      BY <1>7, <1>9, <1>10, <1>11, <2>3 DEF Rooted
    <3>2. 1 \in Frames
      BY FrameLimitAssumption DEF Frames
    <3> QED BY <1>2, <1>7, <1>11, <2>1, <3>1, <3>2 DEF SharedSound
  <2> QED BY <2>2, <2>3
<1> QED BY <1>14, <1>15, <1>16, <1>17, <1>18, <1>19 DEF Supertraced

\* The sweep: when no entry is left, what refers to an unflagged object of the
\* closed frame is unflagged and of that frame itself, and goes with it.
LEMMA SweepSupertraced ==
  ASSUME ProgramTypeOK, ProgramTypeOK', LinkTypes, LinkTypes', TableExact,
         Supertraced, GcSweep, UNCHANGED <<env, code>>
  PROVE  Supertraced'
<1>1. /\ phase = "mark" /\ TypeOK /\ TypeOK' /\ code = << >> /\ reset = {} /\ pre = {}
      /\ Pending = {} /\ Pending' = {} /\ Due = {} /\ Due' = {} /\ ~Entering /\ ~Leaving
      /\ ~Entering' /\ ~Leaving'
  BY DEF GcSweep, ProgramTypeOK, Supertraced, PermanentSound, CodeSound, Pending, Due, Entering, Leaving
<1>n. PICK c \in Frames : c = closing /\ c = frame + 1 /\ c = Top
  BY <1>1, FrameLimitAssumption DEF ProgramTypeOK, TypeOK, Frames, closing, Top
<1>f. PICK n \in Frames : n = frame /\ n \in Nat /\ c = n + 1 /\ c # 1 /\ 1 \in Frames
  <2>1. frame \in 1 .. FRAME_LIMIT - 1 /\ FRAME_LIMIT \in Nat
    BY <1>1, FrameLimitAssumption DEF TypeOK
  <2>2. frame \in Frames /\ frame \in Nat /\ frame + 1 # 1 /\ 1 \in Frames
    BY <2>1 DEF Frames
  <2> QED BY <1>n, <2>2
<1>2. /\ traces[c] = << >> /\ phase' = "run" /\ flag' = flag /\ reset' = {}
      /\ reg' = reg \ Dropped /\ refs' = Emptied(Reclaimed)
      /\ UNCHANGED <<frame, traces, pre>>
      /\ \A o \in Obj : o \in Dropped <=> In(o, c) /\ o \notin flag
      /\ Reclaimed = Dropped /\ Dropped \subseteq Obj
  BY <1>1, <1>n DEF GcSweep, Dropped, Reclaimed, In
<1>3. \A o \in Obj : /\ o \in reg <=> \E k \in Frames : In(o, k)
                     /\ \A k \in Frames : In(o, k) => k <= c
                     /\ \A k, l \in Frames : In(o, k) /\ In(o, l) => k = l
  BY <1>1, <1>n, Levels
<1>4. \A o \in Obj, k \in Frames :
         In(o, k)' <=> /\ k # c
                       /\ In(o, k) \/ (k = n /\ In(o, c) /\ o \in flag)
  <2> SUFFICES ASSUME NEW o \in Obj, NEW k \in Frames
               PROVE  In(o, k)' <=> /\ k # c
                                    /\ In(o, k) \/ (k = n /\ In(o, c) /\ o \in flag)
    OBVIOUS
  <2>1. table[k][o] \in Nat /\ table[c][o] \in Nat
    BY <1>1 DEF TypeOK
  <2>2. table'[k][o] = IF k = c THEN 0
                       ELSE IF k = n /\ o \in flag THEN table[k][o] + table[c][o]
                       ELSE table[k][o]
    BY <1>n, <1>f DEF GcSweep, Empty
  <2> QED BY <2>1, <2>2 DEF In
<1>5. \A x \in Obj : /\ links[x] = refs[x]
                     /\ links'[x] = IF x \in Dropped THEN {} ELSE links[x]
  BY <1>1, <1>2 DEF links, Emptied
<1>6. Top' = n /\ Flagged = flag /\ Flagged' = flag
  BY <1>1, <1>2, <1>f DEF Top, Flagged
<1>7. Roots(c) = {} /\ \A k \in Frames : Roots(k)' = Roots(k)
  BY <1>1, <1>2, <1>6, <1>n, <1>f DEF Roots
<1>8. \A x \in Obj, k \in Frames : In(x, k) /\ k # c => In(x, k)' /\ x \notin Dropped
  BY <1>2, <1>3, <1>4
<1>9. \A x \in Obj, k \in Frames : Rooted(x, k) /\ k # c => Rooted(x, k)' /\ x \notin Dropped
  BY <1>6, <1>7, <1>8 DEF Rooted
<1>10. \A x \in flag : x \notin Dropped
  BY <1>1, <1>2 DEF TypeOK
<1>11. PermanentSound' /\ CodeSound(1)'
  BY <1>1, <1>2 DEF Supertraced, PermanentSound, CodeSound
<1>12. FramesSound'
  <2>1. \A k \in Frames : Vacant(k)' <=> Vacant(k)
    BY <1>1, <1>2 DEF Vacant
  <2>2. \A k \in Frames : k > n => k = c \/ k > c
    BY <1>f DEF Frames
  <2> QED BY <1>2, <1>6, <1>n, <2>1, <2>2 DEF Supertraced, FramesSound
<1>13. OriginSound'
  <2> SUFFICES ASSUME NEW k \in Frames, NEW r \in Roots(k)' PROVE In(r, k)'
    BY DEF OriginSound
  <2> QED BY <1>7, <1>8 DEF Supertraced, OriginSound, LinkTypes
<1>14. \A v \in env'[1] : v[2] = "local" /\ GlobalSound(v[1])'
  <2> SUFFICES ASSUME NEW v \in env[1] PROVE v[2] = "local" /\ GlobalSound(v[1])'
    OBVIOUS
  <2>1. v[2] = "local" /\ GlobalSound(v[1]) /\ v[1] \in Obj
    BY <1>1 DEF Supertraced, GlobalSound, TypeOK
  <2> QED BY <1>2, <1>6, <1>8, <1>10, <1>f, <2>1 DEF GlobalSound
<1>15. ASSUME NEW k \in Frames \ {1}, NEW v \in env'[k]
       PROVE  OwnSound(k, v)'
  <2>1. OwnSound(k, v) /\ v[1] \in reg /\ v[1] \in Obj
    BY <1>1 DEF Supertraced, OwnSound, TypeOK
  <2>2. k # c
    <3>1. c > frame /\ ~(c = frame + 1 /\ Entering)
      BY <1>1, <1>n, <1>f
    <3>2. env[c] = {}
      BY <3>1 DEF Supertraced, FramesSound, Vacant
    <3> QED BY <1>15, <3>2
  <2> QED BY <1>2, <1>6, <1>9, <1>10, <2>1, <2>2 DEF OwnSound
<1>16. ASSUME NEW x \in Obj, NEW y \in links'[x]
       PROVE  SharedSound(x, y)'
  <2>1. SharedSound(x, y) /\ x \notin Dropped /\ x \in reg /\ y \in reg /\ y \in Obj
    BY <1>1, <1>5 DEF Supertraced, SharedSound, TypeOK
  <2>2. CASE y \in flag
    BY <1>2, <1>6, <1>10, <2>1, <2>2 DEF SharedSound
  <2>3. CASE In(y, 1)
    BY <1>2, <1>8, <1>f, <2>1, <2>3 DEF SharedSound
  <2>4. ASSUME NEW k \in Frames, In(y, k), Rooted(x, k)
        PROVE  SharedSound(x, y)'
    <3>1. k # c
      BY <1>2, <1>6, <1>7, <2>1, <2>4 DEF Rooted
    <3> QED BY <1>2, <1>8, <1>9, <2>1, <2>4, <3>1 DEF SharedSound
  <2> QED BY <1>6, <2>1, <2>2, <2>3, <2>4 DEF SharedSound
<1> QED BY <1>11, <1>12, <1>13, <1>14, <1>15, <1>16 DEF Supertraced

\* Every step of a program of these families keeps what is shared flagged.
LEMMA SupertracesStep ==
  ASSUME ProgramTypeOK, ProgramTypeOK', IInv, SupertracesSound, [ProgramNext]_pvars
  PROVE  SupertracesSound'
<1> SUFFICES ASSUME GlobalsOnly', phase' \in {"run", "mark"} PROVE Supertraced'
  BY DEF SupertracesSound, GlobalsOnly
<1>0. LinkTypes /\ LinkTypes' /\ TableExact /\ StructAccounting /\ features' = features /\ GlobalsOnly
  BY LinksTyped, LinksTypedNext DEF IInv, ProgramNext, pvars, GlobalsOnly
<1>1. phase \in {"run", "mark"} => Supertraced
  BY <1>0 DEF SupertracesSound, GlobalsOnly
<1>2. CASE Statement
  <2>1. phase = "run" /\ Supertraced
    BY <1>1, <1>2 DEF Statement, New, SetProp, GetProp, SetGlobalNew, SetGlobalVar, Call,
          Return, ReturnValue, Idle
  <2>2. /\ "params" \notin features /\ "returns" \notin features
        /\ "loads" \notin features /\ "assigns" \notin features
    BY <1>0 DEF GlobalsOnly
  <2>3. CASE \E o \in Obj : New(o)
    BY <1>0, <2>1, <2>3, NewSupertraced
  <2>4. CASE \E r, v \in Scope : SetProp(r, v)
    BY <1>0, <2>1, <2>4, SetPropSupertraced
  <2>5. CASE \E g \in Globals, o \in Obj : SetGlobalNew(g, o)
    BY <1>0, <2>1, <2>5, SetGlobalNewSupertraced
  <2>6. CASE Call(<< >>)
    BY <1>0, <2>1, <2>6, CallSupertraced
  <2>7. CASE Return
    BY <1>0, <2>1, <2>7, ReturnSupertraced
  <2> QED BY <1>2, <2>2, <2>3, <2>4, <2>5, <2>6, <2>7
          DEF Statement, GetProp, SetGlobalVar, ReturnValue
<1>3. CASE Execute
  <2>1. Supertraced
    BY <1>1, <1>3 DEF Execute
  <2> QED BY <1>0, <1>3, <2>1, ExecuteSupertraced
<1>4. CASE Collect
  <2>1. Supertraced
    BY <1>1, <1>4 DEF Collect, GcMark, GcSweep
  <2> QED BY <1>0, <1>4, <2>1, MarkSupertraced, SweepSupertraced DEF Collect
<1>5. CASE Finish
  BY <1>5 DEF Finish, GcCleanLast, Abort, FreeRuntime
<1>6. CASE UNCHANGED pvars
  <2>1. Supertraced /\ UNCHANGED vars /\ UNCHANGED <<env, code>>
    BY <1>1, <1>6 DEF pvars, vars
  <2>2. UNCHANGED <<phase, frame, table, traces, reset, reg, pre, flag, refs, env, code>>
    BY <2>1 DEF vars
  <2>3. Pending' = Pending /\ Top' = Top
    BY <2>2 DEF Pending, Top, closing
  <2>4. Due' = Due /\ Flagged' = Flagged /\ (Entering' <=> Entering) /\ (Leaving' <=> Leaving)
        /\ \A x \in Obj : links'[x] = links[x]
    BY <2>2, <2>3 DEF Due, Flagged, Entering, Leaving, links
  <2>5. \A k \in Frames : Roots(k)' = Roots(k)
    BY <2>2, <2>3, <2>4 DEF Roots
  <2>6. PermanentSound' /\ CodeSound(1)'
    BY <2>1, <2>2 DEF Supertraced, PermanentSound, CodeSound
  <2>7. FramesSound'
    BY <2>1, <2>2, <2>3, <2>4 DEF Supertraced, FramesSound, Vacant
  <2> QED BY <1>0, <2>1, <2>2, <2>4, <2>5, <2>6, <2>7, KeepsSupertraced DEF ProgramTypeOK
<1> QED BY <1>2, <1>3, <1>4, <1>5, <1>6 DEF ProgramNext

\* At the start nothing is shared.
LEMMA SupertracesInit == ProgramInit => SupertracesSound
<1> SUFFICES ASSUME ProgramInit PROVE Supertraced
  BY DEF SupertracesSound
<1>1. /\ phase = "run" /\ frame = 1 /\ code = << >> /\ reset = {} /\ flag = {} /\ pre = {} /\ reg = {}
      /\ Pending = {} /\ Due = {} /\ Top = 1 /\ 1 \in Frames
      /\ \A k \in Frames : traces[k] = << >> /\ env[k] = {} /\ Roots(k) = {}
  BY FrameLimitAssumption DEF ProgramInit, Init, Pending, Due, Top, Roots, Frames
<1>2. \A x \in Obj : links[x] = {}
  BY <1>1 DEF ProgramInit, Init, links
<1> QED BY <1>1, <1>2 DEF Supertraced, PermanentSound, CodeSound, FramesSound, OriginSound

\* What is shared is registered, and what is registered has not been released.
LEMMA SupertracedIsSafe ==
  ASSUME ProgramTypeOK, StructAccounting, SupertracesSound, GlobalsOnly
  PROVE  NoDangling /\ SupertraceKeepsAlive
<1> SUFFICES ASSUME phase \in {"run", "mark"}
             PROVE  /\ Reachable \subseteq Allocated
                    /\ UNION {Walk(g[1], {}) : g \in env[1]} \subseteq Reachable
  BY DEF NoDangling, SupertraceKeepsAlive
<1>1. Supertraced /\ frame \in Nat /\ 1 <= frame /\ frame <= FRAME_LIMIT /\ pre = {} /\ TypeOK
  BY FrameLimitAssumption DEF SupertracesSound, GlobalsOnly, ProgramTypeOK, TypeOK, Supertraced, PermanentSound
<1>2. reg \subseteq Allocated /\ reg \subseteq Obj
  BY <1>1 DEF StructAccounting, Allocated, TypeOK
<1>3. Closed(reg, {})
  BY <1>1, <1>2 DEF Closed, links, Supertraced, SharedSound
<1>4. \A o \in reg : Walk(o, {}) \subseteq reg
  BY <1>2, <1>3 DEF Walk
<1>5. \A k \in 1 .. frame : \A v \in env[k] : v[1] \in reg
  <2> SUFFICES ASSUME NEW k \in 1 .. frame, NEW v \in env[k] PROVE v[1] \in reg
    OBVIOUS
  <2>1. k \in Frames
    <3>1. FRAME_LIMIT \in Nat
      BY FrameLimitAssumption
    <3> QED BY <1>1, <3>1 DEF Frames
  <2> QED BY <1>1, <2>1 DEF Supertraced, GlobalSound, OwnSound
<1> QED BY <1>1, <1>2, <1>4, <1>5 DEF Reachable

\* In every program whose procedures share new objects through globals, which they
\* do not use again once they have assigned them, what is
\* shared is supertraced in time.
THEOREM SupertracesCorrect == ProgramSpec => []SupertracesSound
<1>1. ProgramInit => SupertracesSound
  BY SupertracesInit
<1>2. ProgramTypeOK /\ ProgramTypeOK' /\ IInv /\ SupertracesSound /\ [ProgramNext]_pvars => SupertracesSound'
  BY SupertracesStep
<1> QED
  BY <1>1, <1>2, ProgramTypeCorrect, ProgramImplementsHeap, Invariance, PTL DEF ProgramSpec

\* The escape analysis is sound for procedures that use globals and assign them
\* new objects after their last use of them, and supertracing keeps its promise:
\* for any number of objects, frames and variables no variable leads to a
\* released object.
THEOREM GlobalsSafe ==
  ProgramSpec => [](features \subseteq {"globals", "overwrite"} => NoDangling /\ SupertraceKeepsAlive)
<1>1. ProgramTypeOK /\ IInv /\ SupertracesSound
        => (features \subseteq {"globals", "overwrite"} => NoDangling /\ SupertraceKeepsAlive)
  BY SupertracedIsSafe DEF IInv, GlobalsOnly
<1> QED
  BY <1>1, SupertracesCorrect, ProgramTypeCorrect, ProgramImplementsHeap, Invariance, PTL

\* The two together: the decisions of the escape analysis hold at run time, in
\* every program of either family.
THEOREM AnalysisCorrect == ProgramSpec => []AnalysisSound
  BY StatusesCorrect, SupertracesCorrect, PTL DEF AnalysisSound
=============================================================================
