---------------------------- MODULE CapoteProgram ----------------------------
(***************************************************************************)
(* CapoteHeap driven by the programs the compiler emits.  The escape       *)
(* analysis of postproc.c gives every variable a gc status; from the       *)
(* statuses it decides which GC_TRACE instructions compiler.c places       *)
(* around a store, a call or a return.  A statement is chosen when the     *)
(* instructions of the last one have run, and puts its own into code.      *)
(*                                                                         *)
(* Frame 1 is the top-level code, whose variables every procedure can see; *)
(* every other frame is a call of a procedure with do_gc set.              *)
(***************************************************************************)
EXTENDS CapoteHeap

CONSTANTS
    FeatureSets,  \* families of programs, each a subset of AllFeatures
    MaxVars       \* bound, by family: variables that hold an object, in one
                  \* frame

AllFeatures == {"params", "globals", "overwrite", "returns", "loads",
                "assigns", "reuses"}

ASSUME FeaturesAssumption == \A F \in FeatureSets : F \subseteq AllFeatures
ASSUME MaxVarsAssumption == MaxVars \in [FeatureSets -> Nat]

VARIABLES
    features, \* what the statements of the program at hand do
    env,      \* env[k]: the variables of frame k, as <<object, gc status>>
    written,  \* written[k]: the globals the procedure of frame k has assigned,
              \* as <<global, the gc status it has from then on>>
    code      \* instructions of the current statement still to be executed

pvars == <<vars, features, env, written, code>>

\* postproc_gc_status_t, for values of a record or array type.
Status == {"local", "unknown", "extern", "superext", "traced", "supertraced"}
Var == Obj \X Status
Instr == [op : {"TRACE"}, obj : Obj, flag : {0, 1}]
    \cup [op : {"STORE"}, obj : Obj, val : Obj]
    \cup [op : {"FREE"}, obj : Obj]
    \cup [op : {"NEW_FRAME", "CLEAN"}]

\* Type invariant: the heap is never driven out of its types by the programs of
\* the compiler, and scopes and code keep theirs.
ProgramTypeOK ==
    /\ TypeOK
    /\ features \in FeatureSets
    /\ env \in [Frames -> SUBSET Var]
    /\ written \in [Frames -> SUBSET (Var \X Status)]
    /\ code \in Seq(Instr)

Trace(o, f) == <<[op |-> "TRACE", obj |-> o, flag |-> f]>>

\* The globals as a procedure sees them, with their status there: it is
\* POSTPROC_GC_SUPEREXT_ALLOC until the procedure assigns them.  Only in a
\* family with "reuses" does a procedure use those it has assigned.
Globals ==
    IF ~(frame > 1 /\ "globals" \in features) THEN {}
    ELSE {<<g, "superext">> :
              g \in {x \in env[1] : \A w \in written[frame] : w[1] # x}}
         \cup (IF "reuses" \in features THEN written[frame] ELSE {})

\* What the code of the current frame can name: its own variables and, in a
\* procedure, the globals.
Scope ==
    IF frame = 0 THEN {}
    ELSE env[frame] \cup {<<w[1][1], w[2], "global">> : w \in Globals}

\* The variables E of a frame after the status of x became s.  The use of a
\* global leaves its status alone.
Retag(E, x, s) == IF x \in E THEN (E \ {x}) \cup {<<x[1], s>>} ELSE E

-----------------------------------------------------------------------------
(***************************************************************************)
(* What ast_postproc_value decides for a variable with status s that is    *)
(* used where the context has parent status parent: the GC_TRACE emitted   *)
(* with it, and the status it has from then on.                            *)
(***************************************************************************)
\* Mutant of VarTrace: only values that came from a call are traced.
VarTraceUnknown(o, s, parent) ==
    CASE parent = "extern" /\ s = "unknown" -> Trace(o, 0)
      [] parent = "superext" /\ s \in {"local", "unknown", "extern"} -> Trace(o, 1)
      [] OTHER -> << >>

VarTrace(o, s, parent) ==
    CASE parent = "extern" /\ s \in {"local", "unknown"} -> Trace(o, 0)
      [] parent = "superext" /\ s \in {"local", "unknown", "extern"} -> Trace(o, 1)
      [] OTHER -> << >>

VarStatus(s, parent) ==
    CASE parent = "extern" /\ s \in {"local", "unknown"} -> "traced"
      [] parent = "superext" /\ s \in {"local", "unknown", "extern"} -> "superext"
      [] OTHER -> s

\* The status of a value that is no variable of the frame: a new object, or
\* what a global holds.
ValueStatus(s, parent) ==
    CASE parent = "extern" /\ s \in {"local", "unknown"} -> "traced"
      [] parent = "superext" /\ s \in {"local", "unknown", "extern"} -> "supertraced"
      [] OTHER -> s

\* The parent status a value gets from the global it is assigned to.
SetParent(s) == IF s \in {"extern", "superext"} THEN s ELSE "local"

\* The parent status a stored value gets from the record it is stored into.
StoreParent(s) ==
    CASE s = "extern" -> "extern"
      [] s \in {"superext", "unknown"} -> "superext"
      [] OTHER -> "local"

\* The parent status the record gets from the value, when it is local itself.
RecordParent(s, sv) ==
    IF StoreParent(s) # "local" THEN "local"
    ELSE IF sv \in {"extern", "superext"} THEN sv ELSE "local"

\* postproc_type_to_gc_stat for a property of a record with status s.
PropStatus(s) == IF s \in {"extern", "superext"} THEN s ELSE "local"

\* Mutant of ArgTrace: a procedure hands on its own parameters untraced.
ArgTraceOwn(o, s) ==
    IF frame # 1 /\ s \in {"superext", "unknown"} THEN Trace(o, 1) ELSE << >>

\* What a call emits for an argument: at the top level nothing.
ArgTrace(o, s) ==
    IF frame = 1 THEN << >>
    ELSE CASE s \in {"superext", "unknown"} -> Trace(o, 1)
           [] s = "extern" -> Trace(o, 0)
           [] OTHER -> << >>

-----------------------------------------------------------------------------
ProgramInit ==
    /\ Init
    /\ features \in FeatureSets
    /\ env = [k \in Frames |-> {}]
    /\ written = [k \in Frames |-> {}]
    /\ code = << >>

Idle == phase = "run" /\ code = << >>
Room(k) == Cardinality(env[k]) < MaxVars[features]

\* A variable initialised with a new record or array.
New(o) ==
    /\ Idle
    /\ Room(frame)
    /\ AllocRecycled(o) \/ AllocFresh(o)
    /\ env' = [env EXCEPT ![frame] = @ \cup {<<o, "local">>}]
    /\ UNCHANGED <<written, code>>

\* record.prop = value: what record and value emit, then the store.  The top
\* level emits no traces, and the compiler does not survive a store there into
\* a record that came from a call.
SetProp(r, v) ==
    /\ Idle
    /\ frame = 1 => r[2] # "unknown"
    /\ LET rp == RecordParent(r[2], v[2])
           vp == StoreParent(r[2])
       IN  /\ code' = VarTrace(r[1], r[2], rp) \o VarTrace(v[1], v[2], vp)
                      \o <<[op |-> "STORE", obj |-> r[1], val |-> v[1]]>>
           /\ env' = [env EXCEPT ![frame] =
                          Retag(Retag(@, r, VarStatus(r[2], rp)),
                                v, VarStatus(v[2], vp))]
    /\ UNCHANGED <<vars, written>>

\* A variable initialised with record.prop.
GetProp(r) ==
    /\ Idle
    /\ "loads" \in features
    /\ Room(frame)
    /\ r[1] \in Allocated
    /\ \E o \in refs[r[1]] :
        env' = [env EXCEPT ![frame] = @ \cup {<<o, PropStatus(r[2])>>}]
    /\ UNCHANGED <<vars, written, code>>

\* The procedure at hand has assigned the global g, which is h from now on and
\* has status s in the rest of the procedure.
Written(g, h, s) ==
    written' = [k \in Frames |->
                  IF k = frame THEN {w \in written[k] : w[1] # g} \cup {<<h, s>>}
                  ELSE {<<IF w[1] = g THEN h ELSE w[1], w[2]>> : w \in written[k]}]

\* global = a new record or array, in a procedure.  The first object a global is
\* assigned is supertraced.  That leaves the global with status
\* POSTPROC_GC_SUPERTRACED_ALLOC, under which the second one is not traced.
SetGlobalNew(g, o) ==
    /\ Idle
    /\ g \in Globals
    /\ AllocRecycled(o) \/ AllocFresh(o)
    /\ LET parent == SetParent(g[2])
           h == <<o, g[1][2]>>
       IN  /\ code' = VarTrace(o, "local", parent)
           /\ env' = [env EXCEPT ![1] = (@ \ {g[1]}) \cup {h}]
           /\ Written(g[1], h, ValueStatus("local", parent))

\* global = variable, in a procedure: the object is traced as the status of the
\* global asks, and the one it held is freed, whoever else holds it.
SetGlobalVar(g, v) ==
    /\ Idle
    /\ "assigns" \in features
    /\ g \in Globals
    /\ LET parent == SetParent(g[2])
           h == <<v[1], g[1][2]>>
           own == v \in env[frame]
       IN  /\ code' = VarTrace(v[1], v[2], parent)
                      \o <<[op |-> "FREE", obj |-> g[1][1]]>>
           /\ env' = [env EXCEPT ![1] = (@ \ {g[1]}) \cup {h},
                                 ![frame] = Retag(@, v, VarStatus(v[2], parent))]
           /\ Written(g[1], h, IF own THEN VarStatus(v[2], parent)
                                      ELSE ValueStatus(v[2], parent))
    /\ UNCHANGED vars

\* A call of a procedure with do_gc: the traces of the arguments, and then the
\* callee's GC_NEW_FRAME.  Its parameters have status POSTPROC_GC_EXTERN_ALLOC.
Call(args) ==
    /\ Idle
    /\ frame # FRAME_LIMIT
    /\ LET emitted(x) == ArgTrace(x[1], x[2])
       IN  code' = (IF Len(args) = 0 THEN << >>
                    ELSE IF Len(args) = 1 THEN emitted(args[1])
                    ELSE emitted(args[1]) \o emitted(args[2]))
                   \o <<[op |-> "NEW_FRAME"]>>
    /\ env' = [env EXCEPT ![frame + 1] =
                  {<<args[i][1], "extern">> : i \in DOMAIN args}]
    /\ UNCHANGED <<vars, written>>

\* return; the frame's variables are gone and gc_clean runs.
Return ==
    /\ Idle
    /\ frame > 1
    /\ code' = <<[op |-> "CLEAN"]>>
    /\ env' = [env EXCEPT ![frame] = {}]
    /\ written' = [written EXCEPT ![frame] = {}]
    /\ UNCHANGED vars

\* return v; v is traced unless it is known to live elsewhere, and the caller
\* gets it as POSTPROC_GC_UNKOWN_ALLOC.
ReturnValue(v) ==
    /\ Idle
    /\ "returns" \in features
    /\ frame > 1
    /\ Room(frame - 1)
    /\ code' = VarTrace(v[1], v[2], "extern") \o <<[op |-> "CLEAN"]>>
    /\ env' = [env EXCEPT ![frame] = {},
                          ![frame - 1] = @ \cup {<<v[1], "unknown">>}]
    /\ written' = [written EXCEPT ![frame] = {}]
    /\ UNCHANGED vars

\* The machine executes the next instruction of the statement.
Execute ==
    /\ phase = "run"
    /\ code # << >>
    /\ code' = Tail(code)
    /\ LET i == Head(code)
       IN  \/ i.op = "TRACE" /\ GcTrace(i.obj, i.flag)
           \/ i.op = "STORE" /\ Store(i.obj, i.val)
                /\ ("overwrite" \in features \/ refs[i.obj] \subseteq refs'[i.obj])
           \/ i.op = "FREE" /\ Free(i.obj)
           \/ i.op = "NEW_FRAME" /\ GcNewFrame
           \/ i.op = "CLEAN" /\ GcCleanBegin
    /\ UNCHANGED <<env, written>>

\* gc_clean runs to its end before the caller goes on.
Collect == (GcMark \/ GcSweep) /\ UNCHANGED <<env, written, code>>

\* The end of the top-level code, an abort, and the end of main.
Finish ==
    /\ Idle \/ phase \in {"ended", "aborted"}
    /\ GcCleanLast \/ Abort \/ FreeRuntime
    /\ env' = [k \in Frames |-> {}]
    /\ written' = [k \in Frames |-> {}]
    /\ UNCHANGED code

Statement ==
    \/ \E o \in Obj : New(o)
    \/ \E r, v \in Scope : SetProp(r, v)
    \/ \E r \in Scope : GetProp(r)
    \/ \E g \in Globals, o \in Obj : SetGlobalNew(g, o)
    \/ \E g \in Globals, v \in Scope : SetGlobalVar(g, v)
    \/ Call(<< >>)
    \/ "params" \in features /\ \E a \in Scope : Call(<<a>>)
    \/ "params" \in features /\ \E a, b \in Scope : Call(<<a, b>>)
    \/ Return
    \/ \E v \in Scope : ReturnValue(v)

ProgramNext ==
    /\ Statement \/ Execute \/ Collect \/ Finish
    /\ UNCHANGED features

ProgramSpec == ProgramInit /\ [][ProgramNext]_pvars

-----------------------------------------------------------------------------
\* What the program can still get at: from the variables of the open frames
\* through the registers of the objects.
Reachable ==
    UNION {Walk(x[1], {}) : x \in UNION {env[k] : k \in 1 .. frame}}

\* What a program may not combine, for the analysis loses objects in it: a global
\* that is assigned a variable, one that is assigned and then used by the same
\* procedure, loads from objects that globals or callers share, and so on.
Lossy == {{"assigns"}, {"reuses"}, {"globals", "loads"}, {"globals", "params"},
          {"globals", "returns"}, {"returns", "loads"},
          {"params", "loads", "overwrite"}}
Lossless == \A F \in Lossy : ~(F \subseteq features)

\* The escape analysis is sound for programs that do none of this: no
\* variable of an open frame, and no register reached from one, points to an
\* object that a returning procedure's gc_clean has released.
NoDangling ==
    phase \in {"run", "mark"} /\ Lossless => Reachable \subseteq Allocated

\* stdheader.c promises that supertracing keeps an object in memory until the
\* end of the program: what it has once marked is not released while a global
\* still leads to it, whatever objects the globals are assigned meanwhile.  (In
\* programs with globals whose procedures also return objects, GC_TRACE may
\* overwrite the mark; they are left out.)
SupertraceKeepsAlive ==
    phase \in {"run", "mark"} /\ ~({"globals", "returns"} \subseteq features) =>
        perm \cap UNION {Walk(g[1], {}) : g \in env[1]} \subseteq Allocated
=============================================================================
