-------------------------------- MODULE Escape --------------------------------
(***************************************************************************)
(* What the gc statuses of the escape analysis mean while a program runs.  *)
(* The analysis assigns them at compile time; here each is given the fact  *)
(* about heap_allocs and heap_traces that makes it right to place no more  *)
(* GC_TRACE instructions than it does.                                     *)
(*                                                                         *)
(* The level of an object is the frame that lists it in heap_allocs.  When *)
(* gc_clean closes a frame it keeps what can be reached from the frame's   *)
(* trace entries, Kept; an object survives up to frame j if it is kept in  *)
(* every frame between its own and j, Held.                                *)
(***************************************************************************)
EXTENDS CapoteProgram

\* The least set that holds R and is closed under L.
Below(R, L) ==
    {x \in Obj : \A S \in SUBSET Obj :
                    R \subseteq S /\ (\A y \in S : L[y] \subseteq S) => x \in S}

\* The instructions of the current statement that are still to come, the
\* objects they will trace, and the references once they will have stored.
Pending == {code[i] : i \in DOMAIN code}
Due == {p.obj : p \in {q \in Pending : q.op = "TRACE"}}
links == [x \in Obj |-> refs[x] \cup
            {p.val : p \in {q \in Pending : q.op = "STORE" /\ q.obj = x}}]
Entering == \E p \in Pending : p.op = "NEW_FRAME"
Leaving == \E p \in Pending : p.op = "CLEAN"

\* What gc_clean starts from when it closes frame k, those of its entries that
\* it has marked already among them, and what it keeps.
Roots(k) == {traces[k][i] : i \in DOMAIN traces[k]}
            \cup (IF k = Top THEN Due \cup reset ELSE {})
Kept(k) == Below(Roots(k), links)

In(o, k) == table[k][o] > 0
Held(o, j, k) == \A m \in Frames : j < m /\ m <= k => o \in Kept(m)

-----------------------------------------------------------------------------
(* Procedures with parameters, which may read and write properties: every  *)
(* trace is transient.                                                     *)

\* No object is flagged but by the collection at work, and none is pre-freed.
QuietSound ==
    /\ flag = reset
    /\ pre = {}
    /\ phase = "run" => reset = {}

\* Nothing is force-freed, all traces are transient (f is 0) or all permanent
\* (f is 1), and a call or a return is the last instruction of its statement.
CodeSound(f) ==
    /\ phase = "mark" => code = << >>
    /\ \A i \in DOMAIN code :
        /\ code[i].op # "FREE"
        /\ code[i].op = "TRACE" => code[i].flag = f
        /\ code[i].op \in {"NEW_FRAME", "CLEAN"} => i = Len(code)

\* Frames that are not open have no variables and no trace entries.
Vacant(k) == \/ k > frame /\ ~(k = frame + 1 /\ Entering)
             \/ k = frame /\ Leaving
FramesSound ==
    /\ \A k \in Frames : k > Top => traces[k] = << >>
    /\ \A k \in Frames : Vacant(k) => env[k] = {}

\* A trace entry of a frame is an object of that frame or of an outer one.
RootsSound ==
    \A k \in Frames : \A r \in Roots(k) : \E j \in Frames : j <= k /\ In(r, j)

\* Every variable holds an object of its own frame or of an outer one that lasts
\* at least as long as the caller; unless its status is extern also as long as
\* its own frame; and the frame keeps a traced one, or an extern one of its own.
VarSound(k, v) ==
    /\ v[2] \in {"local", "extern", "traced"}
    /\ \E j \in Frames : j <= k /\ In(v[1], j)
    /\ \A j \in Frames : In(v[1], j) =>
            /\ Held(v[1], j, k - 1)
            /\ v[2] # "extern" => Held(v[1], j, k)
            /\ v[2] = "traced" => v[1] \in Kept(k)
            /\ v[2] = "extern" /\ j = k => v[1] \in Kept(k)

\* An object lasts as long as the objects that refer to it, in whatever order
\* the two were allocated.
LinkSound(x, y) ==
    /\ x \in reg /\ y \in reg
    /\ \A i, j \in Frames : In(x, i) /\ In(y, j) => Held(y, i, j) /\ Held(y, j, i)

Sound ==
    /\ QuietSound
    /\ CodeSound(0)
    /\ FramesSound
    /\ RootsSound
    /\ \A k \in Frames : \A v \in env[k] : VarSound(k, v)
    /\ \A x \in Obj : \A y \in links[x] : LinkSound(x, y)

\* In a program whose procedures have parameters and read properties, the
\* statuses ast_postproc_value leaves behind are true of the heap: at every
\* instruction, whatever was stored where and however deep the calls are, an
\* object lasts as long as the variables and the objects that refer to it.
StatusesSound ==
    features \subseteq {"params", "loads"} /\ phase \in {"run", "mark"} => Sound

-----------------------------------------------------------------------------
(* Procedures that use globals, and assign them new objects: every trace   *)
(* is a supertrace, which flags the object for good.  A global is not used *)
(* again by the procedure that has assigned it (no "reuses").              *)

\* The objects that carry a flag or are about to be traced.
Flagged == flag \cup Due

\* x is an object of frame k, whose gc_clean starts from x if x has a flag: the
\* walk of supertrace turns back at flags, so it must start above them.
Rooted(x, k) == In(x, k) /\ (x \in Flagged => x \in Roots(k))

\* What is traced stays flagged, and nothing is on the reset stack or pre-freed.
PermanentSound ==
    /\ pre = {}
    /\ reset = {}
    /\ \A k \in Frames : \A i \in DOMAIN traces[k] : traces[k][i] \in flag

\* A trace entry of a frame is an object of that frame: gc_clean takes the entry
\* away and moves the object to the frame below in one go.
OriginSound == \A k \in Frames : \A r \in Roots(k) : In(r, k)

\* What a global holds is of the outermost frame or flagged.
GlobalSound(o) == o \in reg /\ (In(o, 1) \/ o \in Flagged)

\* A local variable of a procedure holds an object of its own frame, and one
\* whose status became superext an object that is flagged.
OwnSound(k, v) ==
    /\ v[2] \in {"local", "superext"}
    /\ v[1] \in reg
    /\ IF v[2] = "local" THEN Rooted(v[1], k) ELSE v[1] \in Flagged

\* What x refers to is flagged, or of the outermost frame, or an object of the
\* same frame as x that gc_clean will find from x if it keeps x.
SharedSound(x, y) ==
    /\ x \in reg /\ y \in reg
    /\ \/ y \in Flagged
       \/ In(y, 1)
       \/ \E k \in Frames : In(y, k) /\ Rooted(x, k)

Supertraced ==
    /\ PermanentSound
    /\ CodeSound(1)
    /\ FramesSound
    /\ OriginSound
    /\ \A v \in env[1] : v[2] = "local" /\ GlobalSound(v[1])
    /\ \A k \in Frames \ {1} : \A v \in env[k] : OwnSound(k, v)
    /\ \A x \in Obj : \A y \in links[x] : SharedSound(x, y)

\* In a program whose procedures only share objects through globals, which they
\* may assign new objects but not use after that, supertracing one end of a store
\* is enough, whatever is stored into whatever: at every
\* instruction, what can be reached from a global or from a record that has
\* escaped is flagged, is still to be flagged when its own frame is closed, or
\* stays until the end of the program.
SupertracesSound ==
    features \subseteq {"globals", "overwrite"} /\ phase \in {"run", "mark"}
        => Supertraced

\* What ast_postproc_value decides at compile time is true when the program
\* runs, in whichever of these families it is.
AnalysisSound == StatusesSound /\ SupertracesSound
=============================================================================
