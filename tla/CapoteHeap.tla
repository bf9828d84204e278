----------------------------- MODULE CapoteHeap -----------------------------
(***************************************************************************)
(* The heap of an emitted Capote program: stdheader.c's table of heap      *)
(* objects cut into gc frames, its stack of recycled objects, and the two  *)
(* tracers that decide what a returning procedure leaves alive.            *)
(*                                                                         *)
(* The program is left open: at any moment it may execute any of the heap  *)
(* instructions emit.c writes out, on any object it could still hold a     *)
(* pointer to.  A step that would read or release memory that has already  *)
(* been released is undefined behaviour in C and is not a step of this     *)
(* module; what the compiler does to stay clear of such steps is the       *)
(* subject of module CapoteProgram.                                        *)
(*                                                                         *)
(* An object is one heap_alloc_t struct.  Its registers are abstracted to  *)
(* refs[o], the objects held in its registers that are both initialised    *)
(* and traced (all of them, the marked ones, or none, by trace_mode).      *)
(***************************************************************************)
EXTENDS Naturals, Sequences, FiniteSets

CONSTANTS
    Obj,          \* the heap_alloc_t structs malloc can return
    FRAME_LIMIT,  \* gc frames that may be open at once
    Limit,        \* traced registers of one object (heap_alloc->limit)
    MaxTraces     \* bound: trace entries recorded in all the gc frames together

ASSUME FrameLimitAssumption == FRAME_LIMIT \in Nat \ {0}
ASSUME LimitAssumption == Limit \in Nat
ASSUME MaxTracesAssumption == MaxTraces \in Nat

VARIABLES
    phase,    \* "run", or where gc_clean and the end of main have got to
    frame,    \* heap_frame
    table,    \* table[k][o]: entries of o in gc frame k's part of heap_allocs
    traces,   \* traces[k]: gc frame k's part of heap_traces
    reset,    \* reset_stack: objects whose gc_flag gc_clean will clear again
    mallocd,  \* structs obtained from malloc and not yet given to free
    freed,    \* freed[o]: occurrences of o in freed_heap_allocs
    reg,      \* objects with reg_with_table = 1
    pre,      \* objects with pre_freed = 1
    flag,     \* objects with gc_flag = 1
    refs,     \* refs[o]: what o's traced, initialised registers point to
    perm      \* history: objects that supertrace has flagged

vars == <<phase, frame, table, traces, reset, mallocd, freed, reg, pre, flag,
          refs, perm>>

Frames == 1 .. FRAME_LIMIT
Phase == {"run", "mark", "ended", "aborted", "exited"}

Empty == [o \in Obj |-> 0]

\* Structs whose registers are allocated: pointers to them may be followed.
Allocated == {o \in mallocd : freed[o] = 0}

\* What a depth-first walk from o visits when it turns back at the objects of
\* stop: the least set holding o and closed under refs outside stop.
Closed(S, stop) == \A x \in S : refs[x] \ stop \subseteq S
Walk(o, stop) ==
    {x \in Obj : \A S \in SUBSET Obj : o \in S /\ Closed(S, stop) => x \in S}

\* free_heap_alloc: the registers of the objects of S are given back.
Emptied(S) == [x \in Obj |-> IF x \in S THEN {} ELSE refs[x]]

-----------------------------------------------------------------------------
\* init_runtime, then the GC_NEW_FRAME every program starts with.
Init ==
    /\ phase = "run"
    /\ frame = 1
    /\ table = [k \in Frames |-> Empty]
    /\ traces = [k \in Frames |-> << >>]
    /\ reset = {}
    /\ mallocd = {}
    /\ freed = Empty
    /\ reg = {}
    /\ pre = {}
    /\ flag = {}
    /\ refs = [o \in Obj |-> {}]
    /\ perm = {}

\* Mutant of Registered: alloc forgets to look at reg_with_table.
RegisteredAlways(o) == [table EXCEPT ![frame][o] = @ + 1]

\* The entry alloc appends to heap_allocs, unless the struct is still there.
Registered(o) ==
    IF o \in reg THEN table ELSE [table EXCEPT ![frame][o] = @ + 1]

\* The fields alloc resets whatever the struct held before.
Refreshed(o) ==
    /\ reg' = reg \cup {o}
    /\ pre' = pre \ {o}
    /\ flag' = flag \ {o}
    /\ perm' = perm \ {o}
    /\ refs' = [refs EXCEPT ![o] = {}]

\* alloc when freed_heap_allocs is not empty: a struct recycled by an inner
\* frame may still be registered with an outer one, and then stays there.
AllocRecycled(o) ==
    /\ phase = "run"
    /\ freed[o] > 0
    /\ freed' = [freed EXCEPT ![o] = @ - 1]
    /\ table' = Registered(o)
    /\ Refreshed(o)
    /\ UNCHANGED <<phase, frame, traces, reset, mallocd>>

\* alloc when there is nothing to recycle: malloc and register.
AllocFresh(o) ==
    /\ phase = "run"
    /\ \A x \in Obj : freed[x] = 0
    /\ o \notin mallocd
    /\ mallocd' = mallocd \cup {o}
    /\ table' = [table EXCEPT ![frame][o] = @ + 1]
    /\ Refreshed(o)
    /\ UNCHANGED <<phase, frame, traces, reset, freed>>

\* STORE_ALLOC of a reference: a register of o is written for the first time,
\* or the reference it held is overwritten.
Store(o, v) ==
    /\ phase = "run"
    /\ {o, v} \subseteq Allocated
    /\ \E old \in {{}} \cup {{x} : x \in refs[o]} :
        LET now == (refs[o] \ old) \cup {v}
        IN  /\ Cardinality(now) <= Limit
            /\ refs' = [refs EXCEPT ![o] = now]
    /\ UNCHANGED <<phase, frame, table, traces, reset, mallocd, freed, reg,
                   pre, flag, perm>>

\* Mutant of Free: free_alloc does not spare the objects with a gc_flag.
FreeFlagged(o) ==
    /\ phase = "run"
    /\ o \in mallocd
    /\ LET dead == IF o \in pre THEN {} ELSE Walk(o, pre)
       IN  /\ dead \subseteq Allocated
           /\ pre' = pre \cup dead
           /\ freed' = [x \in Obj |-> IF x \in dead THEN freed[x] + 1
                                                    ELSE freed[x]]
           /\ refs' = Emptied(dead)
    /\ UNCHANGED <<phase, frame, table, traces, reset, mallocd, reg, flag,
                   perm>>

\* FREE: free_alloc releases o and whatever hangs off it, but for the objects
\* that are already released or that carry a gc_flag.
Free(o) ==
    /\ phase = "run"
    /\ o \in mallocd
    /\ LET dead == IF o \in pre \cup flag THEN {} ELSE Walk(o, pre \cup flag)
       IN  /\ dead \subseteq Allocated
           /\ pre' = pre \cup dead
           /\ freed' = [x \in Obj |-> IF x \in dead THEN freed[x] + 1
                                                    ELSE freed[x]]
           /\ refs' = Emptied(dead)
    /\ UNCHANGED <<phase, frame, table, traces, reset, mallocd, reg, flag,
                   perm>>

\* GC_NEW_FRAME: the bounds of the new frame are the current ends.
GcNewFrame ==
    /\ phase = "run"
    /\ frame # FRAME_LIMIT
    /\ frame' = frame + 1
    /\ UNCHANGED <<phase, table, traces, reset, mallocd, freed, reg, pre, flag,
                   refs, perm>>

\* The places of heap_traces in use.
Entries ==
    {e \in Frames \X (1 .. MaxTraces) : e[2] \in DOMAIN traces[e[1]]}

\* GC_TRACE o, f: record o with the current frame and set its gc_flag to f.
GcTrace(o, f) ==
    /\ phase = "run"
    /\ o \in Allocated
    /\ Cardinality(Entries) < MaxTraces
    /\ traces' = [traces EXCEPT ![frame] = Append(@, o)]
    /\ flag' = IF f = 1 THEN flag \cup {o} ELSE flag \ {o}
    /\ UNCHANGED <<phase, frame, table, reset, mallocd, freed, reg, pre, refs,
                   perm>>

-----------------------------------------------------------------------------
(***************************************************************************)
(* gc_clean of an inner frame.  Its marking loop takes one step per trace  *)
(* entry of the frame being closed; nothing else runs in between.          *)
(***************************************************************************)
closing == frame + 1   \* the frame gc_clean is closing, after --heap_frame

GcCleanBegin ==
    /\ phase = "run"
    /\ frame > 1
    /\ phase' = "mark"
    /\ frame' = frame - 1
    /\ reset' = {}
    /\ UNCHANGED <<table, traces, mallocd, freed, reg, pre, flag, refs, perm>>

\* A flagged entry: its flag is cleared and supertrace sets it again, with the
\* flags of everything below it, for good.
MarkPermanent(o) ==
    LET below == Walk(o, flag \ {o})
    IN  /\ o \in flag
        /\ below \subseteq Allocated
        /\ flag' = flag \cup below
        /\ perm' = perm \cup below
        /\ UNCHANGED reset

\* Mutants of MarkTransient: trace does not push what it flags on the reset
\* stack; trace flags the entry and does not look at its registers.
MarkUnrecorded(o) ==
    LET below == Walk(o, flag)
    IN  /\ o \notin flag
        /\ below \subseteq Allocated
        /\ flag' = flag \cup below
        /\ UNCHANGED <<reset, perm>>

MarkShallow(o) ==
    /\ o \notin flag
    /\ o \in Allocated
    /\ flag' = flag \cup {o}
    /\ reset' = reset \cup {o}
    /\ UNCHANGED perm

\* Any other entry: trace flags what is below it until the end of gc_clean.
MarkTransient(o) ==
    LET below == Walk(o, flag)
    IN  /\ o \notin flag
        /\ below \subseteq Allocated
        /\ flag' = flag \cup below
        /\ reset' = reset \cup below
        /\ UNCHANGED perm

GcMark ==
    /\ phase = "mark"
    /\ traces[closing] # << >>
    /\ LET o == Head(traces[closing])
       IN  MarkPermanent(o) \/ MarkTransient(o)
    /\ traces' = [traces EXCEPT ![closing] = Tail(@)]
    /\ UNCHANGED <<phase, frame, table, mallocd, freed, reg, pre, refs>>

\* The objects of the closing frame that lose their place in the table, and
\* those of them that were still alive.
Dropped == {o \in Obj : table[closing][o] > 0 /\ o \notin flag}
\* Mutant of Reclaimed: gc_clean recycles what free_alloc has recycled already.
ReclaimedAgain == Dropped
Reclaimed == Dropped \ pre

\* The sweep: flagged entries move into the frame below, the others leave the
\* table; then the flags trace has set are cleared.
GcSweep ==
    /\ phase = "mark"
    /\ traces[closing] = << >>
    /\ table' = [k \in Frames |->
                    IF k = closing THEN Empty
                    ELSE IF k = frame
                    THEN [o \in Obj |-> IF o \in flag
                                        THEN table[k][o] + table[closing][o]
                                        ELSE table[k][o]]
                    ELSE table[k]]
    /\ reg' = reg \ Dropped
    /\ freed' = [o \in Obj |-> IF o \in Reclaimed
                               THEN freed[o] + table[closing][o]
                               ELSE freed[o]]
    /\ refs' = Emptied(Reclaimed)
    /\ flag' = flag \ reset
    /\ reset' = {}
    /\ phase' = "run"
    /\ UNCHANGED <<frame, traces, mallocd, pre, perm>>

-----------------------------------------------------------------------------
\* Mutant of GcCleanLast: the outermost frame spares flagged objects too.
GcCleanLastSparing ==
    /\ phase = "run"
    /\ frame = 1
    /\ LET gone == {o \in Obj : table[1][o] > 0 /\ o \notin pre \cup flag}
       IN  /\ mallocd' = mallocd \ gone
           /\ reg' = reg \ gone
           /\ refs' = Emptied(gone)
    /\ table' = [table EXCEPT ![1] = Empty]
    /\ frame' = 0
    /\ reset' = {}
    /\ phase' = "ended"
    /\ UNCHANGED <<traces, freed, pre, flag, perm>>

\* gc_clean of the outermost frame: what was not freed goes back to malloc.
GcCleanLast ==
    /\ phase = "run"
    /\ frame = 1
    /\ LET gone == {o \in Obj : table[1][o] > 0 /\ o \notin pre}
       IN  /\ mallocd' = mallocd \ gone
           /\ reg' = reg \ gone
           /\ refs' = Emptied(gone)
    /\ table' = [table EXCEPT ![1] = Empty]
    /\ frame' = 0
    /\ reset' = {}
    /\ phase' = "ended"
    /\ UNCHANGED <<traces, freed, pre, flag, perm>>

\* ABORT, or any PANIC_ON_FAIL of the emitted code: run returns at once.
Abort ==
    /\ phase = "run"
    /\ phase' = "aborted"
    /\ UNCHANGED <<frame, table, traces, reset, mallocd, freed, reg, pre, flag,
                   refs, perm>>

\* free_runtime, which main calls after run however it ended: it frees the
\* recycled structs; the ones still in heap_allocs are not its business.
FreeRuntime ==
    /\ phase \in {"ended", "aborted"}
    /\ mallocd' = {o \in mallocd : freed[o] = 0}
    /\ freed' = Empty
    /\ phase' = "exited"
    /\ UNCHANGED <<frame, table, traces, reset, reg, pre, flag, refs, perm>>

Next ==
    \/ \E o \in Obj : AllocRecycled(o)
    \/ \E o \in Obj : AllocFresh(o)
    \/ \E o, v \in Obj : Store(o, v)
    \/ \E o \in Obj : Free(o)
    \/ GcNewFrame
    \/ \E o \in Obj, f \in {0, 1} : GcTrace(o, f)
    \/ GcCleanBegin
    \/ GcMark
    \/ GcSweep
    \/ GcCleanLast
    \/ Abort
    \/ FreeRuntime

Spec == Init /\ [][Next]_vars

-----------------------------------------------------------------------------
\* Type invariant: every variable keeps its type, heap_frame stays within its
\* bounds, and no struct is popped from the recycling stack once too often.
TypeOK ==
    /\ phase \in Phase
    /\ frame \in 0 .. FRAME_LIMIT
    /\ phase = "run" => frame # 0
    /\ phase = "mark" => frame \in 1 .. FRAME_LIMIT - 1
    /\ table \in [Frames -> [Obj -> Nat]]
    /\ traces \in [Frames -> Seq(Obj)]
    /\ reset \in SUBSET Obj
    /\ mallocd \in SUBSET Obj
    /\ freed \in [Obj -> Nat]
    /\ reg \in SUBSET Obj
    /\ pre \in SUBSET Obj
    /\ flag \in SUBSET Obj
    /\ refs \in [Obj -> SUBSET Obj]
    /\ perm \in SUBSET Obj

\* The frames whose part of heap_allocs may hold entries: the open ones, and
\* the one gc_clean is closing.
Top == IF phase = "mark" THEN closing ELSE frame

\* reg_with_table says exactly whether a struct is in heap_allocs, and there it
\* has one entry, in the part of one open frame: alloc, the recycling of a
\* struct an outer frame still lists, and the compaction in gc_clean agree.
TableExact ==
    phase \in {"run", "mark", "aborted"} =>
        \A o \in Obj :
            /\ o \in reg <=> \E k \in Frames : table[k][o] > 0
            /\ \A k \in Frames : table[k][o] > 0 => table[k][o] = 1 /\ k <= Top
            /\ \A k, l \in Frames :
                    table[k][o] > 0 /\ table[l][o] > 0 => k = l

\* Every struct malloc returned is either alive (in heap_allocs and not marked
\* pre_freed) or on the recycling stack, never both and there only once: alloc
\* hands no struct to two owners and free_runtime frees none twice.  After the
\* last gc_clean only structs of the recycling stack are left.
StructAccounting ==
    /\ phase \in {"run", "mark", "aborted"} =>
        \A o \in Obj :
            /\ freed[o] <= 1
            /\ freed[o] = 1 => o \in mallocd
            /\ o \in reg \cup pre => o \in mallocd
            /\ o \in mallocd => (freed[o] = 0 <=> o \in reg /\ o \notin pre)
    /\ phase = "ended" => \A o \in mallocd : freed[o] > 0

\* A gc_flag protects: neither free_alloc nor the sweep of gc_clean releases an
\* object that carries one, at any depth of frames and whatever set the flag.
FlaggedAlive == phase \in {"run", "mark"} => flag \subseteq Allocated

\* Between collections the only flags are those of supertraced objects and of
\* objects recorded for a collection to come; during one, also those the reset
\* stack will clear.  Trace leaves none behind, so nothing outlives its frame
\* for good by accident.
Recorded == {o \in Obj : \E k \in Frames : \E i \in DOMAIN traces[k] : traces[k][i] = o}
NoStrayFlag ==
    /\ phase = "run" => reset = {}
    /\ phase \in {"run", "mark"} => flag \subseteq reset \cup perm \cup Recorded

\* While gc_clean marks, what trace has marked points only to marked objects:
\* the sweep that follows leaves no register of theirs dangling, in whatever
\* order the entries were recorded and wherever walks met older flags.
MarkClosed == phase = "mark" => \A o \in reset : refs[o] \subseteq flag

\* A program that runs to its end gives every struct back to malloc: the last
\* gc_clean and free_runtime between them miss none.
ExitsClean == [][phase = "ended" /\ phase' = "exited" => mallocd' = {}]_vars

=============================================================================
