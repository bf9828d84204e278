------------------------------- MODULE SafeGc -------------------------------
(***************************************************************************)
(* error.c: the tables in which the compiler writes down every block of    *)
(* memory it holds, so that main can release them all at any early return. *)
(* One table lives as long as the compiler; compiler_define_typesig opens  *)
(* a second one, and hands its blocks over or releases them.               *)
(*                                                                         *)
(* Every malloc and realloc may fail.  The alloced_* counter of a full     *)
(* array is raised before the realloc that may not succeed; a store into   *)
(* an array whose counter is ahead of its room is undefined behaviour and  *)
(* not a step of this module.                                              *)
(***************************************************************************)
EXTENDS Naturals, Sequences, FiniteSets

CONSTANTS
    Block,    \* addresses malloc can return
    NULL,
    JUNK,     \* what an array element holds before it is assigned
    Initial,  \* alloced_entries, ... of a new table, by array
    Growth    \* and what they are raised by when the array is full

Arrays == {"entries", "availible", "transfers"}

\* safe_gc_t: its three arrays, their alloced_* counters and their true sizes.
Table == [entries : Seq(Block \cup {NULL}), availible : Seq(Nat),
          transfers : Seq(Block \cup {JUNK}),
          alloced : [Arrays -> Nat], room : [Arrays -> Nat]]

ASSUME NullAssumption == NULL \notin Block \cup Table /\ JUNK \notin Block /\ NULL # JUNK
ASSUME InitialAssumption == Initial \in [Arrays -> Nat \ {0}]
ASSUME GrowthAssumption == Growth \in [Arrays -> Nat \ {0}]

VARIABLES
    main,   \* the safe_gc of main, every parser and the compiler
    temp,   \* temp_safe_gc of compiler_define_typesig, or NULL
    live,   \* blocks malloc returned and nobody has freed
    lost,   \* history: live blocks that left the tables unfreed
    phase   \* "run", "panic" on the way back to main, or "over"

vars == <<main, temp, live, lost, phase>>

\* init_safe_gc
NewTable == [entries |-> << >>, availible |-> << >>, transfers |-> << >>,
             alloced |-> Initial, room |-> Initial]

Values(s) == {s[i] : i \in DOMAIN s}

\* The blocks a table answers for.
Held(g) == (Values(g.entries) \cup Values(g.transfers)) \ {NULL, JUNK}
TempHeld == IF temp = NULL THEN {} ELSE Held(temp)

Full(g, a) == Len(g[a]) = g.alloced[a]
InRoom(g, a) == Len(g[a]) < g.room[a]

\* The array made larger, and the counter alone raised when realloc fails.
Grown(g, a) == [g EXCEPT !.alloced[a] = @ + Growth[a],
                         !.room[a] = g.alloced[a] + Growth[a]]
GrowthFailed(g, a) == [g EXCEPT !.alloced[a] = @ + Growth[a]]

\* The table with v at the end of array a, which has or is given room for it.
Push(g, a, v) ==
    LET h == IF Full(g, a) THEN Grown(g, a) ELSE g
    IN  [h EXCEPT ![a] = Append(@, v)]

CanPush(g, a) == Full(g, a) \/ InRoom(g, a)

\* Mutant of Entered: new_entry does not take the slot it reuses off the list.
EnteredAgain(g, v) ==
    IF g.availible # << >>
    THEN [g EXCEPT !.entries[g.availible[Len(g.availible)]] = v]
    ELSE Push(g, "entries", v)

\* new_entry and the assignment to what it returns: the slot freed last, or one
\* more at the end.
Entered(g, v) ==
    IF g.availible # << >>
    THEN [g EXCEPT !.entries[g.availible[Len(g.availible)]] = v,
                   !.availible = SubSeq(@, 1, Len(@) - 1)]
    ELSE Push(g, "entries", v)

CanEnter(g) == g.availible # << >> \/ CanPush(g, "entries")
EntryMayFail(g) == g.availible = << >> /\ Full(g, "entries")

Init ==
    /\ main = NewTable
    /\ temp = NULL
    /\ live = {}
    /\ lost = {}
    /\ phase = "run"

-----------------------------------------------------------------------------
\* Operations on the main table, while compiler_define_typesig is not at work.
Idle == phase = "run" /\ temp = NULL

\* safe_malloc, safe_calloc
Malloc(b) ==
    /\ Idle
    /\ b \notin live
    /\ CanEnter(main)
    /\ main' = Entered(main, b)
    /\ live' = live \cup {b}
    /\ UNCHANGED <<temp, lost, phase>>

\* They return NULL: malloc failed, or there is no slot and the block is freed
\* again.  Every caller then gives up, as it does when safe_realloc returns
\* NULL or there is no source to add.
MallocFails ==
    /\ Idle
    /\ phase' = "panic"
    /\ \/ UNCHANGED main
       \/ EntryMayFail(main) /\ main' = GrowthFailed(main, "entries")
    /\ UNCHANGED <<temp, live, lost>>

\* safe_add_managed of a source file_read_source has just read.
AddManaged(b) ==
    /\ Idle
    /\ b \notin live
    /\ live' = live \cup {b}
    /\ \/ /\ CanEnter(main)
          /\ main' = Entered(main, b)
          /\ UNCHANGED <<lost, phase>>
       \/ /\ EntryMayFail(main)   \* new_entry fails, the source stays behind
          /\ main' = GrowthFailed(main, "entries")
          /\ lost' = lost \cup {b}
          /\ phase' = "panic"
    /\ UNCHANGED temp

\* safe_transfer_malloc takes an entry before it knows that it has a block.
TransferMalloc(b) ==
    /\ Idle
    /\ b \notin live
    /\ \/ /\ CanPush(main, "transfers")
          /\ \/ /\ main' = Push(main, "transfers", b)
                /\ live' = live \cup {b}
                /\ UNCHANGED phase
             \/ /\ main' = Push(main, "transfers", JUNK)
                /\ phase' = "panic"
                /\ UNCHANGED live
       \/ /\ Full(main, "transfers")
          /\ main' = GrowthFailed(main, "transfers")
          /\ phase' = "panic"
          /\ UNCHANGED live
    /\ UNCHANGED <<temp, lost>>

\* safe_realloc of a block the table holds, when the block has to move.
Replaced(s, b, c) == [i \in DOMAIN s |-> IF s[i] = b THEN c ELSE s[i]]
Realloc(b, c) ==
    /\ Idle
    /\ b \in Held(main)
    /\ c \notin live
    /\ main' = [main EXCEPT !.entries = Replaced(@, b, c),
                            !.transfers = Replaced(@, b, c)]
    /\ live' = (live \ {b}) \cup {c}
    /\ UNCHANGED <<temp, lost, phase>>

\* safe_free: the slot goes on the list of free ones and is cleared.  When that
\* list cannot grow the block stays, and no caller looks at the result.
Free(b) ==
    /\ Idle
    /\ \E i \in DOMAIN main.entries :
        /\ main.entries[i] = b
        /\ \/ /\ CanPush(main, "availible")
              /\ main' = [Push(main, "availible", i) EXCEPT !.entries[i] = NULL]
              /\ live' = live \ {b}
           \/ /\ Full(main, "availible")
              /\ main' = GrowthFailed(main, "availible")
              /\ UNCHANGED live
    /\ UNCHANGED <<temp, lost, phase>>

-----------------------------------------------------------------------------
\* compiler_define_typesig opens temp_safe_gc ...
OpenTemp ==
    /\ Idle
    /\ temp' = NewTable
    /\ UNCHANGED <<main, live, lost, phase>>

\* ... fills it with what compile_type_to_machine allocates ...
TempMalloc(b) ==
    /\ phase = "run"
    /\ temp # NULL
    /\ b \notin live
    /\ CanEnter(temp)
    /\ temp' = Entered(temp, b)
    /\ live' = live \cup {b}
    /\ UNCHANGED <<main, lost, phase>>

\* ... releases it if that, or machine_get_typesig, failed ...
FreeTemp ==
    /\ phase = "run"
    /\ temp # NULL
    /\ temp' = NULL
    /\ live' = live \ Held(temp)
    /\ phase' = "panic"
    /\ UNCHANGED <<main, lost>>

\* ... or hands its blocks over: safe_gc_transfer_to(temp, main, 1), block by
\* block until the array of main cannot grow, which the caller does not notice.
After[k \in 0 .. Len(temp.entries)] ==
    IF k = 0 THEN main
    ELSE IF temp.entries[k] = NULL THEN After[k - 1]
    ELSE Push(After[k - 1], "transfers", temp.entries[k])
Movable(k) ==
    \A j \in 1 .. k : temp.entries[j] # NULL => CanPush(After[j - 1], "transfers")

\* Mutant of Transfer: the caller goes on with the table it has handed over.
TransferKept ==
    /\ phase = "run"
    /\ temp # NULL
    /\ Movable(Len(temp.entries))
    /\ main' = After[Len(temp.entries)]
    /\ UNCHANGED <<temp, live, lost, phase>>

Transfer ==
    /\ phase = "run"
    /\ temp # NULL
    /\ \/ /\ Movable(Len(temp.entries))
          /\ main' = After[Len(temp.entries)]
          /\ UNCHANGED lost
       \/ \E k \in DOMAIN temp.entries :
            /\ Movable(k - 1)
            /\ temp.entries[k] # NULL
            /\ Full(After[k - 1], "transfers")
            /\ main' = GrowthFailed(After[k - 1], "transfers")
            /\ LET rest == {temp.entries[j] : j \in k .. Len(temp.entries)}
               IN  lost' = lost \cup (rest \ {NULL})
    /\ temp' = NULL
    /\ UNCHANGED <<live, phase>>

-----------------------------------------------------------------------------
\* Mutant of FreeAll: the transfer entries are forgotten.
FreeAllEntries ==
    /\ phase \in {"run", "panic"}
    /\ temp = NULL
    /\ JUNK \notin Values(main.transfers)
    /\ live' = live \ Values(main.entries)
    /\ main' = NewTable
    /\ phase' = "over"
    /\ UNCHANGED <<temp, lost>>

\* free_safe_gc(&safe_gc, 1): main at its end or at an early return.  Freeing an
\* entry that was never assigned is undefined behaviour and not a step.
FreeAll ==
    /\ phase \in {"run", "panic"}
    /\ temp = NULL
    /\ JUNK \notin Values(main.transfers)
    /\ live' = live \ Held(main)
    /\ main' = NewTable
    /\ phase' = "over"
    /\ UNCHANGED <<temp, lost>>

Next ==
    \/ \E b \in Block : \/ Malloc(b)
                        \/ AddManaged(b)
                        \/ TransferMalloc(b)
                        \/ Free(b)
                        \/ TempMalloc(b)
    \/ \E b, c \in Block : Realloc(b, c)
    \/ MallocFails
    \/ OpenTemp
    \/ FreeTemp
    \/ Transfer
    \/ FreeAll

Spec == Init /\ [][Next]_vars

-----------------------------------------------------------------------------
\* A table in which no block stands twice, in one of its arrays or in both.
NoneTwice(s) == \A i, j \in DOMAIN s : s[i] = s[j] /\ s[i] \in Block => i = j
Single(g) ==
    /\ NoneTwice(g.entries)
    /\ NoneTwice(g.transfers)
    /\ Values(g.entries) \cap Values(g.transfers) \cap Block = {}

\* Every address in the tables is that of a live block and stands in one slot of
\* one table: free_safe_gc frees nothing twice and nothing it does not own, also
\* after slots were reused, blocks moved, and a second table was handed over.
OneOwner ==
    /\ Held(main) \cup TempHeld \subseteq live
    /\ Held(main) \cap TempHeld = {}
    /\ Single(main)
    /\ temp # NULL => Single(temp)

\* A table whose list of free slots names every cleared slot, once.
SlotsExact(g) ==
    /\ Values(g.availible) = {i \in DOMAIN g.entries : g.entries[i] = NULL}
    /\ \A i, j \in DOMAIN g.availible :
            g.availible[i] = g.availible[j] => i = j

\* The lists of free slots are exact at every step: new_entry overwrites no
\* pointer, and no slot is ever out of use for good.
FreeSlotsExact == SlotsExact(main) /\ (temp # NULL => SlotsExact(temp))

\* The tables implement single ownership: at whatever step the compiler gives
\* up, and wherever its blocks were by then, free_safe_gc releases all of them.
O == INSTANCE Ownership WITH
        owned <- live \ lost,
        closed <- phase = "over"
ImplementsOwnership == O!Spec
=============================================================================
