----------------------------- MODULE Ownership ------------------------------
(***************************************************************************)
(* What error.c promises the rest of the compiler: every block of memory   *)
(* it hands out has one owner, and when the compiler stops, for whatever   *)
(* reason, each block it still owns is released, once.                     *)
(***************************************************************************)
CONSTANT Block

VARIABLES
    owned,  \* blocks the compiler answers for
    lost,   \* blocks it stopped answering for without releasing them
    closed  \* whether everything has been released

vars == <<owned, lost, closed>>

Init ==
    /\ owned = {}
    /\ lost = {}
    /\ closed = FALSE

Acquire(b) ==
    /\ ~closed
    /\ b \notin owned \cup lost
    /\ owned' = owned \cup {b}
    /\ UNCHANGED <<lost, closed>>

\* A block grows, and may have to move.
Exchange(b, c) ==
    /\ ~closed
    /\ b \in owned
    /\ c \notin owned \cup lost
    /\ owned' = (owned \ {b}) \cup {c}
    /\ UNCHANGED <<lost, closed>>

Release(S) ==
    /\ ~closed
    /\ S \subseteq owned
    /\ owned' = owned \ S
    /\ UNCHANGED <<lost, closed>>

Lose(S) ==
    /\ ~closed
    /\ S \cap lost = {}
    /\ owned' = owned \ S
    /\ lost' = lost \cup S
    /\ UNCHANGED closed

Close ==
    /\ ~closed
    /\ owned' = {}
    /\ closed' = TRUE
    /\ UNCHANGED lost

Next ==
    \/ \E b \in Block : Acquire(b)
    \/ \E b, c \in Block : Exchange(b, c)
    \/ \E S \in SUBSET Block : Release(S) \/ Lose(S)
    \/ Close

Spec == Init /\ [][Next]_vars
=============================================================================
