------------------------- MODULE CapoteEventsProofs -------------------------
(***************************************************************************)
(* What the functions pros.c emits guarantee, proved for kernels that cut  *)
(* tasks off at any step, any number of times.                             *)
(***************************************************************************)
EXTENDS CapoteEvents, TLAPS

\* From its look at inited on, a task relies on the runtime being complete.
Relying == {"check", "claim", "call", "run", "free"}

\* The inductive invariant: inited is published last; a look at ran that found
\* 0 stays valid, since the task that looked is the only one alive; ran covers
\* the program from its first step on.
IInv ==
    /\ TypeOK
    /\ init = "publish" => runtime = "ready"
    /\ inited = 1 => runtime = "ready" /\ init = "returned"
    /\ pc \in Relying => inited = 1
    /\ ran = 0 => program = "none"
    /\ pc = "entry" => task # "none"
    /\ pc = "claim" => ran = 0
    /\ pc = "call" => program = "none"
    /\ pc \in {"call", "run", "free"} => ran = 1
    /\ program # "none" => inited = 1
    /\ init # "returned" /\ ~eager => task = "none"
    /\ pc # "entry" /\ task # "none" /\ ~eager => op_mode = task

\* The initial state satisfies the invariant.
LEMMA InvInit == Init => IInv
BY DEF Init, IInv, TypeOK, Relying, Runners, Markers

\* Every step keeps the invariant.
LEMMA InvStep == IInv /\ [Next]_vars => IInv'
<1> SUFFICES ASSUME IInv, [Next]_vars PROVE IInv'
    OBVIOUS
<1> USE DEF IInv, TypeOK, Relying, Runners, Markers
<1>1. CASE InitializeEntry
    BY <1>1 DEF InitializeEntry
<1>2. CASE InitAll
    BY <1>2 DEF InitAll
<1>3. CASE Publish
    BY <1>3 DEF Publish
<1>4. ASSUME NEW f \in Runners \cup Markers, Start(f) PROVE IInv'
    BY <1>4 DEF Start
<1>5. CASE Entry
    BY <1>5 DEF Entry
<1>6. CASE Wait
    BY <1>6 DEF Wait
<1>7. CASE Check
    BY <1>7 DEF Check
<1>8. CASE Claim
    BY <1>8 DEF Claim
<1>9. CASE Call
    BY <1>9 DEF Call
<1>10. CASE Return
    BY <1>10 DEF Return
<1>11. CASE FreeRuntime
    BY <1>11 DEF FreeRuntime
<1>12. CASE UNCHANGED vars
    BY <1>12 DEF vars
<1>13. QED
    BY <1>1, <1>2, <1>3, <1>4, <1>5, <1>6, <1>7, <1>8, <1>9, <1>10, <1>11,
       <1>12 DEF Next, Initialize, Task

\* The inductive invariant holds in every behaviour.
THEOREM Invariance == Spec => []IInv
BY InvInit, InvStep, PTL DEF Spec

\* The runtime is complete before the program starts, whatever the kernel does.
THEOREM StartsInitialised == Spec => []RunsInitialised
<1>1. IInv => RunsInitialised
    BY DEF IInv, RunsInitialised
<1>2. QED
    BY <1>1, Invariance, PTL

\* The program that runs is told the mode it runs in.
THEOREM ModeKnown == Spec => []ModeIsTask
<1>1. IInv => ModeIsTask
    BY DEF IInv, ModeIsTask, TypeOK, Runners, Markers
<1>2. QED
    BY <1>1, Invariance, PTL

\* run is never called a second time.
THEOREM CalledOnce == Spec => RunsOnce
<1>1. IInv /\ [Next]_vars => [Call => program = "none"]_vars
    BY DEF IInv, Call
<1>2. QED
    BY <1>1, Invariance, PTL DEF Spec, RunsOnce

=============================================================================
