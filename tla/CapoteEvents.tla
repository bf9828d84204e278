---------------------------- MODULE CapoteEvents ----------------------------
(***************************************************************************)
(* A program built for the robot: the functions pros.c writes out, which   *)
(* the PROS kernel calls in tasks of its own.  initialize() sets the       *)
(* runtime up; autonomous() and opcontrol() both try to run the program,   *)
(* and three volatile words (op_mode, inited, ran) are all they share.     *)
(*                                                                         *)
(* The kernel is external.  It calls initialize() once, keeps one          *)
(* competition task at most, and replaces that task, wherever it has got   *)
(* to, whenever the field control changes its mind.  The busy-wait in the  *)
(* emitted code is there for an eager kernel, one that starts the other    *)
(* functions while initialize() still runs; a patient one does not.        *)
(***************************************************************************)

Runners == {"autonomous", "opcontrol"}
Markers == {"disabled", "competition_initialize"}

VARIABLES
    eager,    \* whether the kernel starts tasks before initialize returned
    op_mode,  \* the function that assigned op_mode last
    inited,   \* volatile int inited
    ran,      \* volatile int ran
    init,     \* where initialize() has got to
    task,     \* the function the competition task runs
    pc,       \* where that function has got to
    runtime,  \* "raw", or what init_all made of the runtime
    program   \* what has become of the one program of this robot

vars == <<eager, op_mode, inited, ran, init, task, pc, runtime, program>>

\* Type invariant: flags, program counters and the stages of the runtime.
TypeOK ==
    /\ eager \in BOOLEAN
    /\ op_mode \in {"uninit", "initialize"} \cup Runners \cup Markers
    /\ inited \in {0, 1}
    /\ ran \in {0, 1}
    /\ init \in {"entry", "init_all", "publish", "returned"}
    /\ task \in {"none"} \cup Runners \cup Markers
    /\ pc \in {"entry", "wait", "check", "claim", "call", "run", "free",
              "returned"}
    /\ pc \in {"entry", "returned"} \/ task \in Runners
    /\ runtime \in {"raw", "ready", "broken"}
    /\ program \in {"none", "running", "over", "freed"}

Init ==
    /\ eager \in BOOLEAN
    /\ op_mode = "uninit"
    /\ inited = 0
    /\ ran = 0
    /\ init = "entry"
    /\ task = "none"
    /\ pc = "returned"
    /\ runtime = "raw"
    /\ program = "none"

-----------------------------------------------------------------------------
\* initialize(): op_mode first, then init_all, then inited.
InitializeEntry ==
    /\ init = "entry"
    /\ init' = "init_all"
    /\ op_mode' = "initialize"
    /\ UNCHANGED <<eager, inited, ran, task, pc, runtime, program>>

InitAll ==
    /\ init = "init_all"
    /\ \/ runtime' = "ready" /\ init' = "publish"
       \/ runtime' = "broken" /\ init' = "returned"   \* if(!init_all()) return
    /\ UNCHANGED <<eager, op_mode, inited, ran, task, pc, program>>

\* Mutant of Publish: initialize returns without setting inited.
PublishNothing ==
    /\ init = "publish"
    /\ init' = "returned"
    /\ UNCHANGED <<eager, op_mode, inited, ran, task, pc, runtime, program>>

Publish ==
    /\ init = "publish"
    /\ inited' = 1
    /\ init' = "returned"
    /\ UNCHANGED <<eager, op_mode, ran, task, pc, runtime, program>>

Initialize == InitializeEntry \/ InitAll \/ Publish

-----------------------------------------------------------------------------
\* External: the kernel drops the task it was running and starts function f.
Start(f) ==
    /\ eager \/ init = "returned"
    /\ task' = f
    /\ pc' = "entry"
    /\ UNCHANGED <<eager, op_mode, inited, ran, init, runtime, program>>

\* Every function begins by saying which mode the robot is in; disabled() and
\* competition_initialize() do nothing else.
Entry ==
    /\ pc = "entry"
    /\ op_mode' = task
    /\ pc' = IF task \in Runners THEN "wait" ELSE "returned"
    /\ UNCHANGED <<eager, inited, ran, init, task, runtime, program>>

\* Mutant of Wait: the loop is left whatever inited says.
WaitNot ==
    /\ pc = "wait"
    /\ pc' = "check"
    /\ UNCHANGED <<eager, op_mode, inited, ran, init, task, runtime, program>>

\* while(!inited) {}
Wait ==
    /\ pc = "wait"
    /\ inited = 1
    /\ pc' = "check"
    /\ UNCHANGED <<eager, op_mode, inited, ran, init, task, runtime, program>>

\* if(ran) return: "Cannot start program, already ran."
Check ==
    /\ pc = "check"
    /\ pc' = IF ran = 1 THEN "returned" ELSE "claim"
    /\ UNCHANGED <<eager, op_mode, inited, ran, init, task, runtime, program>>

\* Mutant of Claim: run is called with ran still 0.
ClaimNothing ==
    /\ pc = "claim"
    /\ pc' = "call"
    /\ UNCHANGED <<eager, op_mode, inited, ran, init, task, runtime, program>>

\* ran = 1
Claim ==
    /\ pc = "claim"
    /\ ran' = 1
    /\ pc' = "call"
    /\ UNCHANGED <<eager, op_mode, inited, init, task, runtime, program>>

\* run is called ...
Call ==
    /\ pc = "call"
    /\ program' = "running"
    /\ pc' = "run"
    /\ UNCHANGED <<eager, op_mode, inited, ran, init, task, runtime>>

\* ... and returns, with or without an error.
Return ==
    /\ pc = "run"
    /\ program' = "over"
    /\ pc' = "free"
    /\ UNCHANGED <<eager, op_mode, inited, ran, init, task, runtime>>

\* free_runtime, the last thing the function does.
FreeRuntime ==
    /\ pc = "free"
    /\ program' = "freed"
    /\ pc' = "returned"
    /\ UNCHANGED <<eager, op_mode, inited, ran, init, task, runtime>>

Task == Entry \/ Wait \/ Check \/ Claim \/ Call \/ Return \/ FreeRuntime

Next == Initialize \/ Task \/ \E f \in Runners \cup Markers : Start(f)

\* PROS schedules preemptively and gives every task its share, so a task that
\* spins keeps neither initialize nor another task from its next step.  The
\* kernel itself owes nothing, and the program need not end.
Fairness ==
    /\ WF_vars(Initialize)
    /\ WF_vars(Entry \/ Wait \/ Check \/ Claim \/ Call)

Spec == Init /\ [][Next]_vars /\ Fairness

-----------------------------------------------------------------------------
\* The program is run once at most, by whichever task comes first, however the
\* kernel cuts tasks off between the look at ran and its assignment; once over
\* or abandoned it is never entered again ("Cannot start program, already
\* ran.").
RunsOnce == [][Call => program = "none"]_vars

\* The program runs, and free_runtime frees, only what init_all has completed:
\* inited is published after the runtime and read before its first use.
RunsInitialised == program # "none" => runtime = "ready" /\ init # "init_all"

\* robot_get_opmode tells the program the function it runs in, provided the
\* kernel is patient: no late assignment of initialize or of a task the kernel
\* has dropped gets in between.
ModeIsTask == pc = "run" /\ ~eager => op_mode = task

\* If init_all succeeds, a task in the busy-wait gets out of it.
WaitEnds ==
    (init = "returned" /\ runtime = "ready" /\ pc = "wait") ~> pc # "wait"

=============================================================================
