-------------------------- MODULE CapoteHeapProofs --------------------------
(***************************************************************************)
(* Proofs about CapoteHeap, for any set of structs and any number of gc    *)
(* frames.                                                                 *)
(***************************************************************************)
EXTENDS CapoteHeap, TLAPS

-----------------------------------------------------------------------------
(* What the walks of free_alloc, trace and supertrace visit.               *)

\* A walk stays among the objects and visits the one it starts from.
LEMMA WalkStart ==
    ASSUME NEW o \in Obj, NEW stop
    PROVE  /\ Walk(o, stop) \subseteq Obj
           /\ o \in Walk(o, stop)
BY DEF Walk

\* A walk turns back at no object but those of stop.
LEMMA WalkClosed ==
    ASSUME NEW o \in Obj, NEW stop,
           refs \in [Obj -> SUBSET Obj],
           NEW x \in Walk(o, stop)
    PROVE  refs[x] \ stop \subseteq Walk(o, stop)
<1> SUFFICES ASSUME NEW y \in refs[x] \ stop, NEW S \in SUBSET Obj,
                    o \in S, Closed(S, stop)
             PROVE  y \in S
    BY DEF Walk
<1>1. x \in S
    BY DEF Walk
<1> QED
    BY <1>1 DEF Closed

\* A walk passes through no object of stop but the one it may start from.
LEMMA WalkAvoids ==
    ASSUME NEW o \in Obj, NEW stop,
           refs \in [Obj -> SUBSET Obj]
    PROVE  Walk(o, stop) \cap stop \subseteq {o}
<1> DEFINE S == {o} \cup (Obj \ stop)
<1>1. S \in SUBSET Obj /\ o \in S
    OBVIOUS
<1>2. Closed(S, stop)
    BY DEF Closed
<1>3. Walk(o, stop) \subseteq S
    BY <1>1, <1>2 DEF Walk
<1> QED
    BY <1>3

-----------------------------------------------------------------------------
(* Type correctness.                                                       *)

LEMMA TypeInit == Init => TypeOK
BY FrameLimitAssumption DEF Init, TypeOK, Empty, Frames, Phase

LEMMA TypeStep ==
    ASSUME TypeOK, [Next]_vars
    PROVE  TypeOK'
<1> USE FrameLimitAssumption DEF TypeOK, Frames, Phase
<1>1. ASSUME NEW o \in Obj, AllocRecycled(o)
      PROVE  TypeOK'
  <2>1. freed' \in [Obj -> Nat]
    BY <1>1 DEF AllocRecycled
  <2>2. frame \in Frames
    BY <1>1 DEF AllocRecycled
  <2>3. table' \in [Frames -> [Obj -> Nat]]
    BY <1>1, <2>2 DEF AllocRecycled, Registered
  <2> QED
    BY <1>1, <2>1, <2>3 DEF AllocRecycled, Refreshed
<1>2. ASSUME NEW o \in Obj, AllocFresh(o)
      PROVE  TypeOK'
    BY <1>2 DEF AllocFresh, Refreshed
<1>3. ASSUME NEW o \in Obj, NEW v \in Obj, Store(o, v)
      PROVE  TypeOK'
    BY <1>3 DEF Store
<1>4. ASSUME NEW o \in Obj, Free(o)
      PROVE  TypeOK'
    BY <1>4, WalkStart DEF Free, Emptied, Allocated
<1>5. CASE GcNewFrame
    BY <1>5 DEF GcNewFrame
<1>6. ASSUME NEW o \in Obj, NEW f \in {0, 1}, GcTrace(o, f)
      PROVE  TypeOK'
    BY <1>6 DEF GcTrace
<1>7. CASE GcCleanBegin
  <2>1. frame' = frame - 1 /\ frame > 1 /\ frame \in 0 .. FRAME_LIMIT
    BY <1>7 DEF GcCleanBegin
  <2>2. frame' \in 1 .. FRAME_LIMIT - 1 /\ frame' \in 0 .. FRAME_LIMIT
    BY <2>1
  <2> QED
    BY <1>7, <2>2 DEF GcCleanBegin
<1>8. CASE GcMark
  <2> DEFINE o == Head(traces[closing])
  <2>1. closing \in Frames
    BY <1>8 DEF GcMark, closing
  <2>2. traces[closing] \in Seq(Obj) /\ traces[closing] # << >>
    BY <1>8, <2>1 DEF GcMark
  <2>3. o \in Obj /\ Tail(traces[closing]) \in Seq(Obj)
    BY <2>2
  <2>4. traces' \in [Frames -> Seq(Obj)]
    BY <1>8, <2>1, <2>3 DEF GcMark
  <2>5. flag' \in SUBSET Obj /\ reset' \in SUBSET Obj /\ perm' \in SUBSET Obj
    BY <1>8, <2>3, WalkStart DEF GcMark, MarkPermanent, MarkTransient
  <2> QED
    BY <1>8, <2>4, <2>5 DEF GcMark
<1>9. CASE GcSweep
  <2>1. closing \in Frames /\ frame \in Frames /\ frame # 0
    BY <1>9 DEF GcSweep, closing
  <2>a. ASSUME NEW o \in Obj
        PROVE  table[closing][o] \in Nat /\ table[frame][o] \in Nat
    BY <2>1
  <2> DEFINE moved == [o \in Obj |-> IF o \in flag
                                    THEN table[frame][o] + table[closing][o]
                                    ELSE table[frame][o]]
  <2>b. moved \in [Obj -> Nat] /\ Empty \in [Obj -> Nat]
    BY <2>a DEF Empty
  <2>c. table' = [k \in Frames |-> IF k = closing THEN Empty
                                  ELSE IF k = frame THEN moved ELSE table[k]]
    BY <1>9 DEF GcSweep
  <2>2. table' \in [Frames -> [Obj -> Nat]]
    <3> HIDE DEF moved
    <3> QED  BY <2>b, <2>c
  <2>3. freed' \in [Obj -> Nat]
    <3> DEFINE sum == [o \in Obj |-> IF o \in Reclaimed
                                    THEN freed[o] + table[closing][o]
                                    ELSE freed[o]]
    <3>1. sum \in [Obj -> Nat]
      BY <2>a
    <3> QED
      BY <1>9, <3>1 DEF GcSweep
  <2>4. refs' \in [Obj -> SUBSET Obj]
    BY <1>9 DEF GcSweep, Emptied
  <2> QED
    BY <1>9, <2>1, <2>2, <2>3, <2>4 DEF GcSweep
<1>10. CASE GcCleanLast
    BY <1>10 DEF GcCleanLast, Emptied, Empty
<1>11. CASE Abort
    BY <1>11 DEF Abort
<1>12. CASE FreeRuntime
    BY <1>12 DEF FreeRuntime, Empty
<1>13. CASE UNCHANGED vars
    BY <1>13 DEF vars
<1> QED
    BY <1>1, <1>2, <1>3, <1>4, <1>5, <1>6, <1>7, <1>8, <1>9, <1>10, <1>11,
       <1>12, <1>13 DEF Next

\* Every variable keeps its type, whatever the program does with the heap: in
\* particular heap_frame stays within its arrays and alloc never pops a struct
\* from an empty recycling stack.
THEOREM TypeCorrect == Spec => []TypeOK
<1>1. Init => TypeOK
    BY TypeInit
<1>2. TypeOK /\ [Next]_vars => TypeOK'
    BY TypeStep
<1> QED
    BY <1>1, <1>2, PTL DEF Spec

-----------------------------------------------------------------------------
(***************************************************************************)
(* The table of heap objects.  TableExact and StructAccounting need each   *)
(* other: a fresh struct is in no frame because it was not malloc'd, and a *)
(* struct the sweep recycles was alive because the table listed it.        *)
(***************************************************************************)

\* Steps that leave the table alone keep it exact, whichever frames they open
\* or begin to close.
LEMMA TableKept ==
    ASSUME TypeOK, TableExact, UNCHANGED <<table, reg>>,
           phase \in {"run", "mark"}, Top' \in Nat, Top \in Nat, Top <= Top'
    PROVE  TableExact'
<1>1. ASSUME NEW k \in Frames, k <= Top
      PROVE  k <= Top'
    BY <1>1 DEF Frames
<1> QED
    BY <1>1 DEF TableExact

LEMMA TableInit == Init => TableExact
BY DEF Init, TableExact, Empty

LEMMA TableStep ==
    ASSUME TypeOK, TableExact, StructAccounting, [Next]_vars
    PROVE  TableExact'
<1>1. ASSUME NEW o \in Obj, AllocRecycled(o)
      PROVE  TableExact'
  <2>1. phase = "run" /\ phase' = "run" /\ frame' = frame /\ frame \in Frames
        /\ Top = frame /\ Top' = frame
    BY <1>1 DEF AllocRecycled, TypeOK, Frames, Top
  <2>2. CASE o \in reg
    BY <1>1, <2>1, <2>2 DEF AllocRecycled, Registered, Refreshed, TableExact
  <2>3. CASE o \notin reg
    <3>1. \A k \in Frames : table[k][o] = 0
      BY <2>1, <2>3 DEF TableExact, TypeOK
    <3>2. table' = [table EXCEPT ![frame][o] = @ + 1] /\ reg' = reg \cup {o}
      BY <1>1, <2>3 DEF AllocRecycled, Registered, Refreshed
    <3> QED
      BY <2>1, <3>1, <3>2 DEF TableExact, TypeOK
  <2> QED
    BY <2>2, <2>3
<1>2. ASSUME NEW o \in Obj, AllocFresh(o)
      PROVE  TableExact'
  <2>1. phase = "run" /\ phase' = "run" /\ frame' = frame /\ frame \in Frames
        /\ Top = frame /\ Top' = frame
    BY <1>2 DEF AllocFresh, TypeOK, Frames, Top
  <2>2. o \notin reg
    BY <1>2, <2>1 DEF AllocFresh, StructAccounting
  <2>3. \A k \in Frames : table[k][o] = 0
    BY <2>1, <2>2 DEF TableExact, TypeOK
  <2>4. table' = [table EXCEPT ![frame][o] = @ + 1] /\ reg' = reg \cup {o}
    BY <1>2 DEF AllocFresh, Refreshed
  <2> QED
    BY <2>1, <2>3, <2>4 DEF TableExact, TypeOK
<1>3. ASSUME NEW o \in Obj, NEW v \in Obj, Store(o, v)
      PROVE  TableExact'
    BY <1>3, TableKept DEF Store, Top, TypeOK
<1>4. ASSUME NEW o \in Obj, Free(o)
      PROVE  TableExact'
    BY <1>4, TableKept DEF Free, Top, TypeOK
<1>5. CASE GcNewFrame
    BY <1>5, TableKept DEF GcNewFrame, Top, TypeOK
<1>6. ASSUME NEW o \in Obj, NEW f \in {0, 1}, GcTrace(o, f)
      PROVE  TableExact'
    BY <1>6, TableKept DEF GcTrace, Top, TypeOK
<1>7. CASE GcCleanBegin
    BY <1>7, TableKept DEF GcCleanBegin, Top, closing, TypeOK
<1>8. CASE GcMark
    BY <1>8, TableKept DEF GcMark, Top, closing, TypeOK
<1>9. CASE GcSweep
  <2>1. /\ frame \in Frames /\ closing \in Frames /\ closing # frame
        /\ Top = closing /\ Top' = frame /\ closing = frame + 1
        /\ frame \in Nat /\ phase' = "run"
    BY <1>9, FrameLimitAssumption DEF GcSweep, TypeOK, Frames, Top, closing
  <2> DEFINE into(o) == IF o \in flag THEN table[frame][o] + table[closing][o]
                                      ELSE table[frame][o]
  <2>2. ASSUME NEW o \in Obj
        PROVE  /\ table'[closing][o] = 0
               /\ table'[frame][o] = into(o)
               /\ \A k \in Frames \ {frame, closing} : table'[k][o] = table[k][o]
    BY <1>9, <2>1 DEF GcSweep, Empty
  <2>3. reg' = reg \ Dropped
    BY <1>9 DEF GcSweep
  <2> SUFFICES ASSUME NEW o \in Obj
               PROVE  /\ o \in reg' <=> \E k \in Frames : table'[k][o] > 0
                      /\ \A k \in Frames : table'[k][o] > 0 =>
                                table'[k][o] = 1 /\ k <= frame
                      /\ \A k, l \in Frames :
                                table'[k][o] > 0 /\ table'[l][o] > 0 => k = l
    BY <2>1 DEF TableExact
  <2>4. /\ o \in reg <=> \E k \in Frames : table[k][o] > 0
        /\ \A k \in Frames : table[k][o] > 0 => table[k][o] = 1 /\ k <= closing
        /\ \A k, l \in Frames : table[k][o] > 0 /\ table[l][o] > 0 => k = l
    BY <1>9, <2>1 DEF GcSweep, TableExact
  <2>5. \A k \in Frames : table[k][o] \in Nat
    BY DEF TypeOK
  <2>6. \A k \in Frames \ {closing} : k <= closing => k <= frame
    BY <2>1 DEF Frames
  <2>7. CASE table[closing][o] = 0
    <3>1. o \notin Dropped /\ into(o) = table[frame][o]
      BY <2>1, <2>5, <2>7 DEF Dropped
    <3>2. \A k \in Frames : table'[k][o] = table[k][o]
      BY <2>1, <2>2, <2>7, <3>1
    <3> QED
      BY <2>1, <2>3, <2>4, <2>5, <2>6, <2>7, <3>1, <3>2
  <2>8. CASE table[closing][o] > 0
    <3>1. /\ table[closing][o] = 1 /\ o \in reg
          /\ \A k \in Frames \ {closing} : table[k][o] = 0
      BY <2>1, <2>4, <2>5, <2>8
    <3>2. CASE o \in flag
      <4>1. o \notin Dropped /\ into(o) = 1
        BY <2>1, <3>1, <3>2 DEF Dropped
      <4>2. \A k \in Frames : table'[k][o] = IF k = frame THEN 1 ELSE 0
        BY <2>1, <2>2, <3>1, <4>1
      <4> QED
        BY <2>1, <2>3, <3>1, <4>1, <4>2
    <3>3. CASE o \notin flag
      <4>1. o \in Dropped /\ into(o) = 0
        BY <2>1, <2>8, <3>1, <3>3 DEF Dropped
      <4>2. \A k \in Frames : table'[k][o] = 0
        BY <2>1, <2>2, <3>1, <4>1
      <4> QED
        BY <2>1, <2>3, <4>1, <4>2
    <3> QED
      BY <3>2, <3>3
  <2>9. table[closing][o] \in Nat
    BY <2>1, <2>5
  <2> QED
    BY <2>7, <2>8, <2>9
<1>10. CASE GcCleanLast
    BY <1>10 DEF GcCleanLast, TableExact
<1>11. CASE Abort
    BY <1>11, TableKept DEF Abort, Top, TypeOK
<1>12. CASE FreeRuntime
    BY <1>12 DEF FreeRuntime, TableExact
<1>13. CASE UNCHANGED vars
    BY <1>13 DEF vars, TableExact, Top, closing
<1> QED
    BY <1>1, <1>2, <1>3, <1>4, <1>5, <1>6, <1>7, <1>8, <1>9, <1>10, <1>11,
       <1>12, <1>13 DEF Next

\* Steps that leave the structs alone keep them accounted for.
LEMMA AccountingKept ==
    ASSUME StructAccounting, UNCHANGED <<mallocd, freed, reg, pre>>,
           phase \in {"run", "mark"}, phase' # "ended"
    PROVE  StructAccounting'
BY DEF StructAccounting

LEMMA AccountingInit == Init => StructAccounting
BY DEF Init, StructAccounting, Empty

LEMMA AccountingStep ==
    ASSUME TypeOK, TableExact, StructAccounting, [Next]_vars
    PROVE  StructAccounting'
<1>1. ASSUME NEW o \in Obj, AllocRecycled(o)
      PROVE  StructAccounting'
  <2>1. phase = "run" /\ phase' = "run"
    BY <1>1 DEF AllocRecycled
  <2>2. /\ mallocd' = mallocd /\ reg' = reg \cup {o} /\ pre' = pre \ {o}
        /\ freed' = [freed EXCEPT ![o] = @ - 1]
    BY <1>1 DEF AllocRecycled, Refreshed
  <2>3. freed[o] = 1 /\ o \in mallocd
    BY <1>1, <2>1 DEF AllocRecycled, StructAccounting, TypeOK
  <2> QED
    BY <2>1, <2>2, <2>3 DEF StructAccounting, TypeOK
<1>2. ASSUME NEW o \in Obj, AllocFresh(o)
      PROVE  StructAccounting'
  <2>1. phase = "run" /\ phase' = "run" /\ freed[o] = 0
    BY <1>2 DEF AllocFresh
  <2>2. /\ mallocd' = mallocd \cup {o} /\ reg' = reg \cup {o}
        /\ pre' = pre \ {o} /\ freed' = freed
    BY <1>2 DEF AllocFresh, Refreshed
  <2> QED
    BY <2>1, <2>2 DEF StructAccounting, TypeOK
<1>3. ASSUME NEW o \in Obj, NEW v \in Obj, Store(o, v)
      PROVE  StructAccounting'
    BY <1>3, AccountingKept DEF Store
<1>4. ASSUME NEW o \in Obj, Free(o)
      PROVE  StructAccounting'
  <2> DEFINE dead == IF o \in pre \cup flag THEN {} ELSE Walk(o, pre \cup flag)
  <2>1. phase = "run" /\ phase' = "run" /\ mallocd' = mallocd /\ reg' = reg
    BY <1>4 DEF Free
  <2>2. /\ \A x \in dead : x \in mallocd /\ freed[x] = 0
        /\ pre' = pre \cup dead
        /\ freed' = [x \in Obj |-> IF x \in dead THEN freed[x] + 1 ELSE freed[x]]
    BY <1>4 DEF Free, Allocated
  <2> HIDE DEF dead
  <2> QED
    BY <2>1, <2>2 DEF StructAccounting, TypeOK
<1>5. CASE GcNewFrame
    BY <1>5, AccountingKept DEF GcNewFrame
<1>6. ASSUME NEW o \in Obj, NEW f \in {0, 1}, GcTrace(o, f)
      PROVE  StructAccounting'
    BY <1>6, AccountingKept DEF GcTrace
<1>7. CASE GcCleanBegin
    BY <1>7, AccountingKept DEF GcCleanBegin
<1>8. CASE GcMark
    BY <1>8, AccountingKept DEF GcMark
<1>9. CASE GcSweep
  <2>1. /\ phase = "mark" /\ phase' = "run" /\ closing \in Frames
        /\ mallocd' = mallocd /\ reg' = reg \ Dropped /\ pre' = pre
    BY <1>9, FrameLimitAssumption DEF GcSweep, closing, Frames, TypeOK
  <2>2. freed' = [o \in Obj |-> IF o \in Reclaimed
                                THEN freed[o] + table[closing][o]
                                ELSE freed[o]]
    BY <1>9 DEF GcSweep
  <2>3. ASSUME NEW o \in Reclaimed
        PROVE  /\ o \in Dropped /\ o \in mallocd
               /\ freed[o] = 0 /\ table[closing][o] = 1
    <3>1. o \in Obj /\ table[closing][o] > 0 /\ o \notin pre /\ o \in Dropped
      BY DEF Reclaimed, Dropped
    <3>2. o \in reg /\ table[closing][o] = 1
      BY <2>1, <3>1 DEF TableExact
    <3> QED
      BY <2>1, <3>1, <3>2 DEF StructAccounting
  <2>4. \A o \in Dropped \ Reclaimed : o \in pre
    BY DEF Reclaimed
  <2> QED
    BY <2>1, <2>2, <2>3, <2>4 DEF StructAccounting, TypeOK
<1>10. CASE GcCleanLast
  <2>1. /\ phase = "run" /\ frame = 1 /\ phase' = "ended" /\ freed' = freed
        /\ mallocd' = mallocd \ {o \in Obj : table[1][o] > 0 /\ o \notin pre}
    BY <1>10 DEF GcCleanLast
  <2>2. ASSUME NEW o \in mallocd'
        PROVE  freed[o] > 0
    <3>1. o \in Obj /\ o \in mallocd /\ (table[1][o] > 0 => o \in pre)
      BY <2>1 DEF TypeOK
    <3>2. o \in reg => table[1][o] > 0
      BY <2>1, <3>1 DEF TableExact, Top, Frames
    <3>3. freed[o] \in Nat /\ freed[o] # 0
      BY <2>1, <3>1, <3>2 DEF StructAccounting, TypeOK
    <3> QED
      BY <3>3
  <2> QED
    BY <2>1, <2>2 DEF StructAccounting
<1>11. CASE Abort
    BY <1>11, AccountingKept DEF Abort
<1>12. CASE FreeRuntime
    BY <1>12 DEF FreeRuntime, StructAccounting
<1>13. CASE UNCHANGED vars
    BY <1>13 DEF vars, StructAccounting
<1> QED
    BY <1>1, <1>2, <1>3, <1>4, <1>5, <1>6, <1>7, <1>8, <1>9, <1>10, <1>11,
       <1>12, <1>13 DEF Next

-----------------------------------------------------------------------------
(***************************************************************************)
(* Flags.  A flag protects only objects whose registers are allocated, and *)
(* every flag is on some record from which it will be cleared or which     *)
(* makes it permanent.                                                     *)
(***************************************************************************)
LEMMA FlagsInit == Init => FlaggedAlive /\ NoStrayFlag /\ MarkClosed
BY DEF Init, FlaggedAlive, NoStrayFlag, MarkClosed

LEMMA FlaggedAliveStep ==
    ASSUME TypeOK, TableExact, StructAccounting, FlaggedAlive, [Next]_vars
    PROVE  FlaggedAlive'
<1>1. ASSUME NEW o \in Obj, AllocRecycled(o)
      PROVE  FlaggedAlive'
    BY <1>1 DEF AllocRecycled, Refreshed, FlaggedAlive, Allocated, TypeOK
<1>2. ASSUME NEW o \in Obj, AllocFresh(o)
      PROVE  FlaggedAlive'
    BY <1>2 DEF AllocFresh, Refreshed, FlaggedAlive, Allocated, TypeOK
<1>3. ASSUME NEW o \in Obj, NEW v \in Obj, Store(o, v)
      PROVE  FlaggedAlive'
    BY <1>3 DEF Store, FlaggedAlive, Allocated
<1>4. ASSUME NEW o \in Obj, Free(o)
      PROVE  FlaggedAlive'
  <2> DEFINE dead == IF o \in pre \cup flag THEN {} ELSE Walk(o, pre \cup flag)
  <2>1. dead \cap flag = {}
    <3>1. refs \in [Obj -> SUBSET Obj]
      BY DEF TypeOK
    <3>2. Walk(o, pre \cup flag) \cap (pre \cup flag) \subseteq {o}
      BY <3>1, WalkAvoids
    <3> QED
      BY <3>2
  <2>2. /\ phase = "run" /\ flag' = flag /\ mallocd' = mallocd
        /\ freed' = [x \in Obj |-> IF x \in dead THEN freed[x] + 1 ELSE freed[x]]
    BY <1>4 DEF Free
  <2> HIDE DEF dead
  <2> QED
    BY <2>1, <2>2 DEF FlaggedAlive, Allocated, TypeOK
<1>5. CASE GcNewFrame
    BY <1>5 DEF GcNewFrame, FlaggedAlive, Allocated
<1>6. ASSUME NEW o \in Obj, NEW f \in {0, 1}, GcTrace(o, f)
      PROVE  FlaggedAlive'
    BY <1>6 DEF GcTrace, FlaggedAlive, Allocated
<1>7. CASE GcCleanBegin
    BY <1>7 DEF GcCleanBegin, FlaggedAlive, Allocated
<1>8. CASE GcMark
    BY <1>8 DEF GcMark, MarkPermanent, MarkTransient, FlaggedAlive, Allocated
<1>9. CASE GcSweep
    BY <1>9 DEF GcSweep, FlaggedAlive, Allocated, Reclaimed, Dropped, TypeOK
<1>10. CASE GcCleanLast
    BY <1>10 DEF GcCleanLast, FlaggedAlive
<1>11. CASE Abort
    BY <1>11 DEF Abort, FlaggedAlive
<1>12. CASE FreeRuntime
    BY <1>12 DEF FreeRuntime, FlaggedAlive
<1>13. CASE UNCHANGED vars
    BY <1>13 DEF vars, FlaggedAlive, Allocated
<1> QED
    BY <1>1, <1>2, <1>3, <1>4, <1>5, <1>6, <1>7, <1>8, <1>9, <1>10, <1>11,
       <1>12, <1>13 DEF Next

\* Taking the first entry off a frame's part of heap_traces loses the record
\* of no object but that one.
LEMMA RecordedTail ==
    ASSUME TypeOK, NEW k \in Frames, traces[k] # << >>,
           traces' = [traces EXCEPT ![k] = Tail(@)]
    PROVE  Recorded \subseteq Recorded' \cup {Head(traces[k])}
<1> SUFFICES ASSUME NEW o \in Obj, NEW l \in Frames,
                    NEW i \in DOMAIN traces[l], traces[l][i] = o
             PROVE  o \in Recorded' \cup {Head(traces[k])}
    BY DEF Recorded
<1>1. CASE l # k
    BY <1>1 DEF Recorded, TypeOK
<1>2. CASE l = k /\ i = 1
    BY <1>2 DEF TypeOK
<1>3. CASE l = k /\ i # 1
  <2>1. traces[k] \in Seq(Obj) /\ traces'[k] = Tail(traces[k])
    BY DEF TypeOK
  <2>2. i - 1 \in DOMAIN Tail(traces[k]) /\ Tail(traces[k])[i - 1] = o
    BY <1>3, <2>1
  <2> QED
    BY <2>1, <2>2 DEF Recorded
<1> QED
    BY <1>1, <1>2, <1>3

\* Recording o with a frame keeps the records there are.
LEMMA RecordedAppend ==
    ASSUME TypeOK, NEW k \in Frames, NEW o \in Obj,
           traces' = [traces EXCEPT ![k] = Append(@, o)]
    PROVE  Recorded \cup {o} \subseteq Recorded'
<1>1. traces[k] \in Seq(Obj) /\ traces'[k] = Append(traces[k], o)
    BY DEF TypeOK
<1>2. o \in Recorded'
  <2>1. /\ Len(traces[k]) + 1 \in DOMAIN Append(traces[k], o)
        /\ Append(traces[k], o)[Len(traces[k]) + 1] = o
    BY <1>1
  <2> QED
    BY <1>1, <2>1 DEF Recorded
<1>3. ASSUME NEW x \in Obj, NEW l \in Frames,
             NEW i \in DOMAIN traces[l], traces[l][i] = x
      PROVE  x \in Recorded'
  <2>1. CASE l # k
    BY <1>3, <2>1 DEF Recorded, TypeOK
  <2>2. CASE l = k
    <3>1. i \in DOMAIN Append(traces[k], o) /\ Append(traces[k], o)[i] = x
      BY <1>1, <1>3, <2>2
    <3> QED
      BY <1>1, <3>1 DEF Recorded
  <2> QED
    BY <2>1, <2>2
<1> QED
    BY <1>2, <1>3 DEF Recorded

LEMMA NoStrayFlagStep ==
    ASSUME TypeOK, NoStrayFlag, [Next]_vars
    PROVE  NoStrayFlag'
<1>1. ASSUME NEW o \in Obj, AllocRecycled(o)
      PROVE  NoStrayFlag'
    BY <1>1 DEF AllocRecycled, Refreshed, NoStrayFlag, Recorded
<1>2. ASSUME NEW o \in Obj, AllocFresh(o)
      PROVE  NoStrayFlag'
    BY <1>2 DEF AllocFresh, Refreshed, NoStrayFlag, Recorded
<1>3. ASSUME NEW o \in Obj, NEW v \in Obj, Store(o, v)
      PROVE  NoStrayFlag'
    BY <1>3 DEF Store, NoStrayFlag, Recorded
<1>4. ASSUME NEW o \in Obj, Free(o)
      PROVE  NoStrayFlag'
    BY <1>4 DEF Free, NoStrayFlag, Recorded
<1>5. CASE GcNewFrame
    BY <1>5 DEF GcNewFrame, NoStrayFlag, Recorded
<1>6. ASSUME NEW o \in Obj, NEW f \in {0, 1}, GcTrace(o, f)
      PROVE  NoStrayFlag'
  <2>1. frame \in Frames
    BY <1>6 DEF GcTrace, TypeOK, Frames
  <2>2. Recorded \cup {o} \subseteq Recorded'
    BY <1>6, <2>1, RecordedAppend DEF GcTrace
  <2> QED
    BY <1>6, <2>2 DEF GcTrace, NoStrayFlag
<1>7. CASE GcCleanBegin
    BY <1>7 DEF GcCleanBegin, NoStrayFlag, Recorded
<1>8. CASE GcMark
  <2> DEFINE o == Head(traces[closing])
  <2>1. phase = "mark" /\ phase' = "mark" /\ closing \in Frames
    BY <1>8, FrameLimitAssumption DEF GcMark, closing, Frames, TypeOK
  <2>2. traces[closing] \in Seq(Obj) /\ traces[closing] # << >> /\ o \in Obj
    BY <1>8, <2>1 DEF GcMark, TypeOK
  <2>3. Recorded \subseteq Recorded' \cup {o}
    BY <1>8, <2>1, <2>2, RecordedTail DEF GcMark
  <2>4. CASE MarkPermanent(o)
    <3>1. o \in Walk(o, flag \ {o})
      BY <2>2, WalkStart
    <3> QED
      BY <2>1, <2>3, <2>4, <3>1 DEF MarkPermanent, NoStrayFlag
  <2>5. CASE MarkTransient(o)
    BY <2>1, <2>3, <2>5 DEF MarkTransient, NoStrayFlag
  <2> QED
    BY <1>8, <2>4, <2>5 DEF GcMark
<1>9. CASE GcSweep
    BY <1>9 DEF GcSweep, NoStrayFlag, Recorded
<1>10. CASE GcCleanLast
    BY <1>10 DEF GcCleanLast, NoStrayFlag
<1>11. CASE Abort
    BY <1>11 DEF Abort, NoStrayFlag
<1>12. CASE FreeRuntime
    BY <1>12 DEF FreeRuntime, NoStrayFlag
<1>13. CASE UNCHANGED vars
    BY <1>13 DEF vars, NoStrayFlag, Recorded
<1> QED
    BY <1>1, <1>2, <1>3, <1>4, <1>5, <1>6, <1>7, <1>8, <1>9, <1>10, <1>11,
       <1>12, <1>13 DEF Next

LEMMA MarkClosedStep ==
    ASSUME TypeOK, MarkClosed, [Next]_vars
    PROVE  MarkClosed'
<1>1. CASE GcCleanBegin
    BY <1>1 DEF GcCleanBegin, MarkClosed
<1>2. CASE GcMark
  <2> DEFINE o == Head(traces[closing])
  <2>1. phase = "mark" /\ closing \in Frames /\ refs' = refs
        /\ refs \in [Obj -> SUBSET Obj]
    BY <1>2, FrameLimitAssumption DEF GcMark, closing, Frames, TypeOK
  <2>2. o \in Obj
    BY <1>2, <2>1 DEF GcMark, TypeOK
  <2>3. CASE MarkPermanent(o)
    BY <2>1, <2>3 DEF MarkPermanent, MarkClosed
  <2>4. CASE MarkTransient(o)
    <3>1. flag' = flag \cup Walk(o, flag) /\ reset' = reset \cup Walk(o, flag)
      BY <2>4 DEF MarkTransient
    <3>2. \A x \in Walk(o, flag) : refs[x] \subseteq flag'
      BY <2>1, <2>2, <3>1, WalkClosed
    <3> QED
      BY <2>1, <3>1, <3>2 DEF MarkClosed
  <2> QED
    BY <1>2, <2>3, <2>4 DEF GcMark
<1>3. CASE UNCHANGED vars
    BY <1>3 DEF vars, MarkClosed
<1>4. CASE ~GcCleanBegin /\ ~GcMark /\ Next
    \* No other step is taken in, or leads into, the marking loop.
    BY <1>4 DEF Next, AllocRecycled, AllocFresh, Store, Free, GcNewFrame,
                GcTrace, GcSweep, GcCleanLast, Abort, FreeRuntime, MarkClosed
<1> QED
    BY <1>1, <1>2, <1>3, <1>4

-----------------------------------------------------------------------------
(* The inductive invariant, and what follows from it.                      *)

IInv ==
    /\ TypeOK
    /\ TableExact
    /\ StructAccounting
    /\ FlaggedAlive
    /\ NoStrayFlag
    /\ MarkClosed

\* The conjuncts of IInv hold together in every reachable state.
THEOREM Invariance == Spec => []IInv
<1>1. Init => IInv
    BY TypeInit, TableInit, AccountingInit, FlagsInit DEF IInv
<1>2. IInv /\ [Next]_vars => IInv'
    BY TypeStep, TableStep, AccountingStep, FlaggedAliveStep, NoStrayFlagStep,
       MarkClosedStep DEF IInv
<1> QED
    BY <1>1, <1>2, PTL DEF Spec

\* heap_allocs lists a struct exactly when reg_with_table says so, once, in one
\* open frame, for any number of structs and frames.
THEOREM TableCorrect == Spec => []TableExact
BY Invariance, PTL DEF IInv

\* alloc hands out no struct that is in use, and no struct is recycled twice.
THEOREM AccountingCorrect == Spec => []StructAccounting
BY Invariance, PTL DEF IInv

\* An object with a gc_flag is never released while the program runs.
THEOREM FlagsProtect == Spec => []FlaggedAlive
BY Invariance, PTL DEF IInv

\* trace leaves no gc_flag behind.
THEOREM FlagsAccounted == Spec => []NoStrayFlag
BY Invariance, PTL DEF IInv

\* What the marking loop keeps refers only to what it keeps.
THEOREM MarkingClosed == Spec => []MarkClosed
BY Invariance, PTL DEF IInv

\* A program that runs to its end gives every struct back to malloc.
THEOREM CleanExit == Spec => ExitsClean
<1>1. IInv /\ [Next]_vars
        => [phase = "ended" /\ phase' = "exited" => mallocd' = {}]_vars
  <2> SUFFICES ASSUME IInv, Next, phase = "ended", phase' = "exited"
               PROVE  mallocd' = {}
    BY DEF vars
  <2>1. FreeRuntime
    BY DEF Next, AllocRecycled, AllocFresh, Store, Free, GcNewFrame, GcTrace,
           GcCleanBegin, GcMark, GcSweep, GcCleanLast, Abort
  <2>2. mallocd' = {o \in mallocd : freed[o] = 0}
    BY <2>1 DEF FreeRuntime
  <2>3. \A o \in mallocd : freed[o] > 0
    BY DEF IInv, StructAccounting
  <2> QED
    BY <2>2, <2>3
<1> QED
    BY <1>1, Invariance, PTL DEF Spec, ExitsClean
=============================================================================
