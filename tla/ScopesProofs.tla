---------------------------- MODULE ScopesProofs ----------------------------
(***************************************************************************)
(* Proofs about Scopes and the MultiScanner under it, for any files, any   *)
(* programs and any limits: a name is resolved to the one variable it can  *)
(* mean, no two variables share a slot, no slot lies outside the arrays it *)
(* indexes, the text a token points into is in memory, and the parser gets *)
(* to the end of the files in the middle of a block only if they open more *)
(* blocks than they close.                                                 *)
(***************************************************************************)
EXTENDS Scopes, FiniteSetTheorems, TLAPS

-----------------------------------------------------------------------------
(* The inductive invariant of the symbol tables.                           *)

Entry == [name : Name, decl : Nat]
Decl == [name : Name, is_global : BOOLEAN, block : Nat, proc : Nat, scope_id : Nat]
ParserFrame == [locals : Seq(Entry), nested : BOOLEAN, scoped : Nat, max : Nat,
                return_type : BOOLEAN, block : Nat, proc : Nat, word : Word \cup {EOF}]
Tables == [frames : Seq(ParserFrame), globals : Seq(Entry), decls : Seq(Decl), scope_size : Seq(Nat)]

\* No frame without a parent stands between the two.
Linked(fs, i, j) == \A k \in i + 1 .. j : fs[k].nested

\* Blocks are numbered in the order they are opened; a frame belongs to the
\* procedure of the first frame below it that has no parent.
NestedWell(fs, blocks, j) ==
  LET f == fs[j]
  IN  /\ f.block \in 1 .. blocks
      /\ ~f.nested => f.proc = f.block
      /\ f.return_type <=> f.proc # 1
      /\ j # 1 => f.word \in Word
      /\ \E i \in 1 .. j : ~fs[i].nested /\ fs[i].block = f.proc
      /\ \A i \in 1 .. j - 1 : fs[i].block < f.block
      /\ \A i \in 1 .. j : Linked(fs, i, j) <=> fs[i].proc = f.proc
Nesting(ps) ==
  /\ 1 \in DOMAIN ps.frames => ~ps.frames[1].nested /\ ps.frames[1].proc = 1
  /\ \A j \in DOMAIN ps.frames : NestedWell(ps.frames, Len(ps.scope_size), j)

\* What the tables of a frame and of the globals hold of a variable, ...
LocalOK(decls, f, e) ==
  LET d == decls[e.decl]
  IN  /\ e.decl \in DOMAIN decls
      /\ d.name = e.name
      /\ ~d.is_global
      /\ d.block = f.block /\ d.proc = f.proc
      /\ d.scope_id < f.scoped
LocalsOK(decls, f) == \A i \in DOMAIN f.locals : LocalOK(decls, f, f.locals[i])
GlobalsOK(decls, globals) ==
  \A i \in DOMAIN globals :
    LET d == decls[globals[i].decl]
    IN  /\ globals[i].decl \in DOMAIN decls
        /\ d.name = globals[i].name
        /\ d.is_global
        /\ d.scope_id = i - 1

\* ... and that they hold all that can be meant.
Lists(entries, d) == \E i \in DOMAIN entries : entries[i].decl = d
AllListed(ps) ==
  \A d \in DOMAIN ps.decls :
    LET e == ps.decls[d]
    IN  /\ e.block \in 1 .. Len(ps.scope_size)
        /\ e.proc \in 1 .. Len(ps.scope_size)
        /\ e.is_global => Lists(ps.globals, d)
        /\ \A j \in DOMAIN ps.frames :
            ~e.is_global /\ e.block = ps.frames[j].block => Lists(ps.frames[j].locals, d)

\* A frame gives out slots that its locals and the frames around it do not use.
OwnSlots(decls, f) ==
  \A i, k \in DOMAIN f.locals :
    decls[f.locals[i].decl].scope_id = decls[f.locals[k].decl].scope_id => i = k
Above(decls, f, g) ==
  /\ f.scoped <= g.scoped
  /\ \A k \in DOMAIN g.locals : decls[g.locals[k].decl].scope_id >= f.scoped

\* No name is declared twice where it can be seen.
Distinct(entries) == \A k, l \in DOMAIN entries : entries[k].name = entries[l].name => k = l
Differ(s, t) == \A k \in DOMAIN s, l \in DOMAIN t : s[k].name # t[l].name

Tidy(ps) ==
  LET fs == ps.frames
  IN  /\ Distinct(ps.globals)
      /\ \A j \in DOMAIN fs :
          /\ LocalsOK(ps.decls, fs[j])
          /\ OwnSlots(ps.decls, fs[j])
          /\ Distinct(fs[j].locals)
          /\ Differ(fs[j].locals, ps.globals)
          /\ \A i \in 1 .. j - 1 :
              fs[i].proc = fs[j].proc =>
                Above(ps.decls, fs[i], fs[j]) /\ Differ(fs[i].locals, fs[j].locals)

\* The slots of a procedure are counted: by one of its open frames, or when it
\* was closed.
SlotsCounted(ps) ==
  LET fs == ps.frames
  IN  \A d \in DOMAIN ps.decls :
        LET e == ps.decls[d]
        IN  ~e.is_global =>
            /\ \A j \in DOMAIN fs : fs[j].nested => fs[j].block # e.proc
            /\ \/ \E j \in DOMAIN fs : fs[j].proc = e.proc /\ e.scope_id < fs[j].max
               \/ /\ \A j \in DOMAIN fs : fs[j].proc # e.proc
                  /\ e.scope_id < ps.scope_size[e.proc]

PInv(ps) ==
  /\ ps \in Tables
  /\ Nesting(ps)
  /\ GlobalsOK(ps.decls, ps.globals)
  /\ AllListed(ps)
  /\ Tidy(ps)
  /\ SlotsCounted(ps)

-----------------------------------------------------------------------------
(* Frames that differ in their locals and counters only.                   *)

Alike(f, g) ==
  /\ f.nested = g.nested /\ f.block = g.block /\ f.proc = g.proc
  /\ f.return_type = g.return_type /\ f.word = g.word

LEMMA SameNesting ==
  ASSUME NEW fs, NEW hs, NEW s \in Nat, NEW t \in Nat, s <= t, NEW j \in Nat \ {0},
         \A i \in 1 .. j : Alike(hs[i], fs[i]), NestedWell(fs, s, j)
  PROVE  NestedWell(hs, t, j)
<1>1. j \in 1 .. j /\ \A i \in 1 .. j - 1 : i \in 1 .. j
  OBVIOUS
<1>2. \A i \in 1 .. j : Linked(hs, i, j) <=> Linked(fs, i, j)
  <2>1. \A i \in 1 .. j : \A k \in i + 1 .. j : k \in 1 .. j
    OBVIOUS
  <2> QED BY <2>1 DEF Linked, Alike
<1>3. \A b \in 1 .. s : b \in 1 .. t
  OBVIOUS
<1> QED BY <1>1, <1>2, <1>3 DEF NestedWell, Alike

-----------------------------------------------------------------------------
(* ast_parser_new_frame                                                    *)

\* What the tables look like with one frame more.
Deeper(h, ps, nested, word) ==
  LET n == Len(ps.frames)
      s == Len(ps.scope_size)
      g == ps.frames[n]
      f == h.frames[n + 1]
  IN  /\ h \in Tables /\ n \in Nat /\ n >= 1 /\ s \in Nat
      /\ DOMAIN ps.frames = 1 .. n /\ DOMAIN h.frames = 1 .. n + 1
      /\ \A i \in 1 .. n : h.frames[i] = ps.frames[i]
      /\ Len(h.scope_size) = s + 1
      /\ \A i \in 1 .. s : h.scope_size[i] = ps.scope_size[i]
      /\ h.globals = ps.globals /\ h.decls = ps.decls
      /\ f.locals = << >> /\ f.nested = nested /\ f.block = s + 1 /\ f.word = word
      /\ nested => /\ f.scoped = g.scoped /\ f.max = g.max /\ f.proc = g.proc
                   /\ f.return_type = g.return_type
      /\ ~nested => f.scoped = 0 /\ f.proc = s + 1 /\ f.return_type = TRUE

LEMMA NewFrameIs ==
  ASSUME NEW ps \in Tables, ps.frames # << >>, NEW nested \in BOOLEAN, NEW word \in Word
  PROVE  Deeper(NewFrame(ps, nested, word), ps, nested, word)
<1> DEFINE n == Len(ps.frames)
           s == Len(ps.scope_size)
           g == ps.frames[n]
           f == IF nested
                THEN [g EXCEPT !.locals = << >>, !.nested = TRUE, !.block = s + 1, !.word = word]
                ELSE Outermost(s + 1, TRUE, word)
           h == NewFrame(ps, nested, word)
<1>1. /\ ps.frames \in Seq(ParserFrame) /\ ps.scope_size \in Seq(Nat)
      /\ n \in Nat /\ n >= 1 /\ s \in Nat
      /\ DOMAIN ps.frames = 1 .. n /\ DOMAIN ps.scope_size = 1 .. s
  BY DEF Tables
<1>2. g \in ParserFrame
  BY <1>1
<1>3. /\ f \in ParserFrame
      /\ f.locals = << >> /\ f.nested = nested /\ f.block = s + 1 /\ f.word = word
      /\ nested => /\ f.scoped = g.scoped /\ f.max = g.max /\ f.proc = g.proc
                   /\ f.return_type = g.return_type
      /\ ~nested => f.scoped = 0 /\ f.proc = s + 1 /\ f.return_type = TRUE
  <2>1. << >> \in Seq(Entry) /\ s + 1 \in Nat
    BY <1>1
  <2> HIDE DEF g, s
  <2>2. CASE nested
    BY <1>2, <2>1, <2>2 DEF ParserFrame
  <2>3. CASE ~nested
    BY <1>2, <2>1, <2>3 DEF ParserFrame, Outermost
  <2> QED BY <2>2, <2>3
<1>4. h = [ps EXCEPT !.scope_size = Append(ps.scope_size, 0), !.frames = Append(ps.frames, f)]
  BY DEF NewFrame, Top, Tables
<1> HIDE DEF f, g, n, s
<1>5. Append(ps.frames, f) \in Seq(ParserFrame) /\ Append(ps.scope_size, 0) \in Seq(Nat)
  BY <1>1, <1>3
<1>6. /\ h \in Tables /\ h.frames = Append(ps.frames, f)
      /\ h.scope_size = Append(ps.scope_size, 0)
      /\ h.globals = ps.globals /\ h.decls = ps.decls
  <2> HIDE DEF h
  <2> QED BY <1>4, <1>5 DEF Tables
<1> HIDE DEF h
<1>7. /\ DOMAIN h.frames = 1 .. n + 1 /\ h.frames[n + 1] = f
      /\ \A i \in 1 .. n : h.frames[i] = ps.frames[i]
  BY <1>1, <1>6 DEF n
<1>8. /\ Len(h.scope_size) = s + 1
      /\ \A i \in 1 .. s : h.scope_size[i] = ps.scope_size[i]
  BY <1>1, <1>6 DEF s
<1> QED BY <1>1, <1>3, <1>6, <1>7, <1>8 DEF h, n, s, g, Deeper

LEMMA NewFrameInv ==
  ASSUME NEW ps, PInv(ps), ps.frames # << >>, NEW nested \in BOOLEAN, NEW word \in Word
  PROVE  PInv(NewFrame(ps, nested, word))
<1> DEFINE h == NewFrame(ps, nested, word)
           n == Len(ps.frames)
           s == Len(ps.scope_size)
           fs == ps.frames
           hs == h.frames
           f == hs[n + 1]
<1>0. /\ ps \in Tables /\ Nesting(ps) /\ GlobalsOK(ps.decls, ps.globals) /\ AllListed(ps)
      /\ Tidy(ps) /\ SlotsCounted(ps)
  BY DEF PInv
<1>a. Deeper(h, ps, nested, word)
  BY <1>0, NewFrameIs
<1> HIDE DEF h
<1>1. /\ h \in Tables /\ n \in Nat /\ n >= 1 /\ s \in Nat
      /\ DOMAIN fs = 1 .. n /\ DOMAIN hs = 1 .. n + 1
      /\ \A i \in 1 .. n : hs[i] = fs[i]
      /\ Len(h.scope_size) = s + 1
      /\ \A i \in 1 .. s : h.scope_size[i] = ps.scope_size[i]
      /\ h.globals = ps.globals /\ h.decls = ps.decls
      /\ hs[n + 1] = f
      /\ f.locals = << >> /\ f.nested = nested /\ f.block = s + 1 /\ f.word = word
      /\ nested => /\ f.scoped = fs[n].scoped /\ f.max = fs[n].max /\ f.proc = fs[n].proc
                   /\ f.return_type = fs[n].return_type
      /\ ~nested => f.scoped = 0 /\ f.proc = s + 1 /\ f.return_type = TRUE
  BY <1>a DEF Deeper
<1>2. /\ \A j \in 1 .. n + 1 : j \in 1 .. n \/ j = n + 1
      /\ \A j \in 1 .. n : j \in 1 .. n + 1 /\ j # n + 1
      /\ n \in 1 .. n /\ n + 1 \in 1 .. n + 1 /\ n + 1 # 1 /\ n + 1 - 1 = n
      /\ DOMAIN << >> = {}
  BY <1>1
<1>3. \A j \in 1 .. n : fs[j] \in ParserFrame /\ NestedWell(fs, s, j)
  <2>1. fs \in Seq(ParserFrame)
    BY <1>0 DEF Tables
  <2>2. \A j \in 1 .. n : fs[j] \in ParserFrame
    BY <1>1, <2>1
  <2>3. \A j \in 1 .. n : NestedWell(fs, s, j)
    <3> HIDE DEF n
    <3> QED BY <1>0, <1>1 DEF Nesting
  <2> QED BY <2>2, <2>3
<1>4. \A j \in 1 .. n : fs[j].block \in 1 .. s /\ fs[j].proc \in 1 .. s
  <2> SUFFICES ASSUME NEW j \in 1 .. n PROVE fs[j].block \in 1 .. s /\ fs[j].proc \in 1 .. s
    OBVIOUS
  <2>1. \A i \in 1 .. j : i \in 1 .. n
    BY <1>1
  <2>2. PICK i \in 1 .. j : fs[i].block = fs[j].proc
    BY <1>3 DEF NestedWell
  <2>3. i \in 1 .. n /\ fs[i].block \in 1 .. s
    BY <1>3, <2>1 DEF NestedWell
  <2> QED BY <1>3, <2>2, <2>3 DEF NestedWell
<1> HIDE DEF n, s, f, fs, hs
<1>5. Nesting(h)
  <2>1. ASSUME NEW j \in 1 .. n PROVE NestedWell(hs, s + 1, j)
    <3>1. \A i \in 1 .. j : Alike(hs[i], fs[i])
      BY <1>1 DEF Alike
    <3>2. j \in Nat \ {0} /\ s + 1 \in Nat /\ s <= s + 1
      BY <1>1
    <3> QED BY <1>1, <1>3, <3>1, <3>2, SameNesting
  <2>2. /\ f.block \in 1 .. s + 1
        /\ ~f.nested => f.proc = f.block
        /\ f.return_type <=> f.proc # 1
        /\ f.word \in Word
    <3>1. s + 1 # 1 /\ s + 1 \in 1 .. s + 1
      BY <1>1, <1>2, <1>4
    <3>2. fs[n].return_type <=> fs[n].proc # 1
      BY <1>2, <1>3 DEF NestedWell
    <3> QED BY <1>1, <3>1, <3>2
  <2>3. \E i \in 1 .. n + 1 : ~hs[i].nested /\ hs[i].block = f.proc
    <3>1. CASE nested
      <4>1. PICK i \in 1 .. n : ~fs[i].nested /\ fs[i].block = fs[n].proc
        BY <1>2, <1>3 DEF NestedWell
      <4> QED BY <1>1, <1>2, <3>1, <4>1
    <3>2. CASE ~nested
      BY <1>1, <1>2, <3>2
    <3> QED BY <3>1, <3>2
  <2>4. \A i \in 1 .. n : hs[i].block < f.block
    BY <1>1, <1>4
  <2>5. \A i \in 1 .. n + 1 : Linked(hs, i, n + 1) <=> hs[i].proc = f.proc
    <3>1. Linked(hs, n + 1, n + 1)
      BY <1>1 DEF Linked
    <3>2. ASSUME NEW i \in 1 .. n
          PROVE  Linked(hs, i, n + 1) <=> hs[i].proc = f.proc
      <4>1. /\ \A k \in i + 1 .. n : k \in 1 .. n /\ k \in i + 1 .. n + 1
            /\ \A k \in i + 1 .. n + 1 : k \in i + 1 .. n \/ k = n + 1
            /\ n + 1 \in i + 1 .. n + 1
        BY <1>1
      <4>2. Linked(hs, i, n + 1) <=> Linked(fs, i, n) /\ nested
        BY <1>1, <4>1 DEF Linked
      <4>3. Linked(fs, i, n) <=> fs[i].proc = fs[n].proc
        BY <1>2, <1>3 DEF NestedWell
      <4>4. CASE nested
        BY <1>1, <4>2, <4>3, <4>4
      <4>5. CASE ~nested
        <5>1. fs[i].proc # s + 1
          BY <1>1, <1>4
        <5> QED BY <1>1, <4>2, <4>5, <5>1
      <4> QED BY <4>4, <4>5
    <3> QED BY <1>1, <1>2, <3>1, <3>2
  <2>6. ~hs[1].nested /\ hs[1].proc = 1
    <3>1. 1 \in 1 .. n
      BY <1>1
    <3> QED BY <1>0, <1>1, <3>1 DEF Nesting, fs
  <2>7. NestedWell(hs, s + 1, n + 1)
    BY <1>1, <1>2, <2>2, <2>3, <2>4, <2>5 DEF NestedWell
  <2> QED BY <1>1, <1>2, <2>1, <2>6, <2>7 DEF Nesting, hs
<1>6. AllListed(h)
  <2>1. ASSUME NEW d \in DOMAIN ps.decls
        PROVE  /\ ps.decls[d].block \in 1 .. s /\ ps.decls[d].proc \in 1 .. s
               /\ ps.decls[d].is_global => Lists(ps.globals, d)
               /\ \A j \in 1 .. n : ~ps.decls[d].is_global /\ ps.decls[d].block = fs[j].block
                                        => Lists(fs[j].locals, d)
    BY <1>0, <1>1 DEF AllListed, fs, s
  <2>2. \A i \in 1 .. s : i \in 1 .. s + 1 /\ i # s + 1
    BY <1>1
  <2>3. ASSUME NEW d \in DOMAIN ps.decls, NEW j \in 1 .. n + 1,
               ~ps.decls[d].is_global, ps.decls[d].block = hs[j].block
        PROVE  Lists(hs[j].locals, d)
    <3>1. j # n + 1
      BY <1>1, <2>1, <2>2, <2>3
    <3> QED BY <1>1, <1>2, <2>1, <2>3, <3>1
  <2> QED BY <1>1, <2>1, <2>2, <2>3 DEF AllListed, hs
<1>7. Tidy(h)
  <2>1. ASSUME NEW j \in 1 .. n
        PROVE  /\ LocalsOK(ps.decls, fs[j]) /\ OwnSlots(ps.decls, fs[j])
               /\ Distinct(fs[j].locals) /\ Differ(fs[j].locals, ps.globals)
               /\ \A i \in 1 .. j - 1 : i \in 1 .. n /\
                    (fs[i].proc = fs[j].proc =>
                        Above(ps.decls, fs[i], fs[j]) /\ Differ(fs[i].locals, fs[j].locals))
    <3>1. \A i \in 1 .. j - 1 : i \in 1 .. n
      BY <1>1
    <3> QED BY <1>0, <1>1, <3>1 DEF Tidy, fs
  <2>2. /\ LocalsOK(ps.decls, f) /\ OwnSlots(ps.decls, f)
        /\ Distinct(f.locals) /\ Differ(f.locals, ps.globals)
        /\ \A i \in 1 .. n : Differ(fs[i].locals, f.locals)
    BY <1>1, <1>2 DEF LocalsOK, OwnSlots, Distinct, Differ
  <2>3. ASSUME NEW i \in 1 .. n, fs[i].proc = f.proc PROVE Above(ps.decls, fs[i], f)
    <3>1. CASE nested /\ i \in 1 .. n - 1
      <4>1. fs[i].scoped <= fs[n].scoped
        BY <1>1, <1>2, <2>1, <2>3, <3>1 DEF Above
      <4> QED BY <1>1, <1>2, <3>1, <4>1 DEF Above
    <3>2. CASE nested /\ i = n
      BY <1>1, <1>2, <1>3, <3>2 DEF ParserFrame, Above
    <3>3. CASE ~nested
      BY <1>1, <1>4, <2>3, <3>3
    <3>4. i \in 1 .. n - 1 \/ i = n
      BY <1>1
    <3> QED BY <3>1, <3>2, <3>3, <3>4
  <2>4. Distinct(h.globals)
    BY <1>0, <1>1 DEF Tidy
  <2>5. ASSUME NEW j \in 1 .. n + 1
        PROVE  /\ LocalsOK(ps.decls, hs[j]) /\ OwnSlots(ps.decls, hs[j])
               /\ Distinct(hs[j].locals) /\ Differ(hs[j].locals, ps.globals)
               /\ \A i \in 1 .. j - 1 : hs[i].proc = hs[j].proc =>
                        Above(ps.decls, hs[i], hs[j]) /\ Differ(hs[i].locals, hs[j].locals)
    <3>1. CASE j \in 1 .. n
      BY <1>1, <2>1, <3>1
    <3>2. CASE j = n + 1
      BY <1>1, <1>2, <2>2, <2>3, <3>2
    <3> QED BY <1>2, <3>1, <3>2
  <2> QED BY <1>1, <2>4, <2>5 DEF Tidy, hs
<1>8. SlotsCounted(h)
  <2>1. ASSUME NEW d \in DOMAIN ps.decls, ~ps.decls[d].is_global
        PROVE  /\ \A j \in 1 .. n + 1 : hs[j].nested => hs[j].block # ps.decls[d].proc
               /\ \/ \E j \in 1 .. n + 1 : /\ hs[j].proc = ps.decls[d].proc
                                           /\ ps.decls[d].scope_id < hs[j].max
                  \/ /\ \A j \in 1 .. n + 1 : hs[j].proc # ps.decls[d].proc
                     /\ ps.decls[d].scope_id < h.scope_size[ps.decls[d].proc]
    <3> DEFINE e == ps.decls[d]
    <3>1. e.proc \in 1 .. s
      BY <1>0 DEF AllListed, s
    <3>a. e.proc # s + 1
      BY <1>1, <3>1
    <3>2. \A j \in 1 .. n : fs[j].nested => fs[j].block # e.proc
      BY <1>0, <1>1, <2>1 DEF SlotsCounted, fs
    <3>3. \/ \E j \in 1 .. n : fs[j].proc = e.proc /\ e.scope_id < fs[j].max
          \/ /\ \A j \in 1 .. n : fs[j].proc # e.proc
             /\ e.scope_id < ps.scope_size[e.proc]
      BY <1>0, <1>1, <2>1 DEF SlotsCounted, fs
    <3> HIDE DEF e
    <3>4. \A j \in 1 .. n + 1 : hs[j].nested => hs[j].block # e.proc
      BY <1>1, <1>2, <3>a, <3>2
    <3>5. CASE \E j \in 1 .. n : fs[j].proc = e.proc /\ e.scope_id < fs[j].max
      <4>1. \E j \in 1 .. n + 1 : hs[j].proc = e.proc /\ e.scope_id < hs[j].max
        BY <1>1, <1>2, <3>5
      <4> QED BY <3>4, <4>1 DEF e
    <3>6. CASE (\A j \in 1 .. n : fs[j].proc # e.proc) /\ e.scope_id < ps.scope_size[e.proc]
      <4>1. \A j \in 1 .. n + 1 : hs[j].proc # e.proc
        BY <1>1, <1>2, <3>a, <3>6
      <4>2. e.scope_id < h.scope_size[e.proc]
        BY <1>1, <3>1, <3>6
      <4> QED BY <3>4, <4>1, <4>2 DEF e
    <3> QED BY <3>3, <3>5, <3>6
  <2> QED BY <1>1, <2>1 DEF SlotsCounted, hs
<1>9. GlobalsOK(h.decls, h.globals)
  BY <1>0, <1>1
<1> QED BY <1>1, <1>5, <1>6, <1>7, <1>8, <1>9 DEF PInv, h

-----------------------------------------------------------------------------
(* ast_parser_close_frame                                                  *)

\* What the tables look like with the topmost frame closed.
Shallower(h, ps) ==
  LET n == Len(ps.frames)
      s == Len(ps.scope_size)
      fs == ps.frames
      hs == h.frames
  IN  /\ h \in Tables /\ n \in Nat /\ n >= 1 /\ s \in Nat
      /\ DOMAIN fs = 1 .. n /\ DOMAIN hs = 1 .. n - 1
      /\ \A i \in 1 .. n - 1 :
          /\ Alike(hs[i], fs[i]) /\ hs[i].locals = fs[i].locals
          /\ hs[i].scoped = fs[i].scoped /\ hs[i].max >= fs[i].max
      /\ fs[n].nested => n - 1 >= 1 /\ hs[n - 1].max >= fs[n].max
      /\ Len(h.scope_size) = s
      /\ h.scope_size[fs[n].block] = fs[n].max
      /\ \A b \in 1 .. s : b # fs[n].block => h.scope_size[b] = ps.scope_size[b]
      /\ h.globals = ps.globals /\ h.decls = ps.decls

LEMMA CloseFrameIs ==
  ASSUME NEW ps \in Tables, ps.frames # << >>, Nesting(ps)
  PROVE  Shallower(CloseFrame(ps), ps)
<1> DEFINE n == Len(ps.frames)
           s == Len(ps.scope_size)
           fs == ps.frames
           f == fs[n]
           top == Front(fs)
           closed == IF f.nested THEN [top EXCEPT ![n - 1] = [top[n - 1] EXCEPT !.max = Larger(top[n - 1].max, f.max)]]
                     ELSE top
           sizes == [ps.scope_size EXCEPT ![f.block] = f.max]
           h == CloseFrame(ps)
<1>1. /\ fs \in Seq(ParserFrame) /\ ps.scope_size \in Seq(Nat)
      /\ n \in Nat /\ n >= 1 /\ s \in Nat /\ n \in 1 .. n
      /\ DOMAIN fs = 1 .. n /\ DOMAIN ps.scope_size = 1 .. s
  BY DEF Tables
<1>2. /\ \A i \in 1 .. n : fs[i] \in ParserFrame
      /\ f.max \in Nat /\ f.block \in 1 .. s
      /\ f.nested => n - 1 >= 1
  <2>1. \A i \in 1 .. n : fs[i] \in ParserFrame
    BY <1>1
  <2>2. f.block \in 1 .. s
    <3> HIDE DEF n, s
    <3> QED BY <1>1 DEF Nesting, NestedWell, s
  <2>3. f.nested => n # 1
    BY <1>1 DEF Nesting
  <2>4. f.max \in Nat
    BY <1>1, <2>1 DEF ParserFrame
  <2>5. f.nested => n - 1 >= 1
    <3> HIDE DEF n, f
    <3> QED BY <1>1, <2>3
  <2> HIDE DEF n, f, s
  <2> QED BY <2>1, <2>2, <2>4, <2>5
<1>3. /\ top \in Seq(ParserFrame) /\ DOMAIN top = 1 .. n - 1 /\ Len(top) = n - 1
      /\ \A i \in 1 .. n - 1 : top[i] = fs[i] /\ i \in 1 .. n
  BY <1>1 DEF Front
<1>4. /\ sizes \in Seq(Nat) /\ Len(sizes) = s /\ sizes[f.block] = f.max
      /\ \A b \in 1 .. s : b # f.block => sizes[b] = ps.scope_size[b]
  <2> HIDE DEF f
  <2> QED BY <1>1, <1>2
<1>5. h = [ps EXCEPT !.scope_size = sizes, !.frames = closed]
  <2> DEFINE x == [top EXCEPT ![n - 1].max = Larger(@, f.max)]
             y == IF f.nested THEN x ELSE top
  <2>1. h = [ps EXCEPT !.scope_size[f.block] = f.max, !.frames = y]
    <3>1. y = IF f.nested THEN [top EXCEPT ![Len(top)].max = Larger(@, f.max)] ELSE top
      BY <1>3
    <3> HIDE DEF y
    <3> QED BY <3>1 DEF CloseFrame, Top
  <2>2. y = closed
    OBVIOUS
  <2> HIDE DEF x, y, h, closed, f
  <2> QED BY <2>1, <2>2 DEF Tables
<1> HIDE DEF f, top, sizes, h
<1>6. /\ closed \in Seq(ParserFrame) /\ DOMAIN closed = 1 .. n - 1
      /\ \A i \in 1 .. n - 1 :
          /\ Alike(closed[i], fs[i]) /\ closed[i].locals = fs[i].locals
          /\ closed[i].scoped = fs[i].scoped /\ closed[i].max >= fs[i].max
      /\ f.nested => closed[n - 1].max >= f.max
  <2>1. CASE f.nested
    <3> DEFINE g == [top[n - 1] EXCEPT !.max = Larger(top[n - 1].max, f.max)]
               r == [top EXCEPT ![n - 1] = g]
    <3>1. n - 1 \in 1 .. n - 1
      BY <1>1, <1>2, <2>1
    <3>2. top[n - 1] \in ParserFrame /\ top[n - 1] = fs[n - 1]
      BY <1>2, <1>3, <3>1
    <3>3. /\ g \in ParserFrame /\ Alike(g, fs[n - 1]) /\ g.locals = fs[n - 1].locals
          /\ g.scoped = fs[n - 1].scoped /\ g.max >= fs[n - 1].max /\ g.max >= f.max
      <4> DEFINE b == top[n - 1]
                 x == Larger(b.max, f.max)
      <4>1. b \in ParserFrame /\ b.max \in Nat /\ g = [b EXCEPT !.max = x]
        BY <3>2 DEF ParserFrame
      <4>2. x \in Nat /\ x >= b.max /\ x >= f.max
        <5> HIDE DEF b
        <5> QED BY <1>2, <4>1 DEF Larger
      <4> HIDE DEF g, b, x
      <4>3. g \in ParserFrame /\ g.max = x /\ Alike(g, b) /\ g.locals = b.locals /\ g.scoped = b.scoped
        BY <4>1, <4>2 DEF ParserFrame, Alike
      <4> QED BY <3>2, <4>2, <4>3 DEF b
    <3> HIDE DEF g, n, fs
    <3>4. /\ r \in Seq(ParserFrame) /\ DOMAIN r = 1 .. n - 1 /\ r[n - 1] = g
          /\ \A i \in 1 .. n - 1 : i # n - 1 => r[i] = top[i]
      BY <1>3, <3>1, <3>3
    <3>5. closed = r
      BY <2>1 DEF g, n, fs
    <3> HIDE DEF r, closed
    <3>6. ASSUME NEW i \in 1 .. n - 1
          PROVE  /\ Alike(r[i], fs[i]) /\ r[i].locals = fs[i].locals
                 /\ r[i].scoped = fs[i].scoped /\ r[i].max >= fs[i].max
      <4>1. CASE i = n - 1
        BY <3>3, <3>4, <4>1
      <4>2. CASE i # n - 1
        <5>1. r[i] = fs[i]
          BY <1>3, <3>4, <4>2
        <5>2. fs[i].max \in Nat
          BY <1>2, <1>3 DEF ParserFrame
        <5> QED BY <5>1, <5>2 DEF Alike
      <4> QED BY <4>1, <4>2
    <3> QED BY <3>3, <3>4, <3>5, <3>6
  <2>2. CASE ~f.nested
    <3>1. closed = top
      BY <2>2
    <3> HIDE DEF closed
    <3>2. \A i \in 1 .. n - 1 : fs[i].max \in Nat
      BY <1>2, <1>3 DEF ParserFrame
    <3> HIDE DEF n, fs
    <3> QED BY <1>3, <2>2, <3>1, <3>2 DEF Alike
  <2> QED BY <2>1, <2>2
<1> HIDE DEF closed
<1>7. /\ h \in Tables /\ h.frames = closed /\ h.scope_size = sizes
      /\ h.globals = ps.globals /\ h.decls = ps.decls
  BY <1>4, <1>5, <1>6 DEF Tables
<1> QED BY <1>1, <1>2, <1>4, <1>6, <1>7 DEF Shallower, h, f, n, s, fs

LEMMA CloseFrameInv ==
  ASSUME NEW ps, PInv(ps), ps.frames # << >>
  PROVE  PInv(CloseFrame(ps))
<1> DEFINE h == CloseFrame(ps)
           n == Len(ps.frames)
           s == Len(ps.scope_size)
           fs == ps.frames
           hs == h.frames
           f == fs[n]
<1>0. /\ ps \in Tables /\ Nesting(ps) /\ GlobalsOK(ps.decls, ps.globals) /\ AllListed(ps)
      /\ Tidy(ps) /\ SlotsCounted(ps)
  BY DEF PInv
<1>a. Shallower(h, ps)
  BY <1>0, CloseFrameIs
<1> HIDE DEF h
<1>1. /\ h \in Tables /\ n \in Nat /\ n >= 1 /\ s \in Nat
      /\ DOMAIN fs = 1 .. n /\ DOMAIN hs = 1 .. n - 1
      /\ \A i \in 1 .. n - 1 :
          /\ Alike(hs[i], fs[i]) /\ hs[i].locals = fs[i].locals
          /\ hs[i].scoped = fs[i].scoped /\ hs[i].max >= fs[i].max
      /\ f.nested => n - 1 >= 1 /\ hs[n - 1].max >= f.max
      /\ Len(h.scope_size) = s
      /\ h.scope_size[f.block] = f.max
      /\ \A b \in 1 .. s : b # f.block => h.scope_size[b] = ps.scope_size[b]
      /\ h.globals = ps.globals /\ h.decls = ps.decls
  BY <1>a DEF Shallower
<1>2. /\ \A j \in 1 .. n - 1 : j \in 1 .. n /\ j # n /\ j \in Nat \ {0}
      /\ \A j \in 1 .. n : j \in 1 .. n - 1 \/ j = n
      /\ n \in 1 .. n
  BY <1>1
<1>3. \A j \in 1 .. n : fs[j] \in ParserFrame /\ NestedWell(fs, s, j)
  <2>1. fs \in Seq(ParserFrame)
    BY <1>0 DEF Tables
  <2>2. \A j \in 1 .. n : fs[j] \in ParserFrame
    BY <1>1, <2>1
  <2>3. \A j \in 1 .. n : NestedWell(fs, s, j)
    <3> HIDE DEF n
    <3> QED BY <1>0, <1>1 DEF Nesting
  <2> QED BY <2>2, <2>3
<1>b. \A j \in 1 .. n - 1 : hs[j] \in ParserFrame
  <2>1. hs \in Seq(ParserFrame)
    BY <1>1 DEF Tables
  <2> QED BY <1>1, <2>1
<1> HIDE DEF n, s, f, fs, hs
<1>5. Nesting(h)
  <2>1. ASSUME NEW j \in 1 .. n - 1 PROVE NestedWell(hs, s, j)
    <3>1. \A i \in 1 .. j : i \in 1 .. n - 1
      BY <1>1
    <3>2. s <= s
      BY <1>1
    <3> QED BY <1>1, <1>2, <1>3, <3>1, <3>2, SameNesting
  <2>2. 1 \in 1 .. n - 1 => ~hs[1].nested /\ hs[1].proc = 1
    BY <1>0, <1>1, <1>2 DEF Nesting, fs, Alike
  <2> QED BY <1>1, <2>1, <2>2 DEF Nesting, hs
<1>6. AllListed(h)
  BY <1>0, <1>1, <1>2 DEF AllListed, Alike, hs, fs, s
<1>7. Tidy(h)
  <2>1. ASSUME NEW j \in 1 .. n - 1
        PROVE  /\ LocalsOK(ps.decls, hs[j]) /\ OwnSlots(ps.decls, hs[j])
               /\ Distinct(hs[j].locals) /\ Differ(hs[j].locals, ps.globals)
               /\ \A i \in 1 .. j - 1 : hs[i].proc = hs[j].proc =>
                        Above(ps.decls, hs[i], hs[j]) /\ Differ(hs[i].locals, hs[j].locals)
    <3>1. \A i \in 1 .. j - 1 : i \in 1 .. n - 1
      BY <1>1
    <3>2. /\ LocalsOK(ps.decls, fs[j]) /\ OwnSlots(ps.decls, fs[j])
          /\ Distinct(fs[j].locals) /\ Differ(fs[j].locals, ps.globals)
          /\ \A i \in 1 .. j - 1 : fs[i].proc = fs[j].proc =>
                   Above(ps.decls, fs[i], fs[j]) /\ Differ(fs[i].locals, fs[j].locals)
      BY <1>0, <1>1, <1>2 DEF Tidy, fs
    <3>3. LocalsOK(ps.decls, hs[j]) /\ OwnSlots(ps.decls, hs[j])
      BY <1>1, <3>2 DEF LocalsOK, LocalOK, OwnSlots, Alike
    <3>4. ASSUME NEW i \in 1 .. j - 1, hs[i].proc = hs[j].proc
          PROVE  Above(ps.decls, hs[i], hs[j]) /\ Differ(hs[i].locals, hs[j].locals)
      <4>1. Above(ps.decls, fs[i], fs[j]) /\ Differ(fs[i].locals, fs[j].locals)
        BY <1>1, <3>1, <3>2, <3>4 DEF Alike
      <4> QED BY <1>1, <3>1, <4>1 DEF Above
    <3> QED BY <1>1, <3>2, <3>3, <3>4
  <2>2. Distinct(h.globals)
    BY <1>0, <1>1 DEF Tidy
  <2> QED BY <1>1, <2>1, <2>2 DEF Tidy, hs
<1>8. SlotsCounted(h)
  <2>1. ASSUME NEW d \in DOMAIN ps.decls, ~ps.decls[d].is_global
        PROVE  /\ \A j \in 1 .. n - 1 : hs[j].nested => hs[j].block # ps.decls[d].proc
               /\ \/ \E j \in 1 .. n - 1 : /\ hs[j].proc = ps.decls[d].proc
                                           /\ ps.decls[d].scope_id < hs[j].max
                  \/ /\ \A j \in 1 .. n - 1 : hs[j].proc # ps.decls[d].proc
                     /\ ps.decls[d].scope_id < h.scope_size[ps.decls[d].proc]
    <3> DEFINE e == ps.decls[d]
    <3>1. e.proc \in 1 .. s /\ e.scope_id \in Nat
      <4>1. e \in Decl
        BY <1>0 DEF Tables
      <4> QED BY <1>0, <4>1 DEF AllListed, s, Decl
    <3>2. \A j \in 1 .. n : fs[j].nested => fs[j].block # e.proc
      BY <1>0, <1>1, <2>1 DEF SlotsCounted, fs
    <3>3. \/ \E j \in 1 .. n : fs[j].proc = e.proc /\ e.scope_id < fs[j].max
          \/ /\ \A j \in 1 .. n : fs[j].proc # e.proc
             /\ e.scope_id < ps.scope_size[e.proc]
      BY <1>0, <1>1, <2>1 DEF SlotsCounted, fs
    <3> HIDE DEF e
    <3>4. \A j \in 1 .. n - 1 : hs[j].nested => hs[j].block # e.proc
      BY <1>1, <1>2, <3>2 DEF Alike
    <3>5. ASSUME NEW j \in 1 .. n, fs[j].proc = e.proc, e.scope_id < fs[j].max
          PROVE  \/ \E i \in 1 .. n - 1 : hs[i].proc = e.proc /\ e.scope_id < hs[i].max
                 \/ /\ \A i \in 1 .. n - 1 : hs[i].proc # e.proc
                    /\ e.scope_id < h.scope_size[e.proc]
      <4>1. CASE j \in 1 .. n - 1
        <5>1. hs[j].max \in Nat /\ fs[j].max \in Nat
          BY <1>2, <1>3, <1>b, <4>1 DEF ParserFrame
        <5>2. hs[j].proc = e.proc /\ hs[j].max >= fs[j].max
          BY <1>1, <3>5, <4>1 DEF Alike
        <5>3. e.scope_id < hs[j].max
          BY <3>1, <3>5, <5>1, <5>2
        <5> QED BY <4>1, <5>2, <5>3
      <4>2. CASE j = n /\ f.nested
        <5>1. n - 1 \in 1 .. n - 1
          BY <1>1, <4>2
        <5>2. Linked(fs, n - 1, n)
          <6>1. \A k \in n - 1 + 1 .. n : k = n
            BY <1>1
          <6> QED BY <4>2, <6>1 DEF Linked, f
        <5>3. fs[n - 1].proc = f.proc
          BY <1>2, <1>3, <5>1, <5>2 DEF NestedWell, f
        <5>4. hs[n - 1].max \in Nat /\ f.max \in Nat
          BY <1>2, <1>3, <1>b, <5>1 DEF ParserFrame, f
        <5>5. hs[n - 1].proc = e.proc
          BY <1>1, <3>5, <4>2, <5>1, <5>3 DEF Alike, f
        <5>6. e.scope_id < f.max
          BY <3>5, <4>2 DEF f
        <5>7. hs[n - 1].max >= f.max
          BY <1>1, <4>2
        <5>8. e.scope_id < hs[n - 1].max
          BY <3>1, <5>4, <5>6, <5>7
        <5> QED BY <5>1, <5>5, <5>8
      <4>3. CASE j = n /\ ~f.nested
        <5>1. f.proc = f.block /\ f.proc = e.proc
          BY <1>2, <1>3, <3>5, <4>3 DEF NestedWell, f
        <5>2. e.scope_id < h.scope_size[e.proc]
          BY <1>1, <3>5, <4>3, <5>1 DEF f
        <5>3. ASSUME NEW i \in 1 .. n - 1 PROVE hs[i].proc # e.proc
          <6>1. n \in i + 1 .. n
            BY <1>1
          <6>2. ~Linked(fs, i, n)
            BY <4>3, <6>1 DEF Linked, f
          <6>3. fs[i].proc # f.proc
            BY <1>2, <1>3, <6>2 DEF NestedWell, f
          <6> QED BY <1>1, <5>1, <6>3 DEF Alike
        <5> QED BY <5>2, <5>3
      <4> QED BY <1>2, <4>1, <4>2, <4>3
    <3>6. CASE (\A j \in 1 .. n : fs[j].proc # e.proc) /\ e.scope_id < ps.scope_size[e.proc]
      <4>1. \A j \in 1 .. n - 1 : hs[j].proc # e.proc
        BY <1>1, <1>2, <3>6 DEF Alike
      <4>2. f.block # e.proc
        <5>1. f.nested \/ f.proc = f.block
          BY <1>2, <1>3 DEF NestedWell, f
        <5> QED BY <1>2, <3>2, <3>6, <5>1 DEF f
      <4>3. e.scope_id < h.scope_size[e.proc]
        BY <1>1, <3>1, <3>6, <4>2
      <4> QED BY <3>4, <4>1, <4>3 DEF e
    <3> QED BY <3>3, <3>4, <3>5, <3>6 DEF e
  <2> QED BY <1>1, <2>1 DEF SlotsCounted, hs
<1>9. GlobalsOK(h.decls, h.globals)
  BY <1>0, <1>1
<1> QED BY <1>1, <1>5, <1>6, <1>7, <1>8, <1>9 DEF PInv, h

-----------------------------------------------------------------------------
(* ast_parser_find_var                                                     *)

LEMMA FirstOfDistinct ==
  ASSUME NEW s \in Seq(Entry), NEW n, Distinct(s)
  PROVE  First(s, n) = {s[i].decl : i \in Named(s, n)}
<1>1. \A i, k \in Named(s, n) : i = k
  BY DEF Named, Distinct
<1>2. \A i \in Named(s, n) : i <= i
  BY DEF Named
<1> QED BY <1>1, <1>2 DEF First

\* The frames searched are those of the procedure at the top.
LEMMA ChainIs ==
  ASSUME NEW ps, PInv(ps), ps.frames # << >>
  PROVE  Chain(ps.frames) = {j \in DOMAIN ps.frames : ps.frames[j].proc = Top(ps).proc}
<1> DEFINE fs == ps.frames
           n == Len(fs)
<1>1. fs \in Seq(ParserFrame) /\ n \in Nat /\ n >= 1 /\ DOMAIN fs = 1 .. n /\ n \in DOMAIN fs
  BY DEF PInv, Tables
<1>2. NestedWell(fs, Len(ps.scope_size), n)
  BY <1>1 DEF PInv, Nesting
<1>3. \A j \in DOMAIN fs : j \in 1 .. n
  BY <1>1
<1> HIDE DEF fs
<1> QED BY <1>1, <1>2, <1>3 DEF Chain, NestedWell, Linked, Top, fs

\* Under the invariant, the first variable found is the only one to be found.
LEMMA FindVarIs ==
  ASSUME NEW ps, PInv(ps), ps.frames # << >>, NEW n
  PROVE  FindVar(ps, n) = {e.decl : e \in {x \in Visible(ps) : x.name = n}}
<1> DEFINE fs == ps.frames
           hits == {j \in Chain(fs) : Named(fs[j].locals, n) # {}}
           last == {k \in hits : \A l \in hits : l <= k}
           In(s) == {s[i].decl : i \in Named(s, n)}
<1>1. /\ Tidy(ps) /\ DOMAIN fs = 1 .. Len(fs) /\ Len(fs) \in Nat
      /\ Chain(fs) \subseteq DOMAIN fs
      /\ \A i, j \in Chain(fs) : fs[i].proc = fs[j].proc
  <2>1. \A i, j \in Chain(fs) : fs[i].proc = fs[j].proc
    BY ChainIs
  <2> QED BY <2>1 DEF PInv, Tables, Chain
<1>2. \A j \in Chain(fs) : First(fs[j].locals, n) = In(fs[j].locals)
  <2>1. \A j \in DOMAIN fs : fs[j].locals \in Seq(Entry)
    <3>1. fs \in Seq(ParserFrame)
      BY DEF PInv, Tables
    <3>2. \A j \in DOMAIN fs : fs[j] \in ParserFrame
      BY <3>1
    <3> QED BY <3>2 DEF ParserFrame
  <2> HIDE DEF In, fs
  <2>2. \A j \in Chain(fs) : fs[j].locals \in Seq(Entry) /\ Distinct(fs[j].locals)
    BY <1>1, <2>1 DEF Tidy, fs
  <2> QED BY <2>2, FirstOfDistinct DEF In
<1>3. First(ps.globals, n) = In(ps.globals)
  BY <1>1, FirstOfDistinct DEF Tidy, PInv, Tables
<1>4. \A i, j \in hits : i = j
  <2>1. ASSUME NEW i \in hits, NEW j \in hits, i < j PROVE FALSE
    <3>1. i \in 1 .. j - 1 /\ i \in DOMAIN fs /\ j \in DOMAIN fs
      BY <1>1, <2>1
    <3>2. Differ(fs[i].locals, fs[j].locals)
      <4>1. fs[i].proc = fs[j].proc
        BY <1>1
      <4> HIDE DEF hits
      <4> QED BY <1>1, <3>1, <4>1 DEF Tidy
    <3> QED BY <3>2 DEF Differ, Named
  <2>2. \A i, j \in hits : i < j \/ j < i \/ i = j
    BY <1>1
  <2> QED BY <2>1, <2>2
<1>5. last = hits
  <2>1. \A k \in hits : k <= k
    BY <1>1
  <2> HIDE DEF hits
  <2> QED BY <1>4, <2>1
<1>6. FindVar(ps, n) = IF hits = {} THEN In(ps.globals)
                       ELSE UNION {In(fs[j].locals) : j \in hits}
  <2>1. FindVar(ps, n) = IF hits = {} THEN First(ps.globals, n)
                         ELSE UNION {First(fs[j].locals, n) : j \in last}
    BY DEF FindVar
  <2> HIDE DEF last, In
  <2> QED BY <1>2, <1>3, <1>5, <2>1
<1>7. hits # {} => In(ps.globals) = {}
  <2> SUFFICES ASSUME NEW j \in hits PROVE In(ps.globals) = {}
    OBVIOUS
  <2>1. Differ(fs[j].locals, ps.globals)
    BY <1>1 DEF Tidy
  <2> QED BY <2>1 DEF Differ, Named
<1>8. FindVar(ps, n) = In(ps.globals) \cup UNION {In(fs[j].locals) : j \in Chain(fs)}
  <2>1. \A j \in Chain(fs) : j \notin hits => In(fs[j].locals) = {}
    OBVIOUS
  <2>2. \A j \in hits : j \in Chain(fs)
    OBVIOUS
  <2> HIDE DEF hits, In, fs
  <2> QED BY <1>6, <1>7, <2>1, <2>2
<1>9. ASSUME NEW s PROVE In(s) = {e.decl : e \in {x \in Values(s) : x.name = n}}
  BY DEF Named, Values
<1> HIDE DEF In, fs
<1>10. In(ps.globals) \cup UNION {In(fs[j].locals) : j \in Chain(fs)}
         = {e.decl : e \in {x \in Visible(ps) : x.name = n}}
  <2>1. \A d : d \in UNION {In(fs[j].locals) : j \in Chain(fs)} <=>
               \E j \in Chain(fs) : \E e \in Values(fs[j].locals) : e.name = n /\ e.decl = d
    BY <1>9
  <2>2. \A d : d \in In(ps.globals) <=> \E e \in Values(ps.globals) : e.name = n /\ e.decl = d
    BY <1>9
  <2>3. \A e : e \in Visible(ps) <=>
               e \in Values(ps.globals) \/ \E j \in Chain(fs) : e \in Values(fs[j].locals)
    BY Zenon DEF Visible, fs
  <2> QED BY <2>1, <2>2, <2>3
<1> QED BY <1>8, <1>10

\* An undeclared name is that of no variable that can be seen.
LEMMA UndeclaredIs ==
  ASSUME NEW ps, PInv(ps), ps.frames # << >>, NEW n, Undeclared(ps, n)
  PROVE  /\ \A k \in DOMAIN ps.globals : ps.globals[k].name # n
         /\ \A j \in DOMAIN ps.frames : ps.frames[j].proc = Top(ps).proc =>
                \A k \in DOMAIN ps.frames[j].locals : ps.frames[j].locals[k].name # n
<1>1. \A e \in Visible(ps) : e.name # n
  BY FindVarIs DEF Undeclared
<1>2. \A k \in DOMAIN ps.globals : ps.globals[k] \in Visible(ps)
  BY DEF Visible, Values
<1>3. \A j \in Chain(ps.frames) : \A k \in DOMAIN ps.frames[j].locals :
            ps.frames[j].locals[k] \in Visible(ps)
  BY DEF Visible, Values
<1> QED BY <1>1, <1>2, <1>3, ChainIs

-----------------------------------------------------------------------------
(* ast_parser_decl_var                                                     *)

\* What is known of the tables stays so when variables are added.
Extends(more, decls) ==
  DOMAIN decls \subseteq DOMAIN more /\ \A i \in DOMAIN decls : more[i] = decls[i]

LEMMA StillListed ==
  ASSUME NEW decls, NEW more, Extends(more, decls), NEW f, LocalsOK(decls, f)
  PROVE  /\ LocalsOK(more, f)
         /\ OwnSlots(decls, f) => OwnSlots(more, f)
         /\ \A g : Above(decls, g, f) => Above(more, g, f)
<1>1. \A i \in DOMAIN f.locals :
        f.locals[i].decl \in DOMAIN more /\ more[f.locals[i].decl] = decls[f.locals[i].decl]
  BY DEF LocalsOK, LocalOK, Extends
<1>2. LocalsOK(more, f)
  BY <1>1 DEF LocalsOK, LocalOK
<1>3. OwnSlots(decls, f) => OwnSlots(more, f)
  BY <1>1 DEF OwnSlots
<1>4. \A g : Above(decls, g, f) => Above(more, g, f)
  BY <1>1 DEF Above
<1> QED BY <1>2, <1>3, <1>4

LEMMA GlobalsStill ==
  ASSUME NEW decls, NEW more, Extends(more, decls), NEW globals, GlobalsOK(decls, globals)
  PROVE  GlobalsOK(more, globals)
BY DEF GlobalsOK, Extends

\* What the tables look like with one variable more.
Declared(h, ps, name, is_global) ==
  LET n == Len(ps.frames)
      m == Len(ps.decls)
      fs == ps.frames
      hs == h.frames
      f == fs[n]
      e == [name |-> name, decl |-> m + 1]
      d == h.decls[m + 1]
  IN  /\ h \in Tables /\ n \in Nat /\ n >= 1 /\ m \in Nat
      /\ DOMAIN fs = 1 .. n /\ DOMAIN hs = 1 .. n
      /\ DOMAIN ps.decls = 1 .. m /\ DOMAIN h.decls = 1 .. m + 1
      /\ \A i \in 1 .. m : h.decls[i] = ps.decls[i]
      /\ d.name = name /\ d.is_global = is_global /\ d.block = f.block /\ d.proc = f.proc
      /\ h.scope_size = ps.scope_size
      /\ is_global => /\ hs = fs
                      /\ h.globals = Append(ps.globals, e)
                      /\ d.scope_id = Len(ps.globals)
      /\ ~is_global => /\ h.globals = ps.globals
                       /\ \A i \in 1 .. n : i # n => hs[i] = fs[i]
                       /\ Alike(hs[n], f)
                       /\ hs[n].locals = Append(f.locals, e)
                       /\ hs[n].scoped = f.scoped + 1
                       /\ hs[n].max >= f.max /\ hs[n].max > f.scoped
                       /\ d.scope_id = f.scoped

LEMMA DeclVarIs ==
  ASSUME NEW ps \in Tables, ps.frames # << >>, NEW name \in Name, NEW is_global \in BOOLEAN
  PROVE  Declared(DeclVar(ps, name, is_global), ps, name, is_global)
<1> DEFINE n == Len(ps.frames)
           m == Len(ps.decls)
           fs == ps.frames
           f == fs[n]
           e == [name |-> name, decl |-> m + 1]
           d == [name |-> name, is_global |-> is_global, block |-> f.block, proc |-> f.proc,
                 scope_id |-> IF is_global THEN Len(ps.globals) ELSE f.scoped]
           g == [f EXCEPT !.locals = Append(@, e), !.scoped = @ + 1,
                          !.max = Larger(@, f.scoped + 1)]
           next == [ps EXCEPT !.decls = Append(@, d)]
           h == DeclVar(ps, name, is_global)
<1>1. /\ fs \in Seq(ParserFrame) /\ ps.decls \in Seq(Decl) /\ ps.globals \in Seq(Entry)
      /\ n \in Nat /\ n >= 1 /\ m \in Nat /\ n \in 1 .. n /\ Len(ps.globals) \in Nat
      /\ DOMAIN fs = 1 .. n /\ DOMAIN ps.decls = 1 .. m
  BY DEF Tables
<1>2. f \in ParserFrame
  BY <1>1
<1>3. e \in Entry
  BY <1>1 DEF Entry
<1>4. /\ d \in Decl
      /\ d.name = name /\ d.is_global = is_global /\ d.block = f.block /\ d.proc = f.proc
      /\ is_global => d.scope_id = Len(ps.globals)
      /\ ~is_global => d.scope_id = f.scoped
  <2> HIDE DEF f
  <2> QED BY <1>1, <1>2 DEF Decl, ParserFrame
<1>5. /\ g \in ParserFrame /\ Alike(g, f) /\ g.locals = Append(f.locals, e)
      /\ g.scoped = f.scoped + 1 /\ g.max >= f.max /\ g.max > f.scoped
  <2> DEFINE x == Larger(f.max, f.scoped + 1)
  <2> HIDE DEF f, e
  <2>1. x \in Nat /\ x >= f.max /\ x > f.scoped
    BY <1>2 DEF ParserFrame, Larger
  <2>2. Append(f.locals, e) \in Seq(Entry)
    BY <1>2, <1>3 DEF ParserFrame
  <2> DEFINE a == Append(f.locals, e)
             k == f.scoped + 1
  <2>3. g = [f EXCEPT !.locals = a, !.scoped = k, !.max = x]
    OBVIOUS
  <2>4. k \in Nat
    BY <1>2 DEF ParserFrame
  <2> HIDE DEF x, g, a, k
  <2>5. /\ g \in ParserFrame /\ Alike(g, f) /\ g.locals = a /\ g.scoped = k /\ g.max = x
    BY <1>2, <2>1, <2>2, <2>3, <2>4 DEF ParserFrame, Alike, a
  <2> QED BY <2>1, <2>5 DEF a, k
<1>6. h = IF is_global THEN [next EXCEPT !.globals = Append(@, e)]
          ELSE [next EXCEPT !.frames[n] = g]
  BY DEF DeclVar, Top
<1> HIDE DEF d, e, f, g, h
<1>7. /\ next \in Tables /\ next.frames = fs /\ next.decls = Append(ps.decls, d)
      /\ next.globals = ps.globals /\ next.scope_size = ps.scope_size
  <2>1. Append(ps.decls, d) \in Seq(Decl)
    BY <1>1, <1>4
  <2> QED BY <2>1 DEF Tables
<1> HIDE DEF next
<1>8. /\ next.decls[m + 1] = d /\ DOMAIN next.decls = 1 .. m + 1
      /\ \A i \in 1 .. m : next.decls[i] = ps.decls[i]
  BY <1>1, <1>7 DEF m
<1>9. CASE is_global
  <2>1. Append(next.globals, e) \in Seq(Entry)
    BY <1>1, <1>3, <1>7
  <2>2. h = [next EXCEPT !.globals = Append(next.globals, e)]
    BY <1>6, <1>9
  <2>3. /\ h \in Tables /\ h.frames = fs /\ h.decls = next.decls
        /\ h.globals = Append(ps.globals, e) /\ h.scope_size = ps.scope_size
    <3> HIDE DEF fs
    <3> QED BY <1>7, <2>1, <2>2 DEF Tables
  <2> QED BY <1>1, <1>4, <1>8, <1>9, <2>3 DEF Declared, h, n, m, fs, f, e
<1>10. CASE ~is_global
  <2> DEFINE r == [fs EXCEPT ![n] = g]
  <2> HIDE DEF fs, n
  <2>1. /\ r \in Seq(ParserFrame) /\ DOMAIN r = 1 .. n /\ r[n] = g
        /\ \A i \in 1 .. n : i # n => r[i] = fs[i]
    BY <1>1, <1>5
  <2>2. h = [next EXCEPT !.frames = r]
    BY <1>6, <1>7, <1>10
  <2> HIDE DEF r
  <2>3. /\ h \in Tables /\ h.frames = r /\ h.decls = next.decls
        /\ h.globals = ps.globals /\ h.scope_size = ps.scope_size
    BY <1>7, <2>1, <2>2 DEF Tables
  <2> QED BY <1>1, <1>4, <1>5, <1>8, <1>10, <2>1, <2>3 DEF Declared, h, n, m, fs, f, e
<1> QED BY <1>9, <1>10

\* In a frame without a parent that stands below the top, nothing is nested.
LEMMA ProcNotNested ==
  ASSUME NEW ps, PInv(ps), NEW i \in DOMAIN ps.frames, NEW j \in DOMAIN ps.frames,
         ps.frames[j].nested
  PROVE  ps.frames[j].block # ps.frames[i].proc
<1> DEFINE fs == ps.frames
           s == Len(ps.scope_size)
<1>1. /\ fs \in Seq(ParserFrame) /\ Len(fs) \in Nat /\ DOMAIN fs = 1 .. Len(fs)
      /\ s \in Nat /\ i \in DOMAIN fs /\ j \in DOMAIN fs /\ fs[j].nested
      /\ \A k \in DOMAIN fs : NestedWell(fs, s, k)
  BY DEF PInv, Nesting, Tables
<1> HIDE DEF fs, s
<1>2. PICK k \in 1 .. i : ~fs[k].nested /\ fs[k].block = fs[i].proc
  BY <1>1 DEF NestedWell
<1>3. k \in DOMAIN fs /\ fs[k].block \in Nat /\ fs[j].block \in Nat
  <2>1. k \in DOMAIN fs
    BY <1>1
  <2> QED BY <1>1, <2>1 DEF NestedWell
<1>4. k < j \/ j < k
  BY <1>1, <1>2, <1>3
<1>5. fs[k].block # fs[j].block
  <2>1. k < j => k \in 1 .. j - 1
    BY <1>1, <1>3
  <2>2. j < k => j \in 1 .. k - 1
    BY <1>1, <1>3
  <2>3. fs[k].block < fs[j].block \/ fs[j].block < fs[k].block
    BY <1>1, <1>3, <1>4, <2>1, <2>2 DEF NestedWell
  <2> QED BY <1>3, <2>3
<1> QED BY <1>2, <1>5 DEF fs

LEMMA DeclLocalInv ==
  ASSUME NEW ps, PInv(ps), ps.frames # << >>, NEW name \in Name, Undeclared(ps, name)
  PROVE  PInv(DeclVar(ps, name, FALSE))
<1> DEFINE h == DeclVar(ps, name, FALSE)
           n == Len(ps.frames)
           m == Len(ps.decls)
           s == Len(ps.scope_size)
           fs == ps.frames
           hs == h.frames
           f == fs[n]
           g == hs[n]
           e == [name |-> name, decl |-> m + 1]
           d == h.decls[m + 1]
<1>0. /\ ps \in Tables /\ Nesting(ps) /\ GlobalsOK(ps.decls, ps.globals) /\ AllListed(ps)
      /\ Tidy(ps) /\ SlotsCounted(ps)
  BY DEF PInv
<1>a. Declared(h, ps, name, FALSE)
  BY <1>0, DeclVarIs
<1> HIDE DEF h
<1>1. /\ h \in Tables /\ n \in Nat /\ n >= 1 /\ m \in Nat
      /\ DOMAIN fs = 1 .. n /\ DOMAIN hs = 1 .. n
      /\ DOMAIN ps.decls = 1 .. m /\ DOMAIN h.decls = 1 .. m + 1
      /\ \A i \in 1 .. m : h.decls[i] = ps.decls[i]
      /\ d.name = name /\ d.is_global = FALSE /\ d.block = f.block /\ d.proc = f.proc
      /\ h.scope_size = ps.scope_size
      /\ h.globals = ps.globals
      /\ \A i \in 1 .. n : i # n => hs[i] = fs[i]
      /\ Alike(g, f)
      /\ g.locals = Append(f.locals, e)
      /\ g.scoped = f.scoped + 1
      /\ g.max >= f.max /\ g.max > f.scoped
      /\ d.scope_id = f.scoped
      /\ h.decls[m + 1] = d /\ hs[n] = g
  BY <1>a DEF Declared
<1>2. /\ n \in 1 .. n /\ \A i \in 1 .. m : i \in 1 .. m + 1 /\ i # m + 1
      /\ \A i \in 1 .. m + 1 : i \in 1 .. m \/ i = m + 1
      /\ m + 1 \in 1 .. m + 1
  BY <1>1
<1>3. s \in Nat /\ \A j \in 1 .. n : fs[j] \in ParserFrame /\ hs[j] \in ParserFrame /\ NestedWell(fs, s, j)
  <2>1. fs \in Seq(ParserFrame) /\ hs \in Seq(ParserFrame) /\ s \in Nat
    BY <1>0, <1>1 DEF Tables
  <2>2. \A j \in 1 .. n : fs[j] \in ParserFrame /\ hs[j] \in ParserFrame
    BY <1>1, <2>1
  <2>3. \A j \in 1 .. n : NestedWell(fs, s, j)
    <3> HIDE DEF n
    <3> QED BY <1>0, <1>1 DEF Nesting
  <2> QED BY <2>1, <2>2, <2>3
<1>4. /\ \A k \in DOMAIN ps.globals : ps.globals[k].name # name
      /\ \A j \in 1 .. n : fs[j].proc = f.proc =>
            \A k \in DOMAIN fs[j].locals : fs[j].locals[k].name # name
  <2> HIDE DEF n
  <2> QED BY <1>1, UndeclaredIs DEF Top, n
<1>5. Extends(h.decls, ps.decls)
  BY <1>1, <1>2 DEF Extends
<1>6. /\ e.name = name /\ e.decl = m + 1
      /\ f.locals \in Seq(Entry) /\ Len(f.locals) \in Nat
      /\ DOMAIN f.locals = 1 .. Len(f.locals) /\ DOMAIN g.locals = 1 .. Len(f.locals) + 1
      /\ \A i \in 1 .. Len(f.locals) : g.locals[i] = f.locals[i]
      /\ g.locals[Len(f.locals) + 1] = e
      /\ f.scoped \in Nat /\ f.max \in Nat
  <2>1. f.locals \in Seq(Entry) /\ f.scoped \in Nat /\ f.max \in Nat
    BY <1>2, <1>3 DEF ParserFrame
  <2> HIDE DEF f, g
  <2> QED BY <1>1, <2>1
<1> DEFINE l == Len(f.locals)
<1>7. /\ \A i \in 1 .. l + 1 : i \in 1 .. l \/ i = l + 1
      /\ l + 1 \in 1 .. l + 1 /\ \A i \in 1 .. l : i \in 1 .. l + 1
  BY <1>6
<1> HIDE DEF n, m, s, f, g, fs, hs, e, d, l
<1>8. \A i \in 1 .. n : Alike(hs[i], fs[i])
  BY <1>1 DEF Alike, g, f
<1>9. Nesting(h)
  <2>1. ASSUME NEW j \in 1 .. n PROVE NestedWell(hs, s, j)
    <3>1. \A i \in 1 .. j : i \in 1 .. n
      BY <1>1
    <3>2. s <= s /\ j \in Nat \ {0}
      BY <1>1, <1>3
    <3> QED BY <1>3, <1>8, <3>1, <3>2, SameNesting
  <2>2. 1 \in 1 .. n => ~hs[1].nested /\ hs[1].proc = 1
    BY <1>0, <1>1, <1>8 DEF Nesting, fs, Alike
  <2> QED BY <1>1, <2>1, <2>2 DEF Nesting, hs, s
<1>10. GlobalsOK(h.decls, h.globals)
  BY <1>0, <1>1, <1>5, GlobalsStill
<1>11. AllListed(h)
  <2>1. ASSUME NEW i \in 1 .. m
        PROVE  /\ h.decls[i].block \in 1 .. s /\ h.decls[i].proc \in 1 .. s
               /\ h.decls[i].is_global => Lists(h.globals, i)
               /\ \A j \in 1 .. n : ~h.decls[i].is_global /\ h.decls[i].block = hs[j].block
                                        => Lists(hs[j].locals, i)
    <3>1. /\ h.decls[i].block \in 1 .. s /\ h.decls[i].proc \in 1 .. s
          /\ h.decls[i].is_global => Lists(ps.globals, i)
          /\ \A j \in 1 .. n : ~h.decls[i].is_global /\ h.decls[i].block = fs[j].block
                                    => Lists(fs[j].locals, i)
      <4>1. /\ ps.decls[i].block \in 1 .. s /\ ps.decls[i].proc \in 1 .. s
            /\ ps.decls[i].is_global => Lists(ps.globals, i)
            /\ \A j \in 1 .. n : ~ps.decls[i].is_global /\ ps.decls[i].block = fs[j].block
                                    => Lists(fs[j].locals, i)
        BY <1>0, <1>1 DEF AllListed, fs, s
      <4> QED BY <1>1, <4>1
    <3>2. \A j \in 1 .. n : Lists(fs[j].locals, i) => Lists(hs[j].locals, i)
      <4>1. Lists(f.locals, i) => Lists(g.locals, i)
        BY <1>6, <1>7 DEF Lists, l
      <4> QED BY <1>1, <4>1 DEF f, g
    <3> QED BY <1>1, <1>8, <3>1, <3>2 DEF Alike
  <2>2. /\ d.block \in 1 .. s /\ d.proc \in 1 .. s
        /\ \A j \in 1 .. n : d.block = hs[j].block => Lists(hs[j].locals, m + 1)
    <3>1. f.block \in 1 .. s /\ f.proc \in 1 .. s
      <4>1. f.block \in 1 .. s
        BY <1>2, <1>3 DEF NestedWell, f
      <4>2. PICK i \in 1 .. n : fs[i].block = f.proc
        BY <1>2, <1>3 DEF NestedWell, f
      <4> QED BY <1>3, <4>1, <4>2 DEF NestedWell
    <3>2. \A j \in 1 .. n : j # n => fs[j].block # f.block
      <4>1. \A j \in 1 .. n : j # n => j \in 1 .. n - 1
        BY <1>1
      <4>2. \A j \in 1 .. n : j # n => fs[j].block < f.block
        BY <1>2, <1>3, <4>1 DEF NestedWell, f
      <4>3. f.block \in Nat /\ \A j \in 1 .. n : fs[j].block \in Nat
        BY <1>2, <1>3 DEF ParserFrame, f
      <4> QED BY <4>2, <4>3
    <3>3. Lists(g.locals, m + 1)
      BY <1>6, <1>7 DEF Lists, l
    <3> QED BY <1>1, <1>8, <3>1, <3>2, <3>3 DEF Alike
  <2> QED BY <1>1, <1>2, <2>1, <2>2 DEF AllListed, hs, s
<1>12. Tidy(h)
  <2>1. ASSUME NEW j \in 1 .. n
        PROVE  /\ LocalsOK(h.decls, fs[j]) /\ OwnSlots(h.decls, fs[j])
               /\ Distinct(fs[j].locals) /\ Differ(fs[j].locals, ps.globals)
               /\ \A i \in 1 .. j - 1 :
                    /\ i \in 1 .. n /\ i # n
                    /\ fs[i].proc = fs[j].proc =>
                        Above(h.decls, fs[i], fs[j]) /\ Differ(fs[i].locals, fs[j].locals)
    <3>1. \A i \in 1 .. j - 1 : i \in 1 .. n /\ i # n
      BY <1>1
    <3>2. /\ LocalsOK(ps.decls, fs[j]) /\ OwnSlots(ps.decls, fs[j])
          /\ Distinct(fs[j].locals) /\ Differ(fs[j].locals, ps.globals)
          /\ \A i \in 1 .. j - 1 : fs[i].proc = fs[j].proc =>
                   Above(ps.decls, fs[i], fs[j]) /\ Differ(fs[i].locals, fs[j].locals)
      BY <1>0, <1>1 DEF Tidy, fs
    <3> QED BY <1>5, <3>1, <3>2, StillListed
  <2>2. LocalsOK(h.decls, g)
    <3>1. \A i \in 1 .. l : LocalOK(h.decls, f, f.locals[i])
      BY <1>2, <1>6, <2>1 DEF LocalsOK, f, l
    <3>2. \A i \in 1 .. l : LocalOK(h.decls, g, g.locals[i])
      <4> SUFFICES ASSUME NEW i \in 1 .. l PROVE LocalOK(h.decls, g, g.locals[i])
        OBVIOUS
      <4>1. LocalOK(h.decls, f, f.locals[i]) /\ g.locals[i] = f.locals[i]
        BY <1>6, <3>1 DEF l
      <4>2. h.decls[f.locals[i].decl].scope_id \in Nat
        <5>1. h.decls \in Seq(Decl)
          BY <1>1 DEF Tables
        <5>2. f.locals[i].decl \in DOMAIN h.decls
          BY <4>1 DEF LocalOK
        <5>3. h.decls[f.locals[i].decl] \in Decl
          BY <5>1, <5>2
        <5> QED BY <5>3 DEF Decl
      <4>3. h.decls[f.locals[i].decl].scope_id < g.scoped
        <5>1. h.decls[f.locals[i].decl].scope_id < f.scoped
          BY <4>1 DEF LocalOK
        <5>2. \A x \in Nat : x < f.scoped => x < g.scoped
          BY <1>1, <1>6
        <5> QED BY <4>2, <5>1, <5>2
      <4>4. g.block = f.block /\ g.proc = f.proc
        BY <1>1 DEF Alike
      <4> QED BY <4>1, <4>3, <4>4 DEF LocalOK
    <3>3. LocalOK(h.decls, g, e)
      BY <1>1, <1>2, <1>6 DEF LocalOK, Alike
    <3> QED BY <1>6, <1>7, <3>2, <3>3 DEF LocalsOK, l
  <2>3. /\ LocalsOK(h.decls, f) /\ OwnSlots(h.decls, f) /\ Distinct(f.locals)
        /\ Differ(f.locals, ps.globals)
    BY <1>2, <2>1 DEF f
  <2>4. OwnSlots(h.decls, g)
    <3>1. \A i \in 1 .. l : h.decls[f.locals[i].decl].scope_id # f.scoped
      BY <1>6, <2>3 DEF LocalsOK, LocalOK, l
    <3>2. \A i \in 1 .. l : h.decls[g.locals[i].decl].scope_id = h.decls[f.locals[i].decl].scope_id
      BY <1>6 DEF l
    <3>3. h.decls[g.locals[l + 1].decl].scope_id = f.scoped
      BY <1>1, <1>6 DEF l
    <3>4. \A i, k \in 1 .. l :
            h.decls[f.locals[i].decl].scope_id = h.decls[f.locals[k].decl].scope_id => i = k
      BY <1>6, <2>3 DEF OwnSlots, l
    <3>5. \A i, k \in 1 .. l + 1 :
            h.decls[g.locals[i].decl].scope_id = h.decls[g.locals[k].decl].scope_id => i = k
      BY <1>7, <3>1, <3>2, <3>3, <3>4
    <3> QED BY <1>6, <3>5 DEF OwnSlots, l
  <2>5. Distinct(g.locals) /\ Differ(g.locals, ps.globals)
    <3>1. \A k \in 1 .. l : f.locals[k].name # name
      BY <1>2, <1>4, <1>6 DEF f, l
    <3>2. Distinct(g.locals)
      BY <1>6, <1>7, <2>3, <3>1 DEF Distinct, l
    <3>3. Differ(g.locals, ps.globals)
      BY <1>4, <1>6, <1>7, <2>3 DEF Differ, l
    <3> QED BY <3>2, <3>3
  <2>6. ASSUME NEW i \in 1 .. n - 1, fs[i].proc = f.proc
        PROVE  Above(h.decls, fs[i], g) /\ Differ(fs[i].locals, g.locals)
    <3>1. i \in 1 .. n /\ Above(h.decls, fs[i], f) /\ Differ(fs[i].locals, f.locals)
      BY <1>2, <2>1, <2>6 DEF f
    <3>2. fs[i].scoped \in Nat
      BY <1>3, <3>1 DEF ParserFrame
    <3>3. Above(h.decls, fs[i], g)
      <4>1. fs[i].scoped <= f.scoped /\ fs[i].scoped <= g.scoped
        BY <1>1, <1>6, <3>1, <3>2 DEF Above
      <4>2. \A k \in 1 .. l : h.decls[g.locals[k].decl].scope_id >= fs[i].scoped
        BY <1>6, <3>1 DEF Above, l
      <4>3. h.decls[g.locals[l + 1].decl].scope_id >= fs[i].scoped
        BY <1>1, <1>6, <3>2, <4>1 DEF l
      <4> QED BY <1>6, <1>7, <4>1, <4>2, <4>3 DEF Above, l
    <3>4. Differ(fs[i].locals, g.locals)
      BY <1>4, <1>6, <1>7, <2>6, <3>1 DEF Differ, l
    <3> QED BY <3>3, <3>4
  <2>7. Distinct(h.globals)
    BY <1>0, <1>1 DEF Tidy
  <2>8. ASSUME NEW j \in 1 .. n
        PROVE  /\ LocalsOK(h.decls, hs[j]) /\ OwnSlots(h.decls, hs[j])
               /\ Distinct(hs[j].locals) /\ Differ(hs[j].locals, ps.globals)
               /\ \A i \in 1 .. j - 1 : hs[i].proc = hs[j].proc =>
                        Above(h.decls, hs[i], hs[j]) /\ Differ(hs[i].locals, hs[j].locals)
    <3>1. CASE j # n
      BY <1>1, <2>1, <3>1
    <3>2. CASE j = n
      <4>1. \A i \in 1 .. n - 1 : hs[i] = fs[i]
        BY <1>1, <1>2, <2>1
      <4>2. g.proc = f.proc
        BY <1>1 DEF Alike
      <4> QED BY <1>1, <2>2, <2>4, <2>5, <2>6, <3>2, <4>1, <4>2
    <3> QED BY <3>1, <3>2
  <2> QED BY <1>1, <2>7, <2>8 DEF Tidy, hs
<1>13. SlotsCounted(h)
  <2>1. ASSUME NEW i \in 1 .. m + 1, ~h.decls[i].is_global
        PROVE  /\ \A j \in 1 .. n : hs[j].nested => hs[j].block # h.decls[i].proc
               /\ \/ \E j \in 1 .. n : /\ hs[j].proc = h.decls[i].proc
                                       /\ h.decls[i].scope_id < hs[j].max
                  \/ /\ \A j \in 1 .. n : hs[j].proc # h.decls[i].proc
                     /\ h.decls[i].scope_id < h.scope_size[h.decls[i].proc]
    <3>1. CASE i \in 1 .. m
      <4> DEFINE c == ps.decls[i]
      <4>1. h.decls[i] = c /\ ~c.is_global /\ c.scope_id \in Nat
        <5>1. c \in Decl
          BY <1>0, <1>1, <3>1 DEF Tables
        <5> QED BY <1>1, <2>1, <3>1, <5>1 DEF Decl
      <4>2. \A j \in 1 .. n : fs[j].nested => fs[j].block # c.proc
        BY <1>0, <1>1, <3>1, <4>1 DEF SlotsCounted, fs
      <4>3. \/ \E j \in 1 .. n : fs[j].proc = c.proc /\ c.scope_id < fs[j].max
            \/ /\ \A j \in 1 .. n : fs[j].proc # c.proc
               /\ c.scope_id < ps.scope_size[c.proc]
        BY <1>0, <1>1, <3>1, <4>1 DEF SlotsCounted, fs
      <4> HIDE DEF c
      <4>4. \A j \in 1 .. n : hs[j].nested => hs[j].block # c.proc
        BY <1>8, <4>2 DEF Alike
      <4>5. ASSUME NEW j \in 1 .. n, fs[j].proc = c.proc, c.scope_id < fs[j].max
            PROVE  hs[j].proc = c.proc /\ c.scope_id < hs[j].max
        <5>1. fs[j].max \in Nat /\ hs[j].max \in Nat
          BY <1>3 DEF ParserFrame
        <5>2. hs[j].max >= fs[j].max
          BY <1>1, <5>1 DEF f, g
        <5> QED BY <1>8, <4>1, <4>5, <5>1, <5>2 DEF Alike
      <4>6. (\A j \in 1 .. n : fs[j].proc # c.proc) => \A j \in 1 .. n : hs[j].proc # c.proc
        BY <1>8 DEF Alike
      <4> QED BY <1>1, <4>1, <4>3, <4>4, <4>5, <4>6
    <3>2. CASE i = m + 1
      <4>1. h.decls[i] = d /\ d.proc = f.proc
        BY <1>1, <3>2
      <4>2. \A j \in 1 .. n : hs[j].nested => hs[j].block # d.proc
        <5>1. \A j \in 1 .. n : fs[j].nested => fs[j].block # f.proc
          BY <1>1, <1>2, ProcNotNested DEF f, fs
        <5> QED BY <1>1, <1>8, <5>1 DEF Alike
      <4>3. g.proc = d.proc /\ d.scope_id < g.max
        <5>1. g.max \in Nat
          BY <1>2, <1>3 DEF ParserFrame, g
        <5> QED BY <1>1, <1>6, <5>1 DEF Alike
      <4> QED BY <1>1, <1>2, <4>1, <4>2, <4>3
    <3> QED BY <1>2, <3>1, <3>2
  <2> QED BY <1>1, <2>1 DEF SlotsCounted, hs
<1> QED BY <1>1, <1>9, <1>10, <1>11, <1>12, <1>13 DEF PInv, h

LEMMA DeclGlobalInv ==
  ASSUME NEW ps, PInv(ps), ps.frames # << >>, NEW name \in Name, Undeclared(ps, name),
         ~Top(ps).return_type
  PROVE  PInv(DeclVar(ps, name, TRUE))
<1> DEFINE h == DeclVar(ps, name, TRUE)
           n == Len(ps.frames)
           m == Len(ps.decls)
           s == Len(ps.scope_size)
           fs == ps.frames
           gs == ps.globals
           e == [name |-> name, decl |-> m + 1]
           d == h.decls[m + 1]
           f == fs[n]
           l == Len(ps.globals)
<1>0. /\ ps \in Tables /\ Nesting(ps) /\ GlobalsOK(ps.decls, gs) /\ AllListed(ps)
      /\ Tidy(ps) /\ SlotsCounted(ps)
  BY DEF PInv
<1>a. Declared(h, ps, name, TRUE)
  BY <1>0, DeclVarIs
<1> HIDE DEF h
<1>1. /\ h \in Tables /\ n \in Nat /\ n >= 1 /\ m \in Nat
      /\ DOMAIN fs = 1 .. n
      /\ DOMAIN ps.decls = 1 .. m /\ DOMAIN h.decls = 1 .. m + 1
      /\ \A i \in 1 .. m : h.decls[i] = ps.decls[i]
      /\ d.name = name /\ d.is_global = TRUE /\ d.block = f.block /\ d.proc = f.proc
      /\ h.scope_size = ps.scope_size
      /\ h.frames = fs
      /\ h.globals = Append(gs, e)
      /\ d.scope_id = l
      /\ h.decls[m + 1] = d
  BY <1>a DEF Declared
<1>2. /\ n \in 1 .. n /\ 1 \in 1 .. n /\ \A i \in 1 .. m : i \in 1 .. m + 1 /\ i # m + 1
      /\ \A i \in 1 .. m + 1 : i \in 1 .. m \/ i = m + 1
      /\ m + 1 \in 1 .. m + 1
  BY <1>1
<1>3. s \in Nat /\ \A j \in 1 .. n : NestedWell(fs, s, j)
  <2>1. s \in Nat
    BY <1>0 DEF Tables
  <2> HIDE DEF n
  <2> QED BY <1>0, <1>1, <2>1 DEF Nesting
<1>4. \A j \in 1 .. n : fs[j].proc = f.proc
  <2>1. f.proc = 1 /\ fs[1].proc = 1
    <3>1. f.return_type <=> f.proc # 1
      BY <1>2, <1>3 DEF NestedWell
    <3>2. ~f.return_type
      BY DEF Top
    <3> HIDE DEF n, f
    <3> QED BY <1>0, <1>1, <1>2, <3>1, <3>2 DEF Nesting
  <2>2. Linked(fs, 1, n)
    <3> HIDE DEF n, fs
    <3> QED BY <1>2, <1>3, <2>1 DEF NestedWell, f
  <2>3. \A j \in 1 .. n : \A k \in j + 1 .. n : k \in 1 + 1 .. n
    BY <1>1
  <2>4. \A j \in 1 .. n : Linked(fs, j, n)
    <3> HIDE DEF n, fs
    <3> QED BY <2>2, <2>3 DEF Linked
  <2> HIDE DEF n, fs
  <2> QED BY <1>2, <1>3, <2>4 DEF NestedWell, f
<1>5. /\ \A k \in DOMAIN gs : gs[k].name # name
      /\ \A j \in 1 .. n : \A k \in DOMAIN fs[j].locals : fs[j].locals[k].name # name
  <2> HIDE DEF n
  <2> QED BY <1>1, <1>4, UndeclaredIs DEF Top, n
<1>6. Extends(h.decls, ps.decls)
  BY <1>1, <1>2 DEF Extends
<1>7. /\ e.name = name /\ e.decl = m + 1 /\ l \in Nat
      /\ DOMAIN gs = 1 .. l /\ DOMAIN h.globals = 1 .. l + 1
      /\ \A i \in 1 .. l : h.globals[i] = gs[i]
      /\ h.globals[l + 1] = e
  <2>1. gs \in Seq(Entry)
    BY <1>0 DEF Tables
  <2> QED BY <1>1, <2>1
<1>8. /\ \A i \in 1 .. l + 1 : i \in 1 .. l \/ i = l + 1
      /\ l + 1 \in 1 .. l + 1 /\ \A i \in 1 .. l : i \in 1 .. l + 1
      /\ l = l + 1 - 1
  BY <1>7
<1> HIDE DEF n, m, s, f, fs, gs, e, d, l
<1>9. Nesting(h)
  BY <1>0, <1>1 DEF Nesting, fs
<1>10. GlobalsOK(h.decls, h.globals)
  <2>1. GlobalsOK(h.decls, gs)
    BY <1>0, <1>6, GlobalsStill
  <2>2. ASSUME NEW i \in 1 .. l + 1
        PROVE  /\ h.globals[i].decl \in DOMAIN h.decls
               /\ h.decls[h.globals[i].decl].name = h.globals[i].name
               /\ h.decls[h.globals[i].decl].is_global
               /\ h.decls[h.globals[i].decl].scope_id = i - 1
    <3>1. CASE i \in 1 .. l
      BY <1>7, <2>1, <3>1 DEF GlobalsOK
    <3>2. CASE i = l + 1
      BY <1>1, <1>2, <1>7, <1>8, <3>2
    <3> QED BY <1>8, <3>1, <3>2
  <2> QED BY <1>7, <2>2 DEF GlobalsOK
<1>11. AllListed(h)
  <2>1. ASSUME NEW i \in 1 .. m
        PROVE  /\ h.decls[i].block \in 1 .. s /\ h.decls[i].proc \in 1 .. s
               /\ h.decls[i].is_global => Lists(h.globals, i)
               /\ \A j \in 1 .. n : ~h.decls[i].is_global /\ h.decls[i].block = fs[j].block
                                        => Lists(fs[j].locals, i)
    <3>1. /\ ps.decls[i].block \in 1 .. s /\ ps.decls[i].proc \in 1 .. s
          /\ ps.decls[i].is_global => Lists(gs, i)
          /\ \A j \in 1 .. n : ~ps.decls[i].is_global /\ ps.decls[i].block = fs[j].block
                                  => Lists(fs[j].locals, i)
      BY <1>0, <1>1 DEF AllListed, fs, gs, s
    <3>2. Lists(gs, i) => Lists(h.globals, i)
      BY <1>7, <1>8 DEF Lists
    <3> QED BY <1>1, <3>1, <3>2
  <2>2. d.block \in 1 .. s /\ d.proc \in 1 .. s /\ Lists(h.globals, m + 1)
    <3>1. f.block \in 1 .. s
      BY <1>2, <1>3 DEF NestedWell, f
    <3>2. PICK i \in 1 .. n : fs[i].block = f.proc
      BY <1>2, <1>3 DEF NestedWell, f
    <3>3. f.proc \in 1 .. s
      BY <1>3, <3>2 DEF NestedWell
    <3>4. Lists(h.globals, m + 1)
      BY <1>7, <1>8 DEF Lists
    <3> QED BY <1>1, <3>1, <3>3, <3>4
  <2> QED BY <1>1, <1>2, <2>1, <2>2 DEF AllListed, s
<1>12. Tidy(h)
  <2>1. ASSUME NEW j \in 1 .. n
        PROVE  /\ LocalsOK(h.decls, fs[j]) /\ OwnSlots(h.decls, fs[j])
               /\ Distinct(fs[j].locals) /\ Differ(fs[j].locals, h.globals)
               /\ \A i \in 1 .. j - 1 : fs[i].proc = fs[j].proc =>
                        Above(h.decls, fs[i], fs[j]) /\ Differ(fs[i].locals, fs[j].locals)
    <3>1. /\ LocalsOK(ps.decls, fs[j]) /\ OwnSlots(ps.decls, fs[j])
          /\ Distinct(fs[j].locals) /\ Differ(fs[j].locals, gs)
          /\ \A i \in 1 .. j - 1 : fs[i].proc = fs[j].proc =>
                   Above(ps.decls, fs[i], fs[j]) /\ Differ(fs[i].locals, fs[j].locals)
      BY <1>0, <1>1 DEF Tidy, fs, gs
    <3>2. Differ(fs[j].locals, h.globals)
      <4>1. ASSUME NEW k \in DOMAIN fs[j].locals, NEW i \in 1 .. l + 1
            PROVE  fs[j].locals[k].name # h.globals[i].name
        <5>1. CASE i \in 1 .. l
          BY <1>7, <3>1, <5>1 DEF Differ
        <5>2. CASE i = l + 1
          BY <1>5, <1>7, <5>2
        <5> QED BY <1>8, <5>1, <5>2
      <4> QED BY <1>7, <4>1 DEF Differ
    <3> QED BY <1>6, <3>1, <3>2, StillListed
  <2>2. Distinct(gs)
    BY <1>0 DEF Tidy, gs
  <2>3. Distinct(h.globals)
    <3>1. \A k, i \in 1 .. l : gs[k].name = gs[i].name => k = i
      BY <1>7, <2>2 DEF Distinct
    <3>2. \A k \in 1 .. l : gs[k].name # name
      BY <1>5, <1>7
    <3> QED BY <1>7, <1>8, <3>1, <3>2 DEF Distinct
  <2> QED BY <1>1, <2>1, <2>3 DEF Tidy
<1>13. SlotsCounted(h)
  <2>1. ASSUME NEW i \in 1 .. m + 1, ~h.decls[i].is_global
        PROVE  /\ \A j \in 1 .. n : fs[j].nested => fs[j].block # h.decls[i].proc
               /\ \/ \E j \in 1 .. n : /\ fs[j].proc = h.decls[i].proc
                                       /\ h.decls[i].scope_id < fs[j].max
                  \/ /\ \A j \in 1 .. n : fs[j].proc # h.decls[i].proc
                     /\ h.decls[i].scope_id < ps.scope_size[h.decls[i].proc]
    <3>1. i \in 1 .. m /\ h.decls[i] = ps.decls[i]
      BY <1>1, <1>2, <2>1
    <3>2. /\ \A j \in 1 .. n : fs[j].nested => fs[j].block # ps.decls[i].proc
          /\ \/ \E j \in 1 .. n : /\ fs[j].proc = ps.decls[i].proc
                                  /\ ps.decls[i].scope_id < fs[j].max
             \/ /\ \A j \in 1 .. n : fs[j].proc # ps.decls[i].proc
                /\ ps.decls[i].scope_id < ps.scope_size[ps.decls[i].proc]
      BY <1>0, <1>1, <2>1, <3>1 DEF SlotsCounted, fs
    <3> QED BY <3>1, <3>2
  <2> QED BY <1>1, <2>1 DEF SlotsCounted
<1> QED BY <1>1, <1>9, <1>10, <1>11, <1>12, <1>13 DEF PInv, h

-----------------------------------------------------------------------------
(* multi_scanner_scan_tok                                                  *)

\* The largest member of a set of naturals that has a bound.
LEMMA MaxIs ==
  ASSUME NEW n \in Nat, NEW S \in SUBSET (0 .. n), S # {}
  PROVE  Max(S) \in S /\ \A x \in S : x <= Max(S)
<1> DEFINE W == {x .. n : x \in S}
<1>1. IsWellFoundedOn(StrictSubsetOrdering(0 .. n), SUBSET (0 .. n))
  <2>1. IsFiniteSet(0 .. n)
    BY FS_Interval
  <2>2. FiniteSubsetsOf(0 .. n) = SUBSET (0 .. n)
    BY <2>1, FS_FiniteSubsetsOfFinite
  <2> QED BY <2>1, <2>2, FS_StrictSubsetOrderingWellFounded
<1>2. W \subseteq SUBSET (0 .. n) /\ W # {}
  <2>1. \A x \in S : x .. n \in SUBSET (0 .. n) /\ x .. n \in W
    OBVIOUS
  <2>2. \A u \in W : u \in SUBSET (0 .. n)
    BY <2>1
  <2> HIDE DEF W
  <2> QED BY <2>1, <2>2
<1>3. PICK w \in W : \A u \in W : ~(<<u, w>> \in StrictSubsetOrdering(0 .. n))
  <2> HIDE DEF W
  <2> QED BY <1>1, <1>2, WFMin
<1>4. PICK m \in S : w = m .. n
  OBVIOUS
<1>5. ASSUME NEW x \in S PROVE x <= m
  <2> SUFFICES ASSUME x > m PROVE FALSE
    OBVIOUS
  <2>1. x .. n \in W /\ x .. n \in SUBSET (0 .. n) /\ w \in SUBSET (0 .. n)
    OBVIOUS
  <2>2. x .. n \subseteq w /\ m \in w /\ m \notin x .. n
    BY <1>4
  <2> QED BY <1>3, <2>1, <2>2 DEF StrictSubsetOrdering
<1>6. m \in S /\ \A x \in S : m >= x
  BY <1>5
<1>7. Max(S) \in S /\ \A x \in S : Max(S) >= x
  BY <1>6 DEF Max
<1> QED BY <1>7

Scanner == [path : Path, pos : Nat \ {0}]

LEMMA DepthIs ==
  ASSUME NEW s \in Seq(Scanner)
  PROVE  /\ Depth(s) \in 0 .. Len(s)
         /\ Depth(s) # 0 => Depth(s) \in Unread(s)
         /\ \A k \in Unread(s) : k <= Depth(s)
<1>1. Len(s) \in Nat /\ DOMAIN s = 1 .. Len(s)
  OBVIOUS
<1>2. Unread(s) \cup {0} \in SUBSET (0 .. Len(s)) /\ Unread(s) \cup {0} # {}
  <2>1. \A k \in 1 .. Len(s) : k \in 0 .. Len(s)
    OBVIOUS
  <2>2. 0 \in 0 .. Len(s)
    OBVIOUS
  <2> QED BY <1>1, <2>1, <2>2 DEF Unread
<1>3. /\ Depth(s) \in Unread(s) \cup {0}
      /\ \A x \in Unread(s) \cup {0} : x <= Depth(s)
  BY <1>1, <1>2, MaxIs DEF Depth
<1> QED BY <1>2, <1>3

\* The files open after a request for a token.
LEMMA PoppedIs ==
  ASSUME NEW s \in Seq(Scanner)
  PROVE  LET d == Depth(s)
         IN  /\ Popped(s) \in Seq(Scanner) /\ Len(Popped(s)) = d
             /\ \A k \in 1 .. d : /\ Popped(s)[k].path = s[k].path
                                  /\ Popped(s)[k].pos = s[k].pos + IF k = d THEN 1 ELSE 0
<1> DEFINE d == Depth(s)
           F(k) == IF k = d THEN [s[k] EXCEPT !.pos = @ + 1] ELSE s[k]
<1>1. Len(s) \in Nat /\ DOMAIN s = 1 .. Len(s) /\ d \in 0 .. Len(s)
  BY DepthIs
<1>2. ASSUME NEW k \in 1 .. d
      PROVE  /\ F(k) \in Scanner /\ F(k).path = s[k].path
             /\ F(k).pos = s[k].pos + IF k = d THEN 1 ELSE 0
  <2>1. s[k] \in Scanner
    BY <1>1
  <2> HIDE DEF d
  <2>2. CASE k = d
    BY <2>1, <2>2 DEF Scanner
  <2>3. CASE k # d
    BY <2>1, <2>3 DEF Scanner
  <2> QED BY <2>2, <2>3
<1>3. Popped(s) = [k \in 1 .. d |-> F(k)]
  BY DEF Popped
<1> HIDE DEF F, d
<1>4. Popped(s) \in Seq(Scanner) /\ Len(Popped(s)) = d /\ \A k \in 1 .. d : Popped(s)[k] = F(k)
  BY <1>1, <1>2, <1>3
<1> QED BY <1>2, <1>4 DEF d

\* No file is open twice.
Apart(s) == \A i, j \in DOMAIN s : s[i].path = s[j].path => i = j

\* The invariant of the scanner.
TokenOK(x, o, m, t) ==
  /\ o # << >>
  /\ t.file = o[Len(o)].path /\ t.file \in m
  /\ t.word \in Word \cup Include /\ t.type = t.word.type
  /\ o[Len(o)].pos - 1 \in DOMAIN x[t.file]
  /\ t.word = x[t.file][o[Len(o)].pos - 1]

SInv(x, v, o, m, t, ph) ==
  /\ v \in Seq(Path) /\ o \in Seq(Scanner) /\ Apart(o)
  /\ Len(v) <= MAX_VISITED /\ Len(o) <= MAX_OPEN
  /\ Paths(o) \subseteq Values(v)
  /\ ph \in {"init", "parse"} => m = Paths(o)
  /\ ph = "init" => v = << >> /\ o = << >>
  /\ ph = "parse" => TokenOK(x, o, m, t)
  /\ ph = "parsed" => o = << >>

LEMMA NextTokenIs ==
  ASSUME NEW s \in Seq(Scanner), text \in Texts, Depth(s) # 0
  PROVE  /\ NextToken(s) = text[s[Depth(s)].path][s[Depth(s)].pos]
         /\ s[Depth(s)].pos \in DOMAIN text[s[Depth(s)].path]
         /\ NextToken(s) \in Word \cup Include \cup Invalid
         /\ NextToken(s) # EOF
<1> DEFINE d == Depth(s)
           p == s[d].path
<1>1. d \in Unread(s) /\ d \in DOMAIN s
  BY DepthIs DEF Unread
<1>2. s[d] \in Scanner
  BY <1>1
<1>3. text[p] \in Seq(Word \cup Include \cup Invalid) /\ s[d].pos \in Nat \ {0}
  BY <1>2, TextsAssumption DEF Scanner
<1>4. s[d].pos <= Len(text[p])
  BY <1>1 DEF Unread
<1>5. s[d].pos \in DOMAIN text[p]
  BY <1>3, <1>4
<1>6. NextToken(s) = text[p][s[d].pos]
  BY DEF NextToken
<1>7. NextToken(s) \in Word \cup Include \cup Invalid
  <2> HIDE DEF p, d
  <2> QED BY <1>3, <1>5, <1>6
<1>8. NextToken(s) # EOF
  <2>1. "word" # "eof" /\ "include" # "eof" /\ "invalid" # "eof"
    OBVIOUS
  <2>2. NextToken(s).type # "eof"
    BY <1>7, <2>1, WordAssumption DEF Include, Invalid
  <2> QED BY <2>2 DEF EOF
<1> QED BY <1>5, <1>6, <1>7, <1>8

LEMMA ReadTokKeeps ==
  ASSUME text \in Texts, NEW s \in Seq(Scanner), Apart(s), NEW v \in Seq(Path),
         Len(v) <= MAX_VISITED, Len(s) <= MAX_OPEN, Paths(s) \subseteq Values(v),
         NEW whole \in BOOLEAN, NEW m, m = Paths(s), ReadTok(s, m, whole), text' = text
  PROVE  SInv(text, v, open', managed', tok', phase')
<1> DEFINE d == Depth(s)
           o == Popped(s)
<1>1. /\ Len(s) \in Nat /\ DOMAIN s = 1 .. Len(s) /\ d \in 0 .. Len(s)
      /\ o \in Seq(Scanner) /\ Len(o) = d /\ DOMAIN o = 1 .. d
      /\ \A k \in 1 .. d : k \in DOMAIN s /\ o[k].path = s[k].path
      /\ \A k \in 1 .. d : k = d => o[k].pos = s[k].pos + 1
  <2>1. o \in Seq(Scanner) /\ Len(o) = d
    BY PoppedIs
  <2>2. \A k \in 1 .. d : o[k].path = s[k].path
    BY PoppedIs
  <2>3. \A k \in 1 .. d : k = d => o[k].pos = s[k].pos + 1
    BY PoppedIs
  <2>4. Len(s) \in Nat /\ DOMAIN s = 1 .. Len(s) /\ d \in 0 .. Len(s)
    BY DepthIs
  <2>5. \A k \in 1 .. d : k \in DOMAIN s
    BY <2>4
  <2> HIDE DEF d, o
  <2> QED BY <2>1, <2>2, <2>3, <2>4, <2>5
<1>2. open' = o /\ managed' = m \ Paths(SubSeq(s, d + 1, Len(s)))
  BY <1>1 DEF ReadTok
<1> HIDE DEF d, o
<1>3. Apart(o) /\ Paths(o) \subseteq Paths(s) /\ Len(o) <= MAX_OPEN
  <2>1. Apart(o)
    BY <1>1 DEF Apart
  <2>2. Paths(o) \subseteq Paths(s)
    BY <1>1 DEF Paths
  <2>3. Len(o) <= MAX_OPEN
    BY <1>1, LimitAssumption
  <2> QED BY <2>1, <2>2, <2>3
<1>4. managed' = Paths(o)
  <2> DEFINE r == SubSeq(s, d + 1, Len(s))
  <2>1. /\ DOMAIN r = 1 .. Len(s) - d
        /\ \A i \in 1 .. Len(s) - d : r[i] = s[d + i]
    BY <1>1
  <2>2. /\ \A k \in DOMAIN s : k \in 1 .. d \/ (k - d \in 1 .. Len(s) - d /\ d + (k - d) = k)
        /\ \A i \in 1 .. Len(s) - d : d + i \in DOMAIN s /\ d + i \notin 1 .. d
    BY <1>1
  <2> HIDE DEF r
  <2>3. ASSUME NEW x \in Paths(o) PROVE x \in m /\ x \notin Paths(r)
    <3>1. PICK k \in 1 .. d : x = s[k].path /\ k \in DOMAIN s
      BY <1>1 DEF Paths
    <3>2. ASSUME NEW i \in 1 .. Len(s) - d, s[d + i].path = x PROVE FALSE
      BY <2>2, <3>1, <3>2 DEF Apart
    <3> QED BY <2>1, <3>1, <3>2 DEF Paths
  <2>4. ASSUME NEW x \in m, x \notin Paths(r) PROVE x \in Paths(o)
    <3>1. PICK k \in DOMAIN s : x = s[k].path
      BY DEF Paths
    <3>2. k \in 1 .. d
      BY <2>1, <2>2, <2>4, <3>1 DEF Paths
    <3> QED BY <1>1, <3>1, <3>2 DEF Paths
  <2> QED BY <1>2, <2>3, <2>4 DEF r
<1>5. ASSUME phase' = "parse" PROVE TokenOK(text, open', managed', tok')
  <2>1. d # 0
    BY <1>5 DEF ReadTok, NextToken, EOF, d
  <2>2. /\ NextToken(s) = text[s[d].path][s[d].pos]
        /\ s[d].pos \in DOMAIN text[s[d].path]
        /\ NextToken(s) \in Word \cup Include \cup Invalid
    BY <2>1, NextTokenIs DEF d
  <2>3. tok' = [type |-> NextToken(s).type, file |-> s[d].path, word |-> NextToken(s)]
    BY <2>1 DEF ReadTok, d
  <2>4. NextToken(s) \notin Invalid
    BY <1>5 DEF ReadTok, Invalid
  <2>5. d \in 1 .. d /\ o # << >> /\ o[d].path = s[d].path /\ o[d].pos = s[d].pos + 1
    BY <1>1, <2>1
  <2>6. s[d].pos \in Nat
    <3>1. s[d] \in Scanner
      BY <1>1, <2>5
    <3> QED BY <3>1 DEF Scanner
  <2>7. o[Len(o)].pos - 1 = s[d].pos /\ o[Len(o)].path = s[d].path
    BY <1>1, <2>5, <2>6
  <2>8. s[d].path \in managed'
    BY <1>1, <1>4, <2>5 DEF Paths
  <2> QED BY <1>2, <2>2, <2>3, <2>4, <2>5, <2>7, <2>8 DEF TokenOK
<1>6. phase' \in {"parse", "failed", "parsed", "lost"}
  BY DEF ReadTok
<1>7. phase' = "parsed" => open' = << >>
  <2>1. ASSUME phase' = "parsed" PROVE d = 0
    BY <2>1, NextTokenIs DEF ReadTok, d
  <2> QED BY <1>1, <1>2, <2>1
<1> QED BY <1>1, <1>2, <1>3, <1>4, <1>5, <1>6, <1>7 DEF SInv

-----------------------------------------------------------------------------
(* A frame stays open: the parser closes the outermost one at the end only. *)

LEMMA NewFrameNotEmpty ==
  ASSUME NEW ps, PInv(ps), ps.frames # << >>, NEW nested \in BOOLEAN, NEW word \in Word
  PROVE  NewFrame(ps, nested, word).frames # << >>
<1>1. PICK h : h = NewFrame(ps, nested, word)
  OBVIOUS
<1>2. Deeper(h, ps, nested, word)
  BY <1>1, NewFrameIs DEF PInv
<1>3. Len(ps.frames) + 1 \in DOMAIN h.frames
  BY <1>2 DEF Deeper
<1> QED BY <1>1, <1>3

LEMMA DeclNotEmpty ==
  ASSUME NEW ps, PInv(ps), ps.frames # << >>, NEW name \in Name, NEW is_global \in BOOLEAN
  PROVE  DeclVar(ps, name, is_global).frames # << >>
<1>1. PICK h : h = DeclVar(ps, name, is_global)
  OBVIOUS
<1>2. Declared(h, ps, name, is_global)
  BY <1>1, DeclVarIs DEF PInv
<1>3. Len(ps.frames) \in DOMAIN h.frames
  BY <1>2 DEF Declared
<1> QED BY <1>1, <1>3

LEMMA CloseNotEmpty ==
  ASSUME NEW ps, PInv(ps), ps.frames # << >>, ~Outside(ps)
  PROVE  CloseFrame(ps).frames # << >> /\ Top(ps).word \in Word
<1>1. PICK h : h = CloseFrame(ps)
  OBVIOUS
<1>2. Shallower(h, ps)
  BY <1>1, CloseFrameIs DEF PInv
<1>3. /\ Len(ps.frames) \in Nat /\ Len(ps.frames) >= 1 /\ Len(ps.frames) # 1
      /\ Len(ps.frames) \in DOMAIN ps.frames
      /\ DOMAIN h.frames = 1 .. Len(ps.frames) - 1
  BY <1>2 DEF Shallower, Outside
<1>4. 1 \in DOMAIN h.frames
  <2>1. ASSUME NEW n \in Nat, n >= 1, n # 1 PROVE 1 \in 1 .. n - 1
    BY <2>1
  <2> QED BY <1>3, <2>1
<1>5. Top(ps).word \in Word
  BY <1>3 DEF PInv, Nesting, NestedWell, Top
<1> QED BY <1>1, <1>4, <1>5

-----------------------------------------------------------------------------
(* Every action keeps the invariant.                                       *)

IInv ==
  /\ text \in Texts
  /\ PInv(parser)
  /\ phase # "over" => parser.frames # << >>
  /\ SInv(text, visited, open, managed, tok, phase)

LEMMA TokenWord ==
  ASSUME IInv, phase = "parse", tok.type = "word"
  PROVE  /\ tok.word \in Word
         /\ tok.word.op \in {"decl", "global", "use", "default", "proc"} => tok.word.name \in Name
         /\ tok.word.op = "proc" => tok.word.param \in Name \cup {NoName}
<1>1. tok.word \in Word \cup Include /\ tok.word.type = "word"
  BY DEF IInv, SInv, TokenOK
<1>2. tok.word \notin Include
  BY <1>1 DEF Include
<1> QED BY <1>1, <1>2, OpAssumption

LEMMA TakeKeeps ==
  ASSUME IInv, phase = "parse", NEW ok, NEW ps, NEW opens \in BOOLEAN, Take(ok, ps, opens),
         ok => PInv(ps) /\ ps.frames # << >>
  PROVE  IInv'
<1>1. /\ visited \in Seq(Path) /\ open \in Seq(Scanner) /\ Apart(open)
      /\ Len(visited) <= MAX_VISITED /\ Len(open) <= MAX_OPEN
      /\ Paths(open) \subseteq Values(visited) /\ managed = Paths(open)
      /\ text \in Texts /\ PInv(parser) /\ parser.frames # << >>
  BY DEF IInv, SInv
<1>2. CASE ok /\ parser' = ps /\ ParseWord(Outside(ps) /\ ~opens)
  <2>1. (Outside(ps) /\ ~opens) \in BOOLEAN
    BY DEF Outside
  <2>2. text' = text /\ visited' = visited /\ ReadTok(open, managed, Outside(ps) /\ ~opens)
    BY <1>2 DEF ParseWord
  <2>3. SInv(text, visited, open', managed', tok', phase')
    BY <1>1, <2>1, <2>2, ReadTokKeeps
  <2>4. PInv(parser') /\ parser'.frames # << >>
    BY <1>2
  <2> QED BY <1>1, <2>2, <2>3, <2>4 DEF IInv, SInv
<1>3. CASE RejectWord /\ UNCHANGED scopeVars
  <2>1. /\ phase' = "failed" /\ text' = text /\ visited' = visited /\ open' = open
        /\ managed' = managed /\ tok' = tok /\ parser' = parser
    BY <1>3 DEF RejectWord, scopeVars
  <2>2. SInv(text, visited', open', managed', tok', phase')
    BY <1>1, <2>1 DEF SInv
  <2> QED BY <1>1, <2>1, <2>2 DEF IInv
<1> QED BY <1>2, <1>3 DEF Take

\* multi_scanner_visit, from the initial state or from a token.
LEMMA VisitKeeps ==
  ASSUME text \in Texts, text' = text,
         visited \in Seq(Path), open \in Seq(Scanner), Apart(open),
         Len(visited) <= MAX_VISITED, Len(open) <= MAX_OPEN,
         Paths(open) \subseteq Values(visited), managed = Paths(open),
         NEW p \in Path, Visit(p)
  PROVE  SInv(text, visited', open', managed', tok', phase')
<1>1. CASE Seen(p) /\ ReadTok(open, managed, FALSE) /\ visited' = visited
  <2>1. SInv(text, visited, open', managed', tok', phase')
    BY <1>1, ReadTokKeeps
  <2> QED BY <1>1, <2>1
<1>2. CASE phase' = "failed" /\ visited' = visited /\ open' = open
  BY <1>2 DEF SInv
<1>3. CASE ~Seen(p) /\ ~NoRoom /\ visited' = Append(visited, p)
  <2> DEFINE s == Append(open, Frame(p))
             v == Append(visited, p)
             n == Len(open)
  <2>1. /\ v \in Seq(Path) /\ Len(v) <= MAX_VISITED
        /\ s \in Seq(Scanner) /\ Len(s) <= MAX_OPEN
        /\ n \in Nat /\ DOMAIN open = 1 .. n /\ DOMAIN s = 1 .. n + 1
        /\ \A i \in 1 .. n : s[i] = open[i]
        /\ s[n + 1].path = p
    <3>1. Frame(p) \in Scanner /\ Frame(p).path = p
      BY DEF Frame, Scanner
    <3>2. Len(visited) < MAX_VISITED /\ Len(open) < MAX_OPEN
      BY <1>3, LimitAssumption DEF NoRoom
    <3>3. v \in Seq(Path) /\ Len(v) <= MAX_VISITED
      BY <3>2, LimitAssumption
    <3> QED BY <3>1, <3>2, <3>3, LimitAssumption
  <2>2. /\ \A x \in Values(visited) : x \in Values(v)
        /\ p \in Values(v)
    <3>1. /\ Len(visited) \in Nat /\ DOMAIN visited = 1 .. Len(visited)
          /\ DOMAIN v = 1 .. Len(visited) + 1 /\ v[Len(visited) + 1] = p
          /\ \A i \in 1 .. Len(visited) : v[i] = visited[i] /\ i \in 1 .. Len(visited) + 1
          /\ Len(visited) + 1 \in 1 .. Len(visited) + 1
      OBVIOUS
    <3> HIDE DEF v
    <3> QED BY <3>1 DEF Values
  <2>3. p \notin Values(visited)
    BY <1>3 DEF Seen, Values
  <2>4. Paths(open) \subseteq Values(v)
    BY <2>2
  <2>5. \A i \in 1 .. n : open[i].path # p
    BY <2>1, <2>3 DEF Paths
  <2>6. \A i \in 1 .. n + 1 : i \in 1 .. n \/ i = n + 1
    BY <2>1
  <2>7. /\ \A i \in 1 .. n : i \in 1 .. n + 1
        /\ n + 1 \in 1 .. n + 1
    BY <2>1
  <2> HIDE DEF s, v, n
  <2>8. Apart(s)
    <3> SUFFICES ASSUME NEW i \in 1 .. n + 1, NEW j \in 1 .. n + 1, s[i].path = s[j].path
                 PROVE  i = j
      BY <2>1 DEF Apart
    <3>1. CASE i \in 1 .. n /\ j \in 1 .. n
      BY <2>1, <3>1 DEF Apart
    <3>2. CASE i = n + 1 \/ j = n + 1
      BY <2>1, <2>5, <2>6, <3>2
    <3> QED BY <2>6, <3>1, <3>2
  <2>9. Paths(s) = managed \cup {p}
    <3>1. \A x : x \in Paths(s) <=> \E i \in 1 .. n + 1 : x = s[i].path
      BY <2>1 DEF Paths
    <3>2. \A x : x \in Paths(open) <=> \E i \in 1 .. n : x = open[i].path
      BY <2>1 DEF Paths
    <3>3. \A x : x \in Paths(s) <=> x \in Paths(open) \/ x = p
      BY <2>1, <2>6, <2>7, <3>1, <3>2
    <3> QED BY <3>3
  <2>10. Paths(s) \subseteq Values(v)
    BY <2>2, <2>9
  <2>11. CASE ReadTok(s, managed \cup {p}, FALSE)
    <3>1. SInv(text, v, open', managed', tok', phase')
      BY <2>1, <2>8, <2>9, <2>10, <2>11, ReadTokKeeps
    <3> QED BY <1>3, <3>1 DEF v
  <2>12. CASE phase' = "failed" /\ open' = open
    <3>1. visited' = v
      BY <1>3 DEF v
    <3> QED BY <2>1, <2>4, <2>12, <3>1 DEF SInv
  <2> QED BY <1>3, <2>11, <2>12 DEF Visit, s
<1> QED BY <1>1, <1>2, <1>3 DEF Visit

LEMMA InitIs == ScopesInit => IInv
<1> SUFFICES ASSUME ScopesInit PROVE IInv
  OBVIOUS
<1> DEFINE f == Outermost(1, FALSE, EOF)
           ps == [frames |-> <<f>>, globals |-> << >>, decls |-> << >>, scope_size |-> <<0>>]
<1>1. parser = ps
  BY DEF ScopesInit
<1>2. /\ f \in ParserFrame /\ f.locals = << >> /\ ~f.nested /\ f.block = 1 /\ f.proc = 1
      /\ f.return_type = FALSE
  BY DEF Outermost, ParserFrame
<1> HIDE DEF f
<1>3. /\ ps \in Tables /\ ps.frames = <<f>> /\ ps.globals = << >> /\ ps.decls = << >>
      /\ Len(ps.scope_size) = 1 /\ DOMAIN <<f>> = {1} /\ <<f>>[1] = f
      /\ DOMAIN << >> = {}
  <2>1. /\ <<f>> \in Seq(ParserFrame) /\ << >> \in Seq(Entry) /\ << >> \in Seq(Decl)
        /\ <<0>> \in Seq(Nat)
    BY <1>2
  <2>2. ps \in Tables
    BY <2>1 DEF Tables
  <2> QED BY <2>2
<1> HIDE DEF ps
<1>4. Nesting(ps)
  <2>1. NestedWell(<<f>>, 1, 1)
    <3>1. /\ \A i \in 1 .. 1 : i = 1
          /\ 1 \in 1 .. 1
          /\ \A i \in 1 .. 1 - 1 : FALSE
          /\ \A k \in 1 + 1 .. 1 : FALSE
      OBVIOUS
    <3>2. Linked(<<f>>, 1, 1)
      BY <3>1 DEF Linked
    <3> QED BY <1>2, <1>3, <3>1, <3>2 DEF NestedWell
  <2> QED BY <1>2, <1>3, <2>1 DEF Nesting
<1>5. Tidy(ps)
  <2>1. \A i \in 1 .. 1 - 1 : FALSE
    OBVIOUS
  <2> QED BY <1>2, <1>3, <2>1 DEF Tidy, LocalsOK, OwnSlots, Distinct, Differ
<1>6. AllListed(ps) /\ GlobalsOK(ps.decls, ps.globals) /\ SlotsCounted(ps)
  BY <1>3 DEF AllListed, GlobalsOK, SlotsCounted
<1>7. PInv(parser) /\ parser.frames # << >>
  BY <1>1, <1>3, <1>4, <1>5, <1>6 DEF PInv
<1>8. SInv(text, visited, open, managed, tok, phase)
  <2>1. /\ visited = << >> /\ open = << >> /\ managed = {} /\ phase = "init"
    BY DEF ScopesInit, Init
  <2>2. Paths(<< >>) = {}
    BY DEF Paths
  <2>3. << >> \in Seq(Path) /\ << >> \in Seq(Scanner) /\ Len(<< >>) = 0 /\ Apart(<< >>)
    BY DEF Apart
  <2> QED BY <2>1, <2>2, <2>3, LimitAssumption DEF SInv
<1> QED BY <1>7, <1>8 DEF IInv, ScopesInit, Init

LEMMA NextKeeps == IInv /\ [ScopesNext]_allVars => IInv'
<1> SUFFICES ASSUME IInv, [ScopesNext]_allVars PROVE IInv'
  OBVIOUS
<1>0. /\ text \in Texts /\ PInv(parser) /\ SInv(text, visited, open, managed, tok, phase)
      /\ phase # "over" => parser.frames # << >>
  BY DEF IInv
<1>1. CASE Begin /\ UNCHANGED scopeVars
  <2>1. SInv(text, visited', open', managed', tok', phase')
    BY <1>0, <1>1, RootAssumption, VisitKeeps DEF Begin, SInv
  <2> QED BY <1>0, <1>1, <2>1 DEF Begin, scopeVars, IInv
<1>2. CASE Do
  BY <1>0, <1>2, TakeKeeps DEF Do, At
<1>3. CASE Declare
  <2>1. phase = "parse" /\ tok.type = "word" /\ tok.word.op = "decl"
    BY <1>3 DEF Declare, At
  <2>2. PICK h : h = DeclVar(parser, tok.word.name, FALSE)
    OBVIOUS
  <2>3. Undeclared(parser, tok.word.name) => PInv(h) /\ h.frames # << >>
    BY <1>0, <2>1, <2>2, TokenWord, DeclLocalInv, DeclNotEmpty
  <2>4. Take(Undeclared(parser, tok.word.name), h, FALSE)
    BY <1>3, <2>2 DEF Declare
  <2> QED BY <2>1, <2>3, <2>4, TakeKeeps
<1>4. CASE DeclareGlobal
  <2> DEFINE ok == ~Top(parser).return_type /\ Undeclared(parser, tok.word.name)
  <2>1. phase = "parse" /\ tok.type = "word" /\ tok.word.op = "global"
    BY <1>4 DEF DeclareGlobal, At
  <2>2. PICK h : h = DeclVar(parser, tok.word.name, TRUE)
    OBVIOUS
  <2>3. ok => PInv(h) /\ h.frames # << >>
    BY <1>0, <2>1, <2>2, TokenWord, DeclGlobalInv, DeclNotEmpty
  <2>4. Take(ok, h, FALSE)
    BY <1>4, <2>2 DEF DeclareGlobal
  <2> HIDE DEF ok
  <2> QED BY <2>1, <2>3, <2>4, TakeKeeps
<1>5. CASE Use
  BY <1>0, <1>5, TakeKeeps DEF Use, At
<1>6. CASE RecordDefault
  BY <1>0, <1>6, TakeKeeps DEF RecordDefault, At
<1>7. CASE Open
  <2>1. phase = "parse" /\ tok.type = "word"
    BY <1>7 DEF Open, At
  <2>2. PICK h : h = NewFrame(parser, TRUE, tok.word)
    OBVIOUS
  <2>3. PInv(h) /\ h.frames # << >>
    BY <1>0, <2>1, <2>2, TokenWord, NewFrameInv, NewFrameNotEmpty
  <2>4. Take(Room, h, TRUE)
    BY <1>7, <2>2 DEF Open
  <2> QED BY <2>1, <2>3, <2>4, TakeKeeps
<1>8. CASE Proc
  <2>1. /\ phase = "parse" /\ tok.type = "word" /\ tok.word.op = "proc"
        /\ tok.word \in Word /\ tok.word.param \in Name \cup {NoName}
    BY <1>8, TokenWord DEF Proc, At
  <2>2. PICK h : h = NewFrame(parser, FALSE, tok.word)
    OBVIOUS
  <2>3. PInv(h) /\ h.frames # << >>
    BY <1>0, <2>1, <2>2, NewFrameInv, NewFrameNotEmpty
  <2>4. PICK g : g = IF tok.word.param = NoName THEN h ELSE DeclVar(h, tok.word.param, FALSE)
    OBVIOUS
  <2>5. (tok.word.param # NoName => Undeclared(h, tok.word.param)) => PInv(g) /\ g.frames # << >>
    BY <2>1, <2>3, <2>4, DeclLocalInv, DeclNotEmpty
  <2>6. PICK k : k = DeclVar(g, ThisProc, FALSE)
    OBVIOUS
  <2>7. PInv(g) /\ g.frames # << >> /\ Undeclared(g, ThisProc) => PInv(k) /\ k.frames # << >>
    BY <2>6, NameAssumption, DeclLocalInv, DeclNotEmpty
  <2> DEFINE ok == /\ Room
                   /\ tok.word.param # NoName => Undeclared(h, tok.word.param)
                   /\ Undeclared(g, ThisProc)
  <2>8. Take(ok, k, TRUE)
    BY <1>8, <2>2, <2>4, <2>6 DEF Proc
  <2>9. ok => PInv(k) /\ k.frames # << >>
    BY <2>5, <2>7
  <2> HIDE DEF ok
  <2> QED BY <2>1, <2>8, <2>9, TakeKeeps
<1>9. CASE Close
  <2>1. phase = "parse" /\ tok.type = "word" /\ parser.frames # << >>
    BY <1>0, <1>9 DEF Close, At
  <2>2. PICK c : c = CloseFrame(parser)
    OBVIOUS
  <2>3. CASE RejectWord /\ UNCHANGED scopeVars
    BY <2>1, <2>3, TakeKeeps DEF Take
  <2>4. CASE ~Outside(parser) /\ ~owed
    <3>1. PInv(c) /\ c.frames # << >> /\ Top(parser).word \in Word
      BY <1>0, <2>1, <2>2, <2>4, CloseFrameInv, CloseNotEmpty
    <3>2. CASE Top(parser).word.op # "proc"
      <4>1. Take(TRUE, c, FALSE)
        BY <1>9, <2>2, <2>4, <3>2 DEF Close
      <4> QED BY <2>1, <3>1, <4>1, TakeKeeps
    <3>3. CASE Top(parser).word.op = "proc"
      <4>1. PICK n : n = Top(parser).word.name
        OBVIOUS
      <4>2. n \in Name
        BY <3>1, <3>3, <4>1, OpAssumption
      <4>3. PICK b \in BOOLEAN : b = ~Top(c).return_type
        OBVIOUS
      <4>4. PICK h : h = DeclVar(c, n, b)
        OBVIOUS
      <4>5. Take(Undeclared(c, n), h, FALSE)
        BY <1>9, <2>2, <2>4, <3>3, <4>1, <4>3, <4>4 DEF Close
      <4>6. Undeclared(c, n) => PInv(h) /\ h.frames # << >>
        BY <3>1, <4>2, <4>3, <4>4, DeclLocalInv, DeclGlobalInv, DeclNotEmpty
      <4> QED BY <2>1, <4>5, <4>6, TakeKeeps
    <3> QED BY <3>2, <3>3
  <2> QED BY <1>9, <2>3, <2>4 DEF Close
<1>10. CASE IncludeFile
  <2>1. /\ phase = "parse" /\ tok.type = "include" /\ Visit(tok.word.path)
        /\ text' = text /\ parser' = parser
    BY <1>10 DEF IncludeFile, ParseInclude
  <2>2. tok.word.path \in Path
    <3>1. tok.word \in Word \cup Include /\ tok.word.type = "include"
      BY <1>0, <2>1 DEF SInv, TokenOK
    <3>2. tok.word \in Include
      BY <3>1, WordAssumption
    <3> QED BY <3>2 DEF Include
  <2>3. SInv(text, visited', open', managed', tok', phase')
    BY <1>0, <2>1, <2>2, VisitKeeps DEF SInv
  <2> QED BY <1>0, <2>1, <2>3 DEF IInv
<1>11. CASE End
  <2>1. /\ phase \in {"parsed", "failed"} /\ managed' = {} /\ phase' = "over"
        /\ text' = text /\ visited' = visited /\ open' = open
        /\ parser' = IF phase = "parsed" THEN CloseFrame(parser) ELSE parser
    BY <1>11 DEF End, Finish
  <2>2. SInv(text, visited', open', managed', tok', phase')
    BY <1>0, <2>1 DEF SInv
  <2>3. PInv(parser')
    BY <1>0, <2>1, CloseFrameInv
  <2> QED BY <1>0, <2>1, <2>2, <2>3 DEF IInv
<1>12. CASE UNCHANGED allVars
  BY <1>12 DEF IInv, allVars, vars, scopeVars
<1> QED BY <1>1, <1>2, <1>3, <1>4, <1>5, <1>6, <1>7, <1>8, <1>9, <1>10, <1>11, <1>12
        DEF ScopesNext

-----------------------------------------------------------------------------
(* The text of the files                                                   *)

\* In every state reachable from an initial one the invariant holds.
LEMMA TablesInvariant == ScopesSpec => []IInv
<1>1. ScopesInit => IInv
  BY InitIs
<1>2. IInv /\ [ScopesNext]_allVars => IInv'
  BY NextKeeps
<1> QED BY <1>1, <1>2, PTL DEF ScopesSpec

\* The sources in memory are those of the open files, so the token the parser looks
\* at points into one of them, and both tables of files stay within their arrays,
\* however the files include each other (multi_scanner_scan_tok, multi_scanner_visit).
THEOREM SourcesCorrect == ScopesSpec => []SourcesLive
<1>1. IInv => SourcesLive
  BY DEF IInv, SInv, TokenOK, SourcesLive
<1> QED BY <1>1, TablesInvariant, PTL

-----------------------------------------------------------------------------
(* The slots of variables                                                  *)

\* What is listed in a frame of the procedure at the top, or among the globals.
LEMMA VisibleIs ==
  ASSUME NEW ps, PInv(ps), NEW e
  PROVE  e \in Visible(ps) <=>
           \/ \E i \in DOMAIN ps.globals : e = ps.globals[i]
           \/ \E j \in Chain(ps.frames) : \E i \in DOMAIN ps.frames[j].locals : e = ps.frames[j].locals[i]
BY DEF Visible, Values

\* The slots of two frames of one procedure, the lower first.
LEMMA SlotsBelow ==
  ASSUME NEW ps, PInv(ps), NEW j \in DOMAIN ps.frames, NEW i \in 1 .. j - 1,
         ps.frames[i].proc = ps.frames[j].proc,
         NEW k \in DOMAIN ps.frames[i].locals, NEW l \in DOMAIN ps.frames[j].locals
  PROVE  ps.decls[ps.frames[i].locals[k].decl].scope_id
           # ps.decls[ps.frames[j].locals[l].decl].scope_id
<1> DEFINE f == ps.frames[i]
           g == ps.frames[j]
           a == f.locals[k].decl
           b == g.locals[l].decl
<1>1. /\ f \in ParserFrame
      /\ \A d \in DOMAIN ps.decls : ps.decls[d].scope_id \in Nat
  <2>1. ps.frames \in Seq(ParserFrame) /\ ps.decls \in Seq(Decl)
    BY DEF PInv, Tables
  <2>2. \A d \in DOMAIN ps.decls : ps.decls[d] \in Decl
    BY <2>1
  <2>3. \A d \in DOMAIN ps.decls : ps.decls[d].scope_id \in Nat
    BY <2>2 DEF Decl
  <2>4. i \in DOMAIN ps.frames
    BY <2>1
  <2>5. f \in ParserFrame
    BY <2>1, <2>4
  <2> QED BY <2>3, <2>5
<1>2. LocalsOK(ps.decls, f) /\ Above(ps.decls, f, g)
  <2>1. i \in DOMAIN ps.frames
    BY DEF PInv, Tables
  <2> QED BY <2>1 DEF PInv, Tidy
<1>3. a \in DOMAIN ps.decls /\ ps.decls[a].scope_id < f.scoped
  BY <1>2 DEF LocalsOK, LocalOK
<1>4. ps.decls[b].scope_id >= f.scoped
  BY <1>2 DEF Above
<1>5. f.scoped \in Nat /\ ps.decls[a].scope_id \in Nat
  BY <1>1, <1>3 DEF ParserFrame
<1> HIDE DEF a, b, f
<1>6. ps.decls[a].scope_id # ps.decls[b].scope_id
  BY <1>3, <1>4, <1>5
<1> QED BY <1>6 DEF a, b, f

\* No two variables that can be seen at the same point share a slot of the arrays,
\* and a procedure is closed with a scope_size above every slot given out in it
\* (ast_parser_decl_var, ast_parser_new_frame and ast_parser_close_frame).
THEOREM SlotsCorrect == ScopesSpec => []Slots
<1>1. ASSUME IInv PROVE Slots
  <2> DEFINE decls == parser.decls
             locals == {i \in DOMAIN decls : ~decls[i].is_global}
             slot(i) == decls[i].scope_id
             seen == {e.decl : e \in Visible(parser)}
  <2>1. /\ PInv(parser) /\ Tidy(parser) /\ AllListed(parser) /\ GlobalsOK(decls, parser.globals)
        /\ SlotsCounted(parser) /\ parser \in Tables
        /\ Chain(parser.frames) \subseteq DOMAIN parser.frames
    BY <1>1 DEF IInv, PInv, Chain
  <2>2. ASSUME NEW i \in seen \cap locals
        PROVE  \E j \in Chain(parser.frames) : \E k \in DOMAIN parser.frames[j].locals :
                 i = parser.frames[j].locals[k].decl
    <3>1. PICK e \in Visible(parser) : i = e.decl
      OBVIOUS
    <3>2. ASSUME NEW k \in DOMAIN parser.globals, e = parser.globals[k] PROVE FALSE
      BY <2>1, <3>1, <3>2 DEF GlobalsOK
    <3> QED BY <2>1, <3>1, <3>2, VisibleIs
  <2>3. ASSUME NEW i \in seen \cap locals, NEW j \in seen \cap locals, slot(i) = slot(j)
        PROVE  i = j
    <3>1. PICK x \in Chain(parser.frames) : \E k \in DOMAIN parser.frames[x].locals :
                 i = parser.frames[x].locals[k].decl
      BY <2>2
    <3>2. PICK k \in DOMAIN parser.frames[x].locals : i = parser.frames[x].locals[k].decl
      BY <3>1
    <3>3. PICK y \in Chain(parser.frames) : \E l \in DOMAIN parser.frames[y].locals :
                 j = parser.frames[y].locals[l].decl
      BY <2>2
    <3>4. PICK l \in DOMAIN parser.frames[y].locals : j = parser.frames[y].locals[l].decl
      BY <3>3
    <3>5. /\ x \in DOMAIN parser.frames /\ y \in DOMAIN parser.frames
          /\ parser.frames[x].proc = parser.frames[y].proc
          /\ x = y \/ x \in 1 .. y - 1 \/ y \in 1 .. x - 1
      <4>1. parser.frames # << >>
        BY <2>1
      <4>2. parser.frames[x].proc = parser.frames[y].proc
        BY <2>1, <4>1, ChainIs
      <4>3. x \in Nat \ {0} /\ y \in Nat \ {0}
        BY <2>1 DEF Tables
      <4> QED BY <2>1, <4>2, <4>3
    <3>a. decls[parser.frames[x].locals[k].decl].scope_id
            = decls[parser.frames[y].locals[l].decl].scope_id
      BY <2>3, <3>2, <3>4
    <3>6. x \notin 1 .. y - 1 /\ y \notin 1 .. x - 1
      <4>1. ASSUME x \in 1 .. y - 1 PROVE FALSE
        <5>1. PICK ps : ps = parser
          OBVIOUS
        <5>2. /\ PInv(ps) /\ y \in DOMAIN ps.frames /\ x \in 1 .. y - 1
              /\ ps.frames[x].proc = ps.frames[y].proc
              /\ k \in DOMAIN ps.frames[x].locals /\ l \in DOMAIN ps.frames[y].locals
          BY <2>1, <3>5, <4>1, <5>1
        <5>3. ps.decls[ps.frames[x].locals[k].decl].scope_id
                # ps.decls[ps.frames[y].locals[l].decl].scope_id
          BY <5>2, SlotsBelow
        <5> QED BY <3>a, <5>1, <5>3
      <4>2. ASSUME y \in 1 .. x - 1 PROVE FALSE
        <5>1. PICK ps : ps = parser
          OBVIOUS
        <5>2. /\ PInv(ps) /\ x \in DOMAIN ps.frames /\ y \in 1 .. x - 1
              /\ ps.frames[y].proc = ps.frames[x].proc
              /\ l \in DOMAIN ps.frames[y].locals /\ k \in DOMAIN ps.frames[x].locals
          BY <2>1, <3>5, <4>2, <5>1
        <5>3. ps.decls[ps.frames[y].locals[l].decl].scope_id
                # ps.decls[ps.frames[x].locals[k].decl].scope_id
          BY <5>2, SlotsBelow
        <5> QED BY <3>a, <5>1, <5>3
      <4> QED BY <4>1, <4>2
    <3>7. x = y
      BY <3>5, <3>6
    <3>8. OwnSlots(decls, parser.frames[x])
      BY <2>1, <3>5 DEF Tidy
    <3> QED BY <3>a, <3>2, <3>4, <3>7, <3>8 DEF OwnSlots
  <2>4. ASSUME NEW i \in DOMAIN decls \ locals, NEW j \in DOMAIN decls \ locals, slot(i) = slot(j)
        PROVE  i = j
    <3>1. Lists(parser.globals, i) /\ Lists(parser.globals, j)
      BY <2>1 DEF AllListed
    <3>2. PICK k \in DOMAIN parser.globals, l \in DOMAIN parser.globals :
            parser.globals[k].decl = i /\ parser.globals[l].decl = j
      BY <3>1 DEF Lists
    <3>3. slot(i) = k - 1 /\ slot(j) = l - 1
      BY <2>1, <3>2 DEF GlobalsOK
    <3>4. k \in Nat /\ l \in Nat
      BY <2>1 DEF Tables
    <3>5. k - 1 = l - 1
      BY <2>4, <3>3
    <3>6. k = l
      BY <3>4, <3>5
    <3> QED BY <3>2, <3>6
  <2>5. ASSUME NEW i \in locals,
               decls[i].proc \notin {f.proc : f \in Values(parser.frames)}
        PROVE  slot(i) < parser.scope_size[decls[i].proc]
    <3>1. \A j \in DOMAIN parser.frames : parser.frames[j].proc # decls[i].proc
      BY <2>5 DEF Values
    <3> QED BY <2>1, <3>1 DEF SlotsCounted
  <2> QED BY <2>3, <2>4, <2>5 DEF Slots
<1> QED BY <1>1, TablesInvariant, PTL

-----------------------------------------------------------------------------
(* The variable a name means                                               *)

\* A name is resolved to the one variable it can mean: the global one, or the one
\* of the procedure being parsed whose block is still open; no declaration lets two
\* of a name be seen at the same point (ast_parser_find_var, ast_parser_decl_var).
THEOREM ResolvesCorrect == ScopesSpec => []Resolves
<1>1. ASSUME IInv PROVE Resolves
  <2> SUFFICES ASSUME phase \in {"parse", "parsed"}, NEW n \in Name
               PROVE  FindVar(parser, n) = Meant(n) /\ Cardinality(Meant(n)) <= 1
    BY DEF Resolves
  <2> DEFINE decls == parser.decls
             fs == parser.frames
             gs == parser.globals
  <2>1. /\ PInv(parser) /\ Tidy(parser) /\ AllListed(parser) /\ GlobalsOK(decls, gs)
        /\ Nesting(parser) /\ parser \in Tables /\ fs # << >>
    BY <1>1 DEF IInv, PInv
  <2>2. Chain(fs) = {j \in DOMAIN fs : fs[j].proc = Top(parser).proc}
    BY <2>1, ChainIs
  <2>3. FindVar(parser, n) = {e.decl : e \in {x \in Visible(parser) : x.name = n}}
    BY <2>1, FindVarIs
  <2>4. \A j \in DOMAIN fs : LocalsOK(decls, fs[j])
    BY <2>1 DEF Tidy
  <2>5. ASSUME NEW i \in FindVar(parser, n) PROVE i \in Meant(n)
    <3>1. PICK e \in Visible(parser) : e.name = n /\ i = e.decl
      BY <2>3
    <3>2. CASE \E k \in DOMAIN gs : e = gs[k]
      BY <2>1, <3>1, <3>2 DEF GlobalsOK, Meant
    <3>3. CASE \E j \in Chain(fs) : \E k \in DOMAIN fs[j].locals : e = fs[j].locals[k]
      <4>1. PICK j \in DOMAIN fs : /\ fs[j].proc = Top(parser).proc
                                   /\ \E k \in DOMAIN fs[j].locals : e = fs[j].locals[k]
        BY <2>2, <3>3
      <4>2. LocalOK(decls, fs[j], e)
        BY <2>4, <4>1 DEF LocalsOK
      <4>3. fs[j] \in Values(fs)
        BY DEF Values
      <4> QED BY <3>1, <4>1, <4>2, <4>3 DEF LocalOK, Meant
    <3> QED BY <2>1, <3>1, <3>2, <3>3, VisibleIs
  <2>6. ASSUME NEW i \in Meant(n) PROVE i \in FindVar(parser, n)
    <3>1. i \in DOMAIN decls /\ decls[i].name = n
      BY DEF Meant
    <3>2. CASE decls[i].is_global
      <4>1. PICK k \in DOMAIN gs : gs[k].decl = i
        BY <2>1, <3>1, <3>2 DEF AllListed, Lists
      <4>2. gs[k].name = n /\ gs[k] \in Visible(parser)
        BY <2>1, <3>1, <4>1, VisibleIs DEF GlobalsOK
      <4> QED BY <2>3, <4>1, <4>2
    <3>3. CASE ~decls[i].is_global
      <4>1. decls[i].proc = Top(parser).proc /\ \E j \in DOMAIN fs : decls[i].block = fs[j].block
        BY <3>3 DEF Meant, Values
      <4>2. PICK j \in DOMAIN fs : decls[i].block = fs[j].block
        BY <4>1
      <4>3. PICK k \in DOMAIN fs[j].locals : fs[j].locals[k].decl = i
        BY <2>1, <3>1, <3>3, <4>2 DEF AllListed, Lists
      <4>4. LocalOK(decls, fs[j], fs[j].locals[k])
        BY <2>4 DEF LocalsOK
      <4>5. fs[j].locals[k].name = n /\ fs[j].proc = Top(parser).proc
        BY <3>1, <4>1, <4>3, <4>4 DEF LocalOK
      <4>6. fs[j].locals[k] \in Visible(parser)
        BY <2>1, <2>2, <4>5, VisibleIs
      <4> QED BY <2>3, <4>3, <4>5, <4>6
    <3> QED BY <3>2, <3>3
  <2>7. FindVar(parser, n) = Meant(n)
    BY <2>5, <2>6
  <2>8. ASSUME NEW i \in FindVar(parser, n), NEW j \in FindVar(parser, n) PROVE i = j
    <3>1. PICK e \in Visible(parser) : e.name = n /\ i = e.decl
      BY <2>3
    <3>2. PICK g \in Visible(parser) : g.name = n /\ j = g.decl
      BY <2>3
    <3>3. ASSUME NEW p \in DOMAIN gs, NEW q \in DOMAIN gs, gs[p].name = n, gs[q].name = n
          PROVE  gs[p] = gs[q]
      BY <2>1, <3>3 DEF Tidy, Distinct
    <3>4. ASSUME NEW p \in DOMAIN gs, NEW x \in DOMAIN fs, NEW q \in DOMAIN fs[x].locals,
                 gs[p].name = n, fs[x].locals[q].name = n
          PROVE  FALSE
      <4>1. Differ(fs[x].locals, gs)
        BY <2>1 DEF Tidy
      <4> QED BY <3>4, <4>1 DEF Differ
    <3>5. ASSUME NEW x \in Chain(fs), NEW p \in DOMAIN fs[x].locals,
                 NEW y \in Chain(fs), NEW q \in DOMAIN fs[y].locals,
                 fs[x].locals[p].name = n, fs[y].locals[q].name = n
          PROVE  fs[x].locals[p] = fs[y].locals[q]
      <4>1. /\ x \in DOMAIN fs /\ y \in DOMAIN fs /\ fs[x].proc = fs[y].proc
            /\ DOMAIN fs = 1 .. Len(fs) /\ Len(fs) \in Nat
        BY <2>1, <2>2 DEF Tables
      <4>2. CASE x = y
        <5>1. Distinct(fs[x].locals)
          BY <2>1, <4>1 DEF Tidy
        <5> QED BY <3>5, <4>2, <5>1 DEF Distinct
      <4>3. CASE x < y
        <5>1. x \in 1 .. y - 1
          BY <4>1, <4>3
        <5>2. Differ(fs[x].locals, fs[y].locals)
          BY <2>1, <4>1, <5>1 DEF Tidy
        <5> QED BY <3>5, <5>2 DEF Differ
      <4>4. CASE y < x
        <5>1. y \in 1 .. x - 1
          BY <4>1, <4>4
        <5>2. Differ(fs[y].locals, fs[x].locals)
          BY <2>1, <4>1, <5>1 DEF Tidy
        <5> QED BY <3>5, <5>2 DEF Differ
      <4>5. x = y \/ x < y \/ y < x
        BY <4>1
      <4> QED BY <4>2, <4>3, <4>4, <4>5
    <3>6. Chain(fs) \subseteq DOMAIN fs
      BY DEF Chain
    <3>7. e = g
      <4>1. \/ \E p \in DOMAIN gs : e = gs[p]
            \/ \E x \in Chain(fs) : \E p \in DOMAIN fs[x].locals : e = fs[x].locals[p]
        BY <2>1, <3>1, VisibleIs
      <4>2. \/ \E q \in DOMAIN gs : g = gs[q]
            \/ \E y \in Chain(fs) : \E q \in DOMAIN fs[y].locals : g = fs[y].locals[q]
        BY <2>1, <3>2, VisibleIs
      <4> QED BY <3>1, <3>2, <3>3, <3>4, <3>5, <3>6, <4>1, <4>2
    <3> QED BY <3>1, <3>2, <3>7
  <2>9. Cardinality(FindVar(parser, n)) <= 1
    <3>1. CASE FindVar(parser, n) = {}
      BY <3>1, FS_EmptySet
    <3>2. CASE FindVar(parser, n) # {}
      <4>1. PICK i : i \in FindVar(parser, n)
        BY <3>2
      <4>2. FindVar(parser, n) = {i}
        BY <2>8, <4>1
      <4>3. Cardinality({i}) = 1
        BY FS_Singleton
      <4>4. Cardinality(FindVar(parser, n)) = 1
        BY <4>2, <4>3
      <4> QED BY <4>4
    <3> QED BY <3>1, <3>2
  <2> QED BY <2>7, <2>9
<1> QED BY <1>1, TablesInvariant, PTL

-----------------------------------------------------------------------------
(* What has been parsed                                                    *)

\* No two paths have one hash; multi_scanner_visit compares nothing else.
NoCollision == \A p, q \in Path : HashOf[p] = HashOf[q] => p = q

\* The words of file p before its token n are parsed, and the files that include
\* statements before it name are visited.
Before(ts, p, n) == {i \in DOMAIN ts[p] : i < n /\ ts[p][i].type = "word"}
Handled(ts, v, par, p, n) ==
  /\ par[p] = Cardinality(Before(ts, p, n))
  /\ NoCollision =>
       \A i \in DOMAIN ts[p] : i < n /\ ts[p][i].type = "include" => ts[p][i].path \in Values(v)

\* The open files are parsed up to their next token (late = 0) or, the topmost, up
\* to the token the parser looks at (late = 1); those taken off, up to their end.
Accounted(ts, v, par, s, late) ==
  /\ \A i \in DOMAIN s :
       Handled(ts, v, par, s[i].path, s[i].pos - IF i = Len(s) THEN late ELSE 0)
  /\ \A p \in Values(v) \ Paths(s) : Handled(ts, v, par, p, Len(ts[p]) + 1)
  /\ \A p \in Path \ Values(v) : par[p] = 0

WInv(ts, v, par, s, ph) ==
  /\ par \in [Path -> Nat]
  /\ ph = "init" => \A p \in Path : par[p] = 0
  /\ ph = "parse" => Accounted(ts, v, par, s, 1)
  /\ ph = "parsed" => Accounted(ts, v, par, s, 0)

LEMMA TextIs ==
  ASSUME text \in Texts, NEW p \in Path
  PROVE  /\ text[p] \in Seq(Word \cup Include \cup Invalid)
         /\ Len(text[p]) \in Nat /\ DOMAIN text[p] = 1 .. Len(text[p])
<1>1. text[p] \in Seq(Word \cup Include \cup Invalid)
  BY TextsAssumption
<1> QED BY <1>1

LEMMA BeforeFinite ==
  ASSUME text \in Texts, NEW p \in Path, NEW n
  PROVE  IsFiniteSet(Before(text, p, n))
<1>1. Len(text[p]) \in Nat /\ DOMAIN text[p] = 1 .. Len(text[p])
  BY TextIs
<1>2. IsFiniteSet(1 .. Len(text[p]))
  BY <1>1, FS_Interval
<1>3. Before(text, p, n) \subseteq 1 .. Len(text[p])
  BY <1>1 DEF Before
<1> QED BY <1>2, <1>3, FS_Subset

\* Past the end of a file there is nothing left of it.
LEMMA HandledWhole ==
  ASSUME text \in Texts, NEW p \in Path, NEW v, NEW par, NEW n \in Nat, n > Len(text[p]),
         Handled(text, v, par, p, n)
  PROVE  Handled(text, v, par, p, Len(text[p]) + 1)
<1>1. Len(text[p]) \in Nat /\ DOMAIN text[p] = 1 .. Len(text[p])
  BY TextIs
<1>2. \A i \in DOMAIN text[p] : i < n /\ i < Len(text[p]) + 1
  BY <1>1
<1>3. Before(text, p, n) = Before(text, p, Len(text[p]) + 1)
  BY <1>2 DEF Before
<1> QED BY <1>2, <1>3 DEF Handled

\* A token is passed: a word that has been parsed, ...
LEMMA WordHandled ==
  ASSUME text \in Texts, NEW p \in Path, NEW v, NEW par, NEW new, NEW n \in Nat,
         n \in DOMAIN text[p], text[p][n].type = "word",
         Handled(text, v, par, p, n), new[p] = par[p] + 1
  PROVE  Handled(text, v, new, p, n + 1)
<1>1. DOMAIN text[p] \subseteq Nat
  BY TextIs
<1>2. \A i \in DOMAIN text[p] : i < n + 1 <=> i < n \/ i = n
  BY <1>1
<1>3. Before(text, p, n + 1) = Before(text, p, n) \cup {n} /\ n \notin Before(text, p, n)
  BY <1>2 DEF Before
<1>4. Cardinality(Before(text, p, n + 1)) = Cardinality(Before(text, p, n)) + 1
  BY <1>3, BeforeFinite, FS_AddElement
<1> QED BY <1>2, <1>4 DEF Handled

\* ... or an include statement whose file has been visited.
LEMMA IncludeHandled ==
  ASSUME text \in Texts, NEW p \in Path, NEW v, NEW par, NEW n \in Nat,
         n \in DOMAIN text[p], text[p][n].type = "include",
         NoCollision => text[p][n].path \in Values(v),
         Handled(text, v, par, p, n)
  PROVE  Handled(text, v, par, p, n + 1)
<1>1. DOMAIN text[p] \subseteq Nat
  BY TextIs
<1>2. \A i \in DOMAIN text[p] : i < n + 1 <=> i < n \/ i = n
  BY <1>1
<1>3. Before(text, p, n + 1) = Before(text, p, n)
  BY <1>2 DEF Before
<1> QED BY <1>2, <1>3 DEF Handled

LEMMA MoreVisited ==
  ASSUME NEW v, NEW w, Values(v) \subseteq Values(w), NEW par, NEW p, NEW n,
         Handled(text, v, par, p, n)
  PROVE  Handled(text, w, par, p, n)
BY DEF Handled

LEMMA ReadTokAccounts ==
  ASSUME text \in Texts, NEW s \in Seq(Scanner), NEW v \in Seq(Path), NEW par \in [Path -> Nat],
         Accounted(text, v, par, s, 0), NEW m, NEW whole \in BOOLEAN, ReadTok(s, m, whole)
  PROVE  WInv(text, v, par, open', phase')
<1> DEFINE d == Depth(s)
           o == Popped(s)
<1>1. /\ Len(s) \in Nat /\ DOMAIN s = 1 .. Len(s) /\ d \in 0 .. Len(s)
      /\ o \in Seq(Scanner) /\ Len(o) = d /\ DOMAIN o = 1 .. d
      /\ \A k \in 1 .. d : /\ o[k].path = s[k].path /\ k \in DOMAIN s
                           /\ o[k].pos = s[k].pos + IF k = d THEN 1 ELSE 0
      /\ \A k \in Unread(s) : k <= d
      /\ \A k \in 1 .. Len(s) : s[k].path \in Path /\ s[k].pos \in Nat \ {0}
  <2>1. o \in Seq(Scanner) /\ Len(o) = d
    BY PoppedIs
  <2>2. \A k \in 1 .. d : /\ o[k].path = s[k].path
                          /\ o[k].pos = s[k].pos + IF k = d THEN 1 ELSE 0
    BY PoppedIs
  <2>3. /\ Len(s) \in Nat /\ DOMAIN s = 1 .. Len(s) /\ d \in 0 .. Len(s)
        /\ \A k \in Unread(s) : k <= d
    BY DepthIs
  <2>4. \A k \in 1 .. d : k \in DOMAIN s
    BY <2>3
  <2>5. \A k \in 1 .. Len(s) : s[k] \in Scanner
    BY <2>3
  <2>6. \A k \in 1 .. Len(s) : s[k].path \in Path /\ s[k].pos \in Nat \ {0}
    BY <2>5 DEF Scanner
  <2> HIDE DEF d, o
  <2> QED BY <2>1, <2>2, <2>3, <2>4, <2>6
<1>2. open' = o
  BY DEF ReadTok
<1>3. d = 0 \/ phase' # "parsed"
  BY NextTokenIs DEF ReadTok
<1>4. phase' \in {"parse", "failed", "parsed", "lost"}
  BY DEF ReadTok
<1> HIDE DEF d, o
<1>5. \A i \in 1 .. Len(s) : Handled(text, v, par, s[i].path, s[i].pos)
  <2> SUFFICES ASSUME NEW i \in 1 .. Len(s) PROVE Handled(text, v, par, s[i].path, s[i].pos)
    OBVIOUS
  <2>1. s[i].pos - (IF i = Len(s) THEN 0 ELSE 0) = s[i].pos
    BY <1>1
  <2>2. Handled(text, v, par, s[i].path, s[i].pos - IF i = Len(s) THEN 0 ELSE 0)
    BY <1>1 DEF Accounted
  <2> QED BY <2>1, <2>2
<1>6. ASSUME NEW p \in Values(v) \ Paths(o) PROVE Handled(text, v, par, p, Len(text[p]) + 1)
  <2>1. CASE p \in Paths(s)
    <3>1. PICK k \in 1 .. Len(s) : p = s[k].path
      BY <1>1, <2>1 DEF Paths
    <3>2. k \notin 1 .. d
      BY <1>1, <1>6, <3>1 DEF Paths
    <3>3. k \notin Unread(s)
      BY <1>1, <3>2
    <3>4. ~(s[k].pos <= Len(text[p])) /\ Len(text[p]) \in Nat
      BY <1>1, <3>1, <3>3, TextIs DEF Unread
    <3>5. s[k].pos \in Nat /\ s[k].pos > Len(text[p]) /\ p \in Path
      BY <1>1, <3>1, <3>4
    <3> QED BY <1>5, <3>1, <3>5, HandledWhole
  <2>2. CASE p \notin Paths(s)
    BY <1>6, <2>2 DEF Accounted
  <2> QED BY <2>1, <2>2
<1>7. ASSUME NEW i \in 1 .. d
      PROVE  Handled(text, v, par, o[i].path, o[i].pos - IF i = Len(o) THEN 1 ELSE 0)
  <2>1. i \in 1 .. Len(s)
    BY <1>1
  <2>2. o[i].pos - (IF i = Len(o) THEN 1 ELSE 0) = s[i].pos
    <3>0. s[i].pos \in Nat /\ Len(o) = d
      BY <1>1, <2>1
    <3>1. CASE i = d
      <4>1. o[i].pos = s[i].pos + 1
        BY <1>1, <3>1
      <4>2. \A x \in Nat : x + 1 - 1 = x
        OBVIOUS
      <4> QED BY <3>0, <3>1, <4>1, <4>2
    <3>2. CASE i # d
      <4>1. o[i].pos = s[i].pos + 0
        BY <1>1, <3>2
      <4>2. \A x \in Nat : x + 0 - 0 = x
        OBVIOUS
      <4> QED BY <3>0, <3>2, <4>1, <4>2
    <3> QED BY <3>1, <3>2
  <2> QED BY <1>1, <1>5, <2>1, <2>2
<1>8. Accounted(text, v, par, o, 1)
  BY <1>1, <1>6, <1>7 DEF Accounted
<1>9. d = 0 => Accounted(text, v, par, o, 0)
  BY <1>1, <1>6 DEF Accounted
<1> QED BY <1>2, <1>3, <1>4, <1>8, <1>9 DEF WInv

\* A statement: the word the parser has looked at is parsed.
LEMMA WordAccounts ==
  ASSUME IInv, phase = "parse", tok.type = "word", parsed \in [Path -> Nat],
         Accounted(text, visited, parsed, open, 1), NEW new,
         new = [parsed EXCEPT ![tok.file] = @ + 1]
  PROVE  new \in [Path -> Nat] /\ Accounted(text, visited, new, open, 0)
<1> DEFINE n == Len(open)
           f == tok.file
           k == open[n].pos - 1
<1>1. /\ text \in Texts /\ open \in Seq(Scanner) /\ Apart(open)
      /\ Paths(open) \subseteq Values(visited) /\ TokenOK(text, open, managed, tok)
      /\ visited \in Seq(Path)
  BY DEF IInv, SInv
<1>2. /\ n \in Nat /\ n >= 1 /\ DOMAIN open = 1 .. n /\ n \in 1 .. n
      /\ \A i \in 1 .. n : open[i].path \in Path /\ open[i].pos \in Nat \ {0}
  <2>1. n \in Nat /\ n >= 1 /\ DOMAIN open = 1 .. n /\ n \in 1 .. n
    BY <1>1 DEF TokenOK
  <2>2. \A i \in 1 .. n : open[i] \in Scanner
    BY <1>1, <2>1
  <2>3. \A i \in 1 .. n : open[i].path \in Path /\ open[i].pos \in Nat \ {0}
    BY <2>2 DEF Scanner
  <2> QED BY <2>1, <2>3
<1> HIDE DEF n
<1>3. /\ f = open[n].path /\ f \in Path /\ k \in Nat /\ k + 1 = open[n].pos
      /\ k \in DOMAIN text[f] /\ text[f][k].type = "word"
  <2>1. /\ tok.file = open[n].path /\ k \in DOMAIN text[tok.file] /\ text[tok.file][k] = tok.word
        /\ tok.type = tok.word.type
    BY <1>1 DEF TokenOK, n
  <2>2. open[n].path \in Path /\ open[n].pos \in Nat \ {0}
    BY <1>2
  <2>3. \A x \in Nat \ {0} : x - 1 \in Nat /\ x - 1 + 1 = x
    OBVIOUS
  <2>4. k \in Nat /\ k + 1 = open[n].pos
    BY <2>2, <2>3
  <2> HIDE DEF k
  <2> QED BY <2>1, <2>2, <2>4
<1>4. f \in Values(visited)
  BY <1>1, <1>2, <1>3 DEF Paths
<1> HIDE DEF f, k
<1>5. /\ new \in [Path -> Nat] /\ new[f] = parsed[f] + 1
      /\ \A p \in Path : p # f => new[p] = parsed[p]
  BY <1>3 DEF f
<1>6. Handled(text, visited, new, f, open[n].pos)
  <2>1. Handled(text, visited, parsed, open[n].path, open[n].pos - IF n = Len(open) THEN 1 ELSE 0)
    BY <1>2 DEF Accounted
  <2>2. Handled(text, visited, parsed, f, k)
    BY <1>3, <2>1 DEF n, k
  <2>3. Handled(text, visited, new, f, k + 1)
    BY <1>1, <1>3, <1>5, <2>2, WordHandled
  <2> QED BY <1>3, <2>3
<1>7. ASSUME NEW p \in Path, p # f, NEW x, Handled(text, visited, parsed, p, x)
      PROVE  Handled(text, visited, new, p, x)
  BY <1>5, <1>7 DEF Handled
<1>8. ASSUME NEW i \in 1 .. n
      PROVE  Handled(text, visited, new, open[i].path, open[i].pos - IF i = Len(open) THEN 0 ELSE 0)
  <2>1. open[i].pos \in Nat /\ open[i].path \in Path
    BY <1>2
  <2>2. open[i].pos - (IF i = Len(open) THEN 0 ELSE 0) = open[i].pos
    <3>1. \A x \in Nat : x - 0 = x
      OBVIOUS
    <3> QED BY <2>1, <3>1
  <2>3. CASE i = n
    BY <1>3, <1>6, <2>2, <2>3
  <2>4. CASE i # n
    <3>1. open[i].path # f
      BY <1>1, <1>2, <1>3, <2>4 DEF Apart
    <3>2. Handled(text, visited, parsed, open[i].path, open[i].pos - IF i = Len(open) THEN 1 ELSE 0)
      BY <1>2 DEF Accounted
    <3>3. open[i].pos - (IF i = Len(open) THEN 1 ELSE 0) = open[i].pos
      <4>1. \A x \in Nat : x - 0 = x
        OBVIOUS
      <4> QED BY <2>1, <2>4, <4>1 DEF n
    <3> QED BY <1>7, <2>1, <2>2, <3>1, <3>2, <3>3
  <2> QED BY <2>3, <2>4
<1>9. ASSUME NEW p \in Values(visited) \ Paths(open)
      PROVE  Handled(text, visited, new, p, Len(text[p]) + 1)
  <2>1. p \in Path
    BY <1>1 DEF Values
  <2>2. p # f
    BY <1>2, <1>3 DEF Paths
  <2>3. Handled(text, visited, parsed, p, Len(text[p]) + 1)
    BY DEF Accounted
  <2> QED BY <1>7, <2>1, <2>2, <2>3
<1>10. \A p \in Path \ Values(visited) : new[p] = 0
  BY <1>4, <1>5 DEF Accounted
<1> QED BY <1>2, <1>5, <1>8, <1>9, <1>10 DEF Accounted

\* With more files visited, the open ones are parsed up to their next token.
Ready(ts, w, par, s, v) ==
  /\ \A i \in DOMAIN s : Handled(ts, w, par, s[i].path, s[i].pos)
  /\ \A p \in Values(v) \ Paths(s) : Handled(ts, w, par, p, Len(ts[p]) + 1)
  /\ \A p \in Path \ Values(v) : par[p] = 0

LEMMA ReadyAccounted ==
  ASSUME NEW w, NEW par, NEW s \in Seq(Scanner), NEW v, Ready(text, w, par, s, v),
         Values(w) \ Paths(s) \subseteq Values(v), Values(v) \subseteq Values(w)
  PROVE  Accounted(text, w, par, s, 0)
<1>1. ASSUME NEW i \in DOMAIN s
      PROVE  Handled(text, w, par, s[i].path, s[i].pos - IF i = Len(s) THEN 0 ELSE 0)
  <2>1. s[i] \in Scanner
    OBVIOUS
  <2>2. s[i].pos \in Nat
    BY <2>1 DEF Scanner
  <2>3. s[i].pos - (IF i = Len(s) THEN 0 ELSE 0) = s[i].pos
    <3>1. \A x \in Nat : x - 0 = x
      OBVIOUS
    <3> QED BY <2>2, <3>1
  <2>4. Handled(text, w, par, s[i].path, s[i].pos)
    BY DEF Ready
  <2> QED BY <2>3, <2>4
<1>2. \A p \in Values(w) \ Paths(s) : Handled(text, w, par, p, Len(text[p]) + 1)
  BY DEF Ready
<1>3. \A p \in Path \ Values(w) : par[p] = 0
  BY DEF Ready
<1> QED BY <1>1, <1>2, <1>3 DEF Accounted

LEMMA VisitAccounts ==
  ASSUME text \in Texts, visited \in Seq(Path), open \in Seq(Scanner), parsed \in [Path -> Nat],
         Paths(open) \subseteq Values(visited), parsed' = parsed,
         NEW p \in Path, Visit(p),
         \A w \in Seq(Path) :
           Values(visited) \subseteq Values(w) /\ (NoCollision => p \in Values(w))
             => Ready(text, w, parsed, open, visited)
  PROVE  WInv(text, visited', parsed', open', phase')
<1>1. CASE Seen(p) /\ ReadTok(open, managed, FALSE) /\ visited' = visited
  <2>1. NoCollision => p \in Values(visited)
    <3>1. PICK i \in DOMAIN visited : HashOf[visited[i]] = HashOf[p]
      BY <1>1 DEF Seen
    <3>2. visited[i] \in Path
      OBVIOUS
    <3> QED BY <3>1, <3>2 DEF NoCollision, Values
  <2>2. Ready(text, visited, parsed, open, visited)
    BY <2>1
  <2>3. Accounted(text, visited, parsed, open, 0)
    BY <2>2, ReadyAccounted
  <2>4. WInv(text, visited, parsed, open', phase')
    BY <1>1, <2>3, ReadTokAccounts
  <2> QED BY <1>1, <2>4
<1>2. CASE phase' = "failed"
  BY <1>2 DEF WInv
<1>3. CASE ~Seen(p) /\ visited' = Append(visited, p)
           /\ ReadTok(Append(open, Frame(p)), managed \cup {p}, FALSE)
  <2> DEFINE s == Append(open, Frame(p))
             v == Append(visited, p)
             n == Len(open)
  <2>1. /\ v \in Seq(Path) /\ s \in Seq(Scanner)
        /\ n \in Nat /\ DOMAIN open = 1 .. n /\ DOMAIN s = 1 .. n + 1
        /\ \A i \in 1 .. n : s[i] = open[i] /\ i \in 1 .. n + 1
        /\ \A i \in 1 .. n + 1 : i \in 1 .. n \/ i = n + 1
        /\ n + 1 \in 1 .. n + 1
        /\ s[n + 1].path = p /\ s[n + 1].pos = 1
    <3>1. Frame(p) \in Scanner /\ Frame(p).path = p /\ Frame(p).pos = 1
      BY DEF Frame, Scanner
    <3>2. /\ n \in Nat /\ DOMAIN open = 1 .. n /\ n + 1 \in 1 .. n + 1
          /\ \A i \in 1 .. n + 1 : i \in 1 .. n \/ i = n + 1
      OBVIOUS
    <3>3. /\ s \in Seq(Scanner) /\ DOMAIN s = 1 .. n + 1 /\ s[n + 1] = Frame(p)
          /\ \A i \in 1 .. n : s[i] = open[i] /\ i \in 1 .. n + 1
      BY <3>1
    <3>4. v \in Seq(Path)
      OBVIOUS
    <3> HIDE DEF s, v, n
    <3> QED BY <3>1, <3>2, <3>3, <3>4
  <2>2. \A x : x \in Values(v) <=> x \in Values(visited) \/ x = p
    <3>1. /\ Len(visited) \in Nat /\ DOMAIN visited = 1 .. Len(visited)
          /\ DOMAIN v = 1 .. Len(visited) + 1 /\ v[Len(visited) + 1] = p
          /\ \A i \in 1 .. Len(visited) : v[i] = visited[i] /\ i \in 1 .. Len(visited) + 1
          /\ \A i \in 1 .. Len(visited) + 1 : i \in 1 .. Len(visited) \/ i = Len(visited) + 1
          /\ Len(visited) + 1 \in 1 .. Len(visited) + 1
      OBVIOUS
    <3> HIDE DEF v
    <3> QED BY <3>1 DEF Values
  <2> HIDE DEF s, v, n
  <2>3. p \notin Values(visited)
    BY <1>3 DEF Seen, Values
  <2>4. Ready(text, v, parsed, open, visited)
    BY <2>1, <2>2
  <2>5. Handled(text, v, parsed, p, 1)
    <3>1. Len(text[p]) \in Nat /\ DOMAIN text[p] = 1 .. Len(text[p])
      BY TextIs
    <3>2. \A i \in DOMAIN text[p] : ~(i < 1)
      BY <3>1
    <3>3. Before(text, p, 1) = {}
      BY <3>2 DEF Before
    <3>4. parsed[p] = 0
      BY <2>3, <2>4 DEF Ready
    <3> QED BY <3>2, <3>3, <3>4, FS_EmptySet DEF Handled
  <2>6. \A x : x \in Paths(s) <=> x \in Paths(open) \/ x = p
    <3>1. \A x : x \in Paths(s) <=> \E i \in 1 .. n + 1 : x = s[i].path
      BY <2>1 DEF Paths
    <3>2. \A x : x \in Paths(open) <=> \E i \in 1 .. n : x = open[i].path
      BY <2>1 DEF Paths
    <3>3. ASSUME NEW x, x \in Paths(s) PROVE x \in Paths(open) \/ x = p
      <4>1. PICK i \in 1 .. n + 1 : x = s[i].path
        BY <3>1, <3>3
      <4>2. CASE i \in 1 .. n
        <5>1. s[i] = open[i]
          BY <2>1, <4>2
        <5> QED BY <3>2, <4>1, <4>2, <5>1
      <4>3. CASE i = n + 1
        BY <2>1, <4>1, <4>3
      <4> QED BY <2>1, <4>2, <4>3
    <3>4. ASSUME NEW x, x \in Paths(open) \/ x = p PROVE x \in Paths(s)
      <4>1. CASE x \in Paths(open)
        <5>1. PICK i \in 1 .. n : x = open[i].path
          BY <3>2, <4>1
        <5>2. s[i] = open[i] /\ i \in 1 .. n + 1
          BY <2>1
        <5> QED BY <3>1, <5>1, <5>2
      <4>2. CASE x = p
        BY <2>1, <3>1, <4>2
      <4> QED BY <3>4, <4>1, <4>2
    <3> QED BY <3>3, <3>4
  <2>7. ASSUME NEW i \in DOMAIN s PROVE Handled(text, v, parsed, s[i].path, s[i].pos)
    BY <2>1, <2>4, <2>5 DEF Ready
  <2>8. Ready(text, v, parsed, s, visited)
    BY <2>4, <2>6, <2>7 DEF Ready
  <2>9. Accounted(text, v, parsed, s, 0)
    BY <2>1, <2>2, <2>6, <2>8, ReadyAccounted
  <2>10. WInv(text, v, parsed, open', phase')
    BY <1>3, <2>1, <2>9, ReadTokAccounts DEF s
  <2> QED BY <1>3, <2>10 DEF v
<1> QED BY <1>1, <1>2, <1>3 DEF Visit

\* An include statement: its file is visited.
LEMMA IncludeReady ==
  ASSUME IInv, phase = "parse", tok.type = "include", Accounted(text, visited, parsed, open, 1),
         NEW w \in Seq(Path), Values(visited) \subseteq Values(w),
         NoCollision => tok.word.path \in Values(w)
  PROVE  Ready(text, w, parsed, open, visited)
<1> DEFINE n == Len(open)
           f == tok.file
           k == open[n].pos - 1
<1>1. text \in Texts /\ open \in Seq(Scanner) /\ TokenOK(text, open, managed, tok)
  BY DEF IInv, SInv
<1>2. /\ n \in Nat /\ n >= 1 /\ DOMAIN open = 1 .. n /\ n \in 1 .. n
      /\ \A i \in 1 .. n : open[i].path \in Path /\ open[i].pos \in Nat \ {0}
  <2>1. n \in Nat /\ n >= 1 /\ DOMAIN open = 1 .. n /\ n \in 1 .. n
    BY <1>1 DEF TokenOK
  <2>2. \A i \in 1 .. n : open[i] \in Scanner
    BY <1>1, <2>1
  <2>3. \A i \in 1 .. n : open[i].path \in Path /\ open[i].pos \in Nat \ {0}
    BY <2>2 DEF Scanner
  <2> QED BY <2>1, <2>3
<1>3. /\ f = open[n].path /\ f \in Path /\ k \in Nat /\ k + 1 = open[n].pos
      /\ k \in DOMAIN text[f] /\ text[f][k] = tok.word /\ tok.word.type = "include"
  <2>1. /\ tok.file = open[n].path /\ k \in DOMAIN text[tok.file] /\ text[tok.file][k] = tok.word
        /\ tok.type = tok.word.type
    BY <1>1 DEF TokenOK
  <2>2. open[n].path \in Path /\ open[n].pos \in Nat \ {0}
    BY <1>2
  <2>3. \A x \in Nat \ {0} : x - 1 \in Nat /\ x - 1 + 1 = x
    OBVIOUS
  <2>4. k \in Nat /\ k + 1 = open[n].pos
    BY <2>2, <2>3
  <2> HIDE DEF k, n
  <2> QED BY <2>1, <2>2, <2>4
<1> HIDE DEF f, k, n
<1>4. Handled(text, w, parsed, f, open[n].pos)
  <2>1. Handled(text, visited, parsed, open[n].path, open[n].pos - IF n = Len(open) THEN 1 ELSE 0)
    BY <1>2 DEF Accounted
  <2>2. Handled(text, w, parsed, f, k)
    BY <1>3, <2>1, MoreVisited DEF n, k
  <2>3. Handled(text, w, parsed, f, k + 1)
    BY <1>1, <1>3, <2>2, IncludeHandled
  <2> QED BY <1>3, <2>3
<1>5. ASSUME NEW i \in 1 .. n
      PROVE  Handled(text, w, parsed, open[i].path, open[i].pos)
  <2>1. CASE i = n
    BY <1>3, <1>4, <2>1
  <2>2. CASE i # n
    <3>1. Handled(text, visited, parsed, open[i].path, open[i].pos - IF i = Len(open) THEN 1 ELSE 0)
      BY <1>2 DEF Accounted
    <3>2. open[i].pos - (IF i = Len(open) THEN 1 ELSE 0) = open[i].pos
      <4>1. \A x \in Nat : x - 0 = x
        OBVIOUS
      <4> QED BY <1>2, <2>2, <4>1 DEF n
    <3> QED BY <3>1, <3>2, MoreVisited
  <2> QED BY <2>1, <2>2
<1>6. \A p \in Values(visited) \ Paths(open) : Handled(text, w, parsed, p, Len(text[p]) + 1)
  BY MoreVisited DEF Accounted
<1>7. \A p \in Path \ Values(visited) : parsed[p] = 0
  BY DEF Accounted
<1> QED BY <1>2, <1>5, <1>6, <1>7 DEF Ready

LEMMA TakeAccounts ==
  ASSUME IInv, phase = "parse", tok.type = "word", WInv(text, visited, parsed, open, phase),
         NEW ok, NEW ps, NEW opens \in BOOLEAN, Take(ok, ps, opens)
  PROVE  WInv(text, visited, parsed, open, phase)'
<1>1. /\ text \in Texts /\ visited \in Seq(Path) /\ open \in Seq(Scanner)
      /\ parsed \in [Path -> Nat] /\ Accounted(text, visited, parsed, open, 1)
  BY DEF IInv, SInv, WInv
<1>2. CASE ParseWord(Outside(ps) /\ ~opens)
  <2>1. /\ parsed' = [parsed EXCEPT ![tok.file] = @ + 1]
        /\ ReadTok(open, managed, Outside(ps) /\ ~opens)
        /\ text' = text /\ visited' = visited
    BY <1>2 DEF ParseWord
  <2>2. PICK new : new = [parsed EXCEPT ![tok.file] = @ + 1]
    OBVIOUS
  <2>3. new \in [Path -> Nat] /\ Accounted(text, visited, new, open, 0)
    BY <1>1, <2>2, WordAccounts
  <2>4. (Outside(ps) /\ ~opens) \in BOOLEAN
    BY DEF Outside
  <2>5. WInv(text, visited, new, open', phase')
    BY <1>1, <2>1, <2>3, <2>4, ReadTokAccounts
  <2> QED BY <2>1, <2>2, <2>5
<1>3. CASE RejectWord
  BY <1>1, <1>3 DEF RejectWord, WInv
<1> QED BY <1>2, <1>3 DEF Take

LEMMA NextAccounts ==
  IInv /\ WInv(text, visited, parsed, open, phase) /\ [ScopesNext]_allVars
    => WInv(text, visited, parsed, open, phase)'
<1> SUFFICES ASSUME IInv, WInv(text, visited, parsed, open, phase), [ScopesNext]_allVars
             PROVE  WInv(text, visited, parsed, open, phase)'
  OBVIOUS
<1>0. /\ text \in Texts /\ visited \in Seq(Path) /\ open \in Seq(Scanner)
      /\ parsed \in [Path -> Nat] /\ Paths(open) \subseteq Values(visited)
      /\ phase = "init" => visited = << >> /\ open = << >> /\ \A p \in Path : parsed[p] = 0
      /\ phase = "parse" => Accounted(text, visited, parsed, open, 1)
  BY DEF IInv, SInv, WInv
<1>1. CASE Begin
  <2>1. /\ Visit(Root) /\ text' = text /\ parsed' = parsed /\ phase = "init"
    BY <1>1 DEF Begin
  <2>2. ASSUME NEW w PROVE Ready(text, w, parsed, open, visited)
    <3>1. DOMAIN open = {} /\ Values(visited) = {}
      BY <1>0, <2>1 DEF Values
    <3> QED BY <1>0, <2>1, <3>1 DEF Ready
  <2>3. WInv(text, visited', parsed', open', phase')
    BY <1>0, <2>1, <2>2, RootAssumption, VisitAccounts
  <2> QED BY <2>1, <2>3
<1>2. ASSUME phase = "parse", tok.type = "word",
             \E ok, ps : \E opens \in BOOLEAN : Take(ok, ps, opens)
      PROVE  WInv(text, visited, parsed, open, phase)'
  BY <1>2, TakeAccounts
<1>3. CASE Do \/ Declare \/ DeclareGlobal \/ Use \/ RecordDefault \/ Open \/ Proc
  <2>1. phase = "parse" /\ tok.type = "word"
    BY <1>3 DEF Do, Declare, DeclareGlobal, Use, RecordDefault, Open, Proc, At
  <2>2. \E ok, ps : \E opens \in BOOLEAN : Take(ok, ps, opens)
    BY <1>3 DEF Do, Declare, DeclareGlobal, Use, RecordDefault, Open, Proc
  <2> QED BY <1>2, <2>1, <2>2
<1>4. CASE Close
  <2>1. phase = "parse" /\ tok.type = "word"
    BY <1>4 DEF Close, At
  <2>2. CASE \E ok, ps : \E opens \in BOOLEAN : Take(ok, ps, opens)
    BY <1>2, <2>1, <2>2
  <2>3. CASE RejectWord
    BY <1>0, <2>3 DEF RejectWord, WInv
  <2> QED BY <1>4, <2>2, <2>3 DEF Close
<1>5. CASE IncludeFile
  <2>1. /\ phase = "parse" /\ tok.type = "include" /\ Visit(tok.word.path)
        /\ text' = text /\ parsed' = parsed
    BY <1>5 DEF IncludeFile, ParseInclude
  <2>2. PICK p : p = tok.word.path
    OBVIOUS
  <2>3. p \in Path
    <3>1. tok.word \in Word \cup Include /\ tok.word.type = "include"
      BY <2>1 DEF IInv, SInv, TokenOK
    <3>2. tok.word \in Include
      BY <3>1, WordAssumption
    <3> QED BY <2>2, <3>2 DEF Include
  <2>4. ASSUME NEW w \in Seq(Path), Values(visited) \subseteq Values(w),
               NoCollision => p \in Values(w)
        PROVE  Ready(text, w, parsed, open, visited)
    BY <1>0, <2>1, <2>2, <2>4, IncludeReady
  <2>5. WInv(text, visited', parsed', open', phase')
    BY <1>0, <2>1, <2>2, <2>3, <2>4, VisitAccounts
  <2> QED BY <2>1, <2>5
<1>6. CASE End
  BY <1>0, <1>6 DEF End, Finish, WInv
<1>7. CASE UNCHANGED allVars
  BY <1>7 DEF allVars, vars
<1> QED BY <1>1, <1>3, <1>4, <1>5, <1>6, <1>7 DEF ScopesNext

LEMMA WholeInvariant == ScopesSpec => [](IInv /\ WInv(text, visited, parsed, open, phase))
<1>1. ScopesInit => WInv(text, visited, parsed, open, phase)
  BY DEF ScopesInit, Init, WInv
<1>2. IInv /\ WInv(text, visited, parsed, open, phase) /\ [ScopesNext]_allVars
        => WInv(text, visited, parsed, open, phase)'
  BY NextAccounts
<1> QED BY <1>1, <1>2, TablesInvariant, PTL DEF ScopesSpec

\* At the end of a program every file that was opened has been parsed to its end.
LEMMA WholeIs ==
  ASSUME IInv, WInv(text, visited, parsed, open, phase), phase = "parsed"
  PROVE  /\ \A p \in Values(visited) : Whole(p)
         /\ \A p \in Path \ Values(visited) : parsed[p] = 0
         /\ NoCollision => Included \subseteq Values(visited)
<1>1. /\ text \in Texts /\ visited \in Seq(Path) /\ open = << >>
      /\ Accounted(text, visited, parsed, open, 0)
  BY DEF IInv, SInv, WInv
<1>2. Paths(open) = {}
  BY <1>1 DEF Paths
<1>3. ASSUME NEW p \in Values(visited)
      PROVE  /\ Whole(p)
             /\ NoCollision => \A i \in DOMAIN text[p] :
                  text[p][i].type = "include" => text[p][i].path \in Values(visited)
  <2>1. p \in Path
    BY <1>1 DEF Values
  <2>2. Handled(text, visited, parsed, p, Len(text[p]) + 1)
    BY <1>1, <1>2 DEF Accounted
  <2>3. \A i \in DOMAIN text[p] : i < Len(text[p]) + 1
    BY <1>1, <2>1, TextIs
  <2>4. Before(text, p, Len(text[p]) + 1) = {i \in DOMAIN text[p] : text[p][i].type = "word"}
    BY <2>3 DEF Before
  <2> QED BY <2>2, <2>3, <2>4 DEF Handled, Whole
<1> QED BY <1>1, <1>3 DEF Accounted, Included

\* Whatever the hashes of the paths are, a program that parses has been parsed whole
\* as far as its files were opened: each word of each of them, once, however the
\* files interrupt each other (multi_scanner_visit, multi_scanner_scan_tok).
THEOREM WordsParsed ==
  ScopesSpec => [](phase = "parsed" =>
                     /\ \A p \in Values(visited) : Whole(p)
                     /\ \A p \in Path \ Values(visited) : parsed[p] = 0)
<1>1. IInv /\ WInv(text, visited, parsed, open, phase)
        => (phase = "parsed" =>
              /\ \A p \in Values(visited) : Whole(p)
              /\ \A p \in Path \ Values(visited) : parsed[p] = 0)
  BY WholeIs
<1> QED BY <1>1, WholeInvariant, PTL

\* If no two paths have one hash, every file that an include statement of a parsed
\* file names has been opened and parsed whole.
THEOREM ParsedWholeCorrect ==
  ASSUME \A p, q \in Path : HashOf[p] = HashOf[q] => p = q
  PROVE  ScopesSpec => []ParsedWhole
<1>1. NoCollision
  BY DEF NoCollision
<1>2. IInv /\ WInv(text, visited, parsed, open, phase) => ParsedWhole
  BY <1>1, WholeIs DEF ParsedWhole
<1> QED BY <1>2, WholeInvariant, PTL

-----------------------------------------------------------------------------
(* Where the files end                                                     *)

\* The words of the files opened that are one of ops, and those of them the parser
\* has left behind; late is as in Accounted.
Marks(ts, v, ops) ==
  UNION {{<<p, i>> : i \in {k \in DOMAIN ts[p] : ts[p][k].type = "word" /\ ts[p][k].op \in ops}} : p \in Values(v)}
Past(s, late, x) ==
  \A k \in DOMAIN s : s[k].path = x[1] => x[2] < s[k].pos - IF k = Len(s) THEN late ELSE 0
Passed(ts, v, s, late, ops) == {x \in Marks(ts, v, ops) : Past(s, late, x)}

Opens == {"open", "proc"}
Closes == {"close"}

\* There are as many frames as blocks opened and not closed, and one.
InBalance(ts, v, s, late, depth) ==
  /\ depth \in Nat
  /\ depth + Cardinality(Passed(ts, v, s, late, Closes)) = 1 + Cardinality(Passed(ts, v, s, late, Opens))

BInv(ts, v, s, ph, depth, owes) ==
  /\ ph = "init" => depth = 1 /\ owes
  /\ ph = "parse" => InBalance(ts, v, s, 1, depth)
  /\ ph = "lost" => InBalance(ts, v, << >>, 0, depth) /\ (owes \/ depth > 1)

LEMMA ImageFinite ==
  ASSUME NEW S, IsFiniteSet(S), NEW f
  PROVE  IsFiniteSet({f[x] : x \in S})
<1> DEFINE T == {f[x] : x \in S}
           g == [x \in S |-> f[x]]
<1>1. g \in [S -> T] /\ \A t \in T : \E x \in S : g[x] = t
  OBVIOUS
<1>2. g \in Surjection(S, T)
  BY <1>1 DEF Surjection
<1> HIDE DEF g, T
<1>3. IsFiniteSet(T)
  BY <1>2, FS_Surjection
<1> QED BY <1>3 DEF T

LEMMA MarksFinite ==
  ASSUME text \in Texts, NEW v \in Seq(Path), NEW s, NEW late, NEW ops
  PROVE  IsFiniteSet(Passed(text, v, s, late, ops))
<1> DEFINE In(p) == {<<p, i>> : i \in {k \in DOMAIN text[p] : text[p][k].type = "word" /\ text[p][k].op \in ops}}
           All == {In(p) : p \in Values(v)}
<1>1. IsFiniteSet(Values(v))
  <2>1. DOMAIN v = 1 .. Len(v) /\ Len(v) \in Nat
    OBVIOUS
  <2>2. Values(v) = {v[i] : i \in 1 .. Len(v)}
    BY <2>1 DEF Values
  <2>3. IsFiniteSet(1 .. Len(v))
    BY <2>1, FS_Interval
  <2>4. IsFiniteSet({v[i] : i \in 1 .. Len(v)})
    BY <2>3, ImageFinite
  <2> QED BY <2>2, <2>4
<1>2. ASSUME NEW p \in Values(v) PROVE IsFiniteSet(In(p))
  <2>1. p \in Path
    BY DEF Values
  <2> DEFINE S == {k \in DOMAIN text[p] : text[p][k].type = "word" /\ text[p][k].op \in ops}
  <2>2. IsFiniteSet(S)
    <3>1. Len(text[p]) \in Nat /\ S \subseteq 1 .. Len(text[p])
      BY <2>1, TextIs
    <3> HIDE DEF S
    <3>2. IsFiniteSet(1 .. Len(text[p]))
      BY <3>1, FS_Interval
    <3> QED BY <3>1, <3>2, FS_Subset
  <2> DEFINE h == [i \in S |-> <<p, i>>]
  <2>3. In(p) = {h[i] : i \in S}
    OBVIOUS
  <2> HIDE DEF S, h, In
  <2> QED BY <2>2, <2>3, ImageFinite
<1> HIDE DEF In
<1>3. IsFiniteSet(All)
  <2> DEFINE h == [p \in Values(v) |-> In(p)]
  <2>1. All = {h[p] : p \in Values(v)}
    OBVIOUS
  <2> HIDE DEF h, All
  <2> QED BY <1>1, <2>1, ImageFinite
<1>4. \A S \in All : IsFiniteSet(S)
  BY <1>2
<1> HIDE DEF All
<1>5. IsFiniteSet(UNION All)
  BY <1>3, <1>4, FS_UNION
<1>6. Passed(text, v, s, late, ops) \subseteq UNION All
  BY DEF Passed, Marks, All, In
<1> QED BY <1>5, <1>6, FS_Subset

LEMMA MarkIs ==
  ASSUME text \in Texts, NEW v \in Seq(Path), NEW ops, NEW x \in Marks(text, v, ops)
  PROVE  /\ x = <<x[1], x[2]>> /\ x[1] \in Values(v) /\ x[1] \in Path
         /\ x[2] \in DOMAIN text[x[1]] /\ x[2] \in Nat /\ x[2] <= Len(text[x[1]]) /\ x[2] >= 1
         /\ text[x[1]][x[2]].type = "word" /\ text[x[1]][x[2]].op \in ops
<1>0. PICK p \in Values(v) : \E i \in DOMAIN text[p] :
        x = <<p, i>> /\ text[p][i].type = "word" /\ text[p][i].op \in ops
  BY DEF Marks
<1>1. PICK i \in DOMAIN text[p] : x = <<p, i>> /\ text[p][i].type = "word" /\ text[p][i].op \in ops
  BY <1>0
<1>2. p \in Path
  BY DEF Values
<1>3. i \in Nat /\ i <= Len(text[p]) /\ i >= 1
  BY <1>2, TextIs
<1> QED BY <1>1, <1>2, <1>3

LEMMA IsMark ==
  ASSUME NEW v, NEW ops, NEW p \in Values(v), NEW i \in DOMAIN text[p],
         text[p][i].type = "word", text[p][i].op \in ops
  PROVE  <<p, i>> \in Marks(text, v, ops)
<1> DEFINE In(q) == {<<q, j>> : j \in {k \in DOMAIN text[q] : text[q][k].type = "word" /\ text[q][k].op \in ops}}
<1>1. <<p, i>> \in In(p)
  OBVIOUS
<1>2. Marks(text, v, ops) = UNION {In(q) : q \in Values(v)}
  BY DEF Marks
<1> HIDE DEF In
<1> QED BY <1>1, <1>2

\* Asking for a token leaves nothing behind that was not left behind before.
LEMMA ReadTokPassed ==
  ASSUME text \in Texts, NEW s \in Seq(Scanner), NEW v \in Seq(Path), NEW m, NEW whole \in BOOLEAN,
         ReadTok(s, m, whole), NEW ops
  PROVE  /\ phase' = "parse" => Passed(text, v, open', 1, ops) = Passed(text, v, s, 0, ops)
         /\ phase' = "lost" => Passed(text, v, << >>, 0, ops) = Passed(text, v, s, 0, ops) /\ ~whole
         /\ phase' # "init"
<1> DEFINE d == Depth(s)
           o == Popped(s)
<1>1. /\ Len(s) \in Nat /\ DOMAIN s = 1 .. Len(s) /\ d \in 0 .. Len(s)
      /\ o \in Seq(Scanner) /\ Len(o) = d /\ DOMAIN o = 1 .. d
      /\ \A k \in 1 .. d : /\ o[k].path = s[k].path /\ k \in DOMAIN s
                           /\ o[k].pos = s[k].pos + IF k = d THEN 1 ELSE 0
      /\ \A k \in Unread(s) : k <= d
      /\ \A k \in 1 .. Len(s) : s[k].path \in Path /\ s[k].pos \in Nat \ {0}
  <2>1. o \in Seq(Scanner) /\ Len(o) = d
    BY PoppedIs
  <2>2. \A k \in 1 .. d : /\ o[k].path = s[k].path
                          /\ o[k].pos = s[k].pos + IF k = d THEN 1 ELSE 0
    BY PoppedIs
  <2>3. /\ Len(s) \in Nat /\ DOMAIN s = 1 .. Len(s) /\ d \in 0 .. Len(s)
        /\ \A k \in Unread(s) : k <= d
    BY DepthIs
  <2>4. \A k \in 1 .. d : k \in DOMAIN s
    BY <2>3
  <2>5. \A k \in 1 .. Len(s) : s[k] \in Scanner
    BY <2>3
  <2>6. \A k \in 1 .. Len(s) : s[k].path \in Path /\ s[k].pos \in Nat \ {0}
    BY <2>5 DEF Scanner
  <2> HIDE DEF d, o
  <2> QED BY <2>1, <2>2, <2>3, <2>4, <2>6
<1>2. /\ open' = o /\ (phase' = "lost" => d = 0 /\ ~whole) /\ phase' # "init"
  BY NextTokenIs DEF ReadTok
<1> HIDE DEF d, o
<1>3. ASSUME NEW x \in Marks(text, v, ops) PROVE Past(o, 1, x) <=> Past(s, 0, x)
  <2>1. x[2] \in Nat /\ x[2] <= Len(text[x[1]]) /\ Len(text[x[1]]) \in Nat /\ x[1] \in Path
    BY MarkIs, TextIs
  <2>2. ASSUME NEW k \in 1 .. d
        PROVE  o[k].pos - (IF k = Len(o) THEN 1 ELSE 0) = s[k].pos - (IF k = Len(s) THEN 0 ELSE 0)
    <3>1. s[k].pos \in Nat /\ Len(o) = d /\ o[k].pos = s[k].pos + IF k = d THEN 1 ELSE 0
      BY <1>1
    <3>2. \A y \in Nat : (y + 1) - 1 = y /\ (y + 0) - 0 = y /\ y - 0 = y
      OBVIOUS
    <3> QED BY <3>1, <3>2
  <2>3. ASSUME NEW k \in DOMAIN s, k \notin 1 .. d, s[k].path = x[1]
        PROVE  x[2] < s[k].pos - IF k = Len(s) THEN 0 ELSE 0
    <3>1. k \notin Unread(s) /\ s[k].pos \in Nat
      BY <1>1, <2>3
    <3>2. ~(s[k].pos <= Len(text[x[1]]))
      BY <2>3, <3>1 DEF Unread
    <3> QED BY <2>1, <3>1, <3>2
  <2>4. ASSUME Past(o, 1, x), NEW k \in DOMAIN s, s[k].path = x[1]
        PROVE  x[2] < s[k].pos - IF k = Len(s) THEN 0 ELSE 0
    <3>1. CASE k \in 1 .. d
      <4>1. x[2] < o[k].pos - IF k = Len(o) THEN 1 ELSE 0
        BY <1>1, <2>4, <3>1 DEF Past
      <4> QED BY <2>2, <3>1, <4>1
    <3> QED BY <2>3, <2>4, <3>1
  <2>5. ASSUME Past(s, 0, x), NEW k \in 1 .. d, o[k].path = x[1]
        PROVE  x[2] < o[k].pos - IF k = Len(o) THEN 1 ELSE 0
    <3>1. x[2] < s[k].pos - IF k = Len(s) THEN 0 ELSE 0
      BY <1>1, <2>5 DEF Past
    <3> QED BY <2>2, <3>1
  <2> QED BY <1>1, <2>4, <2>5 DEF Past
<1>4. Passed(text, v, o, 1, ops) = Passed(text, v, s, 0, ops)
  BY <1>3 DEF Passed
<1>5. d = 0 => Passed(text, v, << >>, 0, ops) = Passed(text, v, o, 1, ops)
  BY <1>1 DEF Passed, Past
<1> QED BY <1>2, <1>4, <1>5

\* The token the parser looks at is the next one to be left behind.
LEMMA TokenPassed ==
  ASSUME text \in Texts, visited \in Seq(Path), open \in Seq(Scanner), Apart(open),
         Paths(open) \subseteq Values(visited), TokenOK(text, open, managed, tok), NEW ops
  PROVE  Cardinality(Passed(text, visited, open, 0, ops)) =
           Cardinality(Passed(text, visited, open, 1, ops))
             + IF tok.type = "word" /\ tok.word.op \in ops THEN 1 ELSE 0
<1> DEFINE n == Len(open)
           f == tok.file
           k == open[n].pos - 1
           A == Passed(text, visited, open, 0, ops)
           B == Passed(text, visited, open, 1, ops)
<1>1. /\ n \in Nat /\ n >= 1 /\ DOMAIN open = 1 .. n /\ n \in 1 .. n
      /\ \A i \in 1 .. n : open[i].path \in Path /\ open[i].pos \in Nat \ {0}
  <2>1. n \in Nat /\ n >= 1 /\ DOMAIN open = 1 .. n /\ n \in 1 .. n
    BY DEF TokenOK
  <2>2. \A i \in 1 .. n : open[i] \in Scanner
    BY <2>1
  <2>3. \A i \in 1 .. n : open[i].path \in Path /\ open[i].pos \in Nat \ {0}
    BY <2>2 DEF Scanner
  <2> QED BY <2>1, <2>3
<1>2. /\ f = open[n].path /\ f \in Path /\ k \in Nat /\ k + 1 = open[n].pos
      /\ k \in DOMAIN text[f] /\ text[f][k] = tok.word /\ tok.type = tok.word.type
  <2>1. /\ tok.file = open[n].path /\ k \in DOMAIN text[tok.file] /\ text[tok.file][k] = tok.word
        /\ tok.type = tok.word.type
    BY DEF TokenOK
  <2>2. open[n].path \in Path /\ open[n].pos \in Nat \ {0}
    BY <1>1
  <2>3. \A x \in Nat \ {0} : x - 1 \in Nat /\ x - 1 + 1 = x
    OBVIOUS
  <2>4. k \in Nat /\ k + 1 = open[n].pos
    BY <2>2, <2>3
  <2> HIDE DEF k, n
  <2> QED BY <2>1, <2>2, <2>4
<1>3. f \in Values(visited)
  BY <1>1, <1>2 DEF Paths
<1> HIDE DEF f, k, n
<1>4. \A i \in 1 .. n : open[i].path = f <=> i = n
  BY <1>1, <1>2 DEF Apart
<1>5. ASSUME NEW x \in Marks(text, visited, ops)
      PROVE  Past(open, 0, x) <=> Past(open, 1, x) \/ x = <<f, k>>
  <2>1. x = <<x[1], x[2]>> /\ x[2] \in Nat
    BY MarkIs
  <2>2. \A y \in Nat : y - 0 = y
    OBVIOUS
  <2>3. CASE x[1] = f
    <3>1. Past(open, 0, x) <=> x[2] < open[n].pos
      BY <1>1, <1>4, <2>2, <2>3 DEF Past
    <3>2. Past(open, 1, x) <=> x[2] < open[n].pos - 1
      BY <1>1, <1>4, <2>3 DEF Past, n
    <3>3. x[2] < open[n].pos <=> x[2] < open[n].pos - 1 \/ x[2] = k
      BY <1>1, <1>2, <2>1
    <3>4. x = <<f, k>> <=> x[2] = k
      BY <2>1, <2>3
    <3> QED BY <3>1, <3>2, <3>3, <3>4
  <2>4. CASE x[1] # f
    <3>1. x # <<f, k>>
      BY <2>4
    <3>2. \A i \in 1 .. n : open[i].path = x[1] =>
            open[i].pos - (IF i = Len(open) THEN 1 ELSE 0) = open[i].pos - (IF i = Len(open) THEN 0 ELSE 0)
      BY <1>4, <2>4 DEF n
    <3> QED BY <1>1, <3>1, <3>2 DEF Past
  <2> QED BY <2>3, <2>4
<1>6. CASE tok.type = "word" /\ tok.word.op \in ops
  <2>1. <<f, k>> \in Marks(text, visited, ops)
    BY <1>2, <1>3, <1>6, IsMark
  <2>2. ~Past(open, 1, <<f, k>>)
    <3> SUFFICES ASSUME Past(open, 1, <<f, k>>) PROVE FALSE OBVIOUS
    <3>1. k < open[n].pos - 1
      BY <1>1, <1>2 DEF Past, n
    <3> QED BY <1>1, <1>2, <3>1
  <2>3. A = B \cup {<<f, k>>} /\ <<f, k>> \notin B
    BY <1>5, <2>1, <2>2 DEF Passed
  <2> HIDE DEF A, B
  <2>4. IsFiniteSet(B)
    BY MarksFinite DEF B
  <2>5. Cardinality(A) = Cardinality(B) + 1
    BY <2>3, <2>4, FS_AddElement
  <2> QED BY <1>6, <2>5 DEF A, B
<1>7. CASE ~(tok.type = "word" /\ tok.word.op \in ops)
  <2>1. <<f, k>> \notin Marks(text, visited, ops)
    <3> SUFFICES ASSUME <<f, k>> \in Marks(text, visited, ops) PROVE FALSE OBVIOUS
    <3>1. text[f][k].type = "word" /\ text[f][k].op \in ops
      BY MarkIs
    <3> QED BY <1>2, <1>7, <3>1
  <2>2. A = B
    BY <1>5, <2>1 DEF Passed
  <2>3. Cardinality(B) \in Nat
    BY MarksFinite, FS_CardinalityType
  <2> QED BY <1>7, <2>2, <2>3
<1> QED BY <1>6, <1>7

LEMMA ReadTokBalances ==
  ASSUME text \in Texts, NEW s \in Seq(Scanner), NEW v \in Seq(Path), NEW m, NEW whole \in BOOLEAN,
         ReadTok(s, m, whole), NEW depth, NEW owes, InBalance(text, v, s, 0, depth),
         ~whole => owes \/ depth > 1
  PROVE  BInv(text, v, open', phase', depth, owes)
<1>1. ASSUME NEW ops
      PROVE  /\ phase' = "parse" => Passed(text, v, open', 1, ops) = Passed(text, v, s, 0, ops)
             /\ phase' = "lost" => Passed(text, v, << >>, 0, ops) = Passed(text, v, s, 0, ops) /\ ~whole
             /\ phase' # "init"
  BY ReadTokPassed
<1>2. phase' = "parse" => InBalance(text, v, open', 1, depth)
  BY <1>1 DEF InBalance
<1>3. phase' = "lost" => InBalance(text, v, << >>, 0, depth) /\ (owes \/ depth > 1)
  BY <1>1 DEF InBalance
<1> QED BY <1>1, <1>2, <1>3 DEF BInv

\* A file that is opened has nothing behind it yet.
LEMMA VisitBalances ==
  ASSUME text \in Texts, visited \in Seq(Path), open \in Seq(Scanner),
         Paths(open) \subseteq Values(visited), NEW p \in Path, Visit(p),
         NEW depth, InBalance(text, visited, open, 0, depth)
  PROVE  BInv(text, visited', open', phase', depth, TRUE)
<1>1. CASE Seen(p) /\ ReadTok(open, managed, FALSE) /\ visited' = visited
  <2>1. BInv(text, visited, open', phase', depth, TRUE)
    BY <1>1, ReadTokBalances
  <2> QED BY <1>1, <2>1
<1>2. CASE phase' = "failed"
  BY <1>2 DEF BInv
<1>3. CASE ~Seen(p) /\ visited' = Append(visited, p)
           /\ ReadTok(Append(open, Frame(p)), managed \cup {p}, FALSE)
  <2> DEFINE s == Append(open, Frame(p))
             v == Append(visited, p)
             n == Len(open)
  <2>1. /\ v \in Seq(Path) /\ s \in Seq(Scanner)
        /\ n \in Nat /\ DOMAIN open = 1 .. n /\ DOMAIN s = 1 .. n + 1 /\ n + 1 \in 1 .. n + 1
        /\ \A i \in 1 .. n : s[i] = open[i] /\ i \in 1 .. n + 1
        /\ \A i \in 1 .. n + 1 : i \in 1 .. n \/ i = n + 1
        /\ s[n + 1].path = p /\ s[n + 1].pos = 1
    <3>1. Frame(p) \in Scanner /\ Frame(p).path = p /\ Frame(p).pos = 1
      BY DEF Frame, Scanner
    <3>2. /\ n \in Nat /\ DOMAIN open = 1 .. n /\ n + 1 \in 1 .. n + 1
          /\ \A i \in 1 .. n + 1 : i \in 1 .. n \/ i = n + 1
      OBVIOUS
    <3>3. /\ s \in Seq(Scanner) /\ DOMAIN s = 1 .. n + 1 /\ s[n + 1] = Frame(p)
          /\ \A i \in 1 .. n : s[i] = open[i] /\ i \in 1 .. n + 1
      BY <3>1
    <3>4. v \in Seq(Path)
      OBVIOUS
    <3> HIDE DEF s, v, n
    <3> QED BY <3>1, <3>2, <3>3, <3>4
  <2>2. \A x : x \in Values(v) <=> x \in Values(visited) \/ x = p
    <3>1. /\ Len(visited) \in Nat /\ DOMAIN visited = 1 .. Len(visited)
          /\ DOMAIN v = 1 .. Len(visited) + 1 /\ v[Len(visited) + 1] = p
          /\ \A i \in 1 .. Len(visited) : v[i] = visited[i] /\ i \in 1 .. Len(visited) + 1
          /\ \A i \in 1 .. Len(visited) + 1 : i \in 1 .. Len(visited) \/ i = Len(visited) + 1
          /\ Len(visited) + 1 \in 1 .. Len(visited) + 1
      OBVIOUS
    <3> HIDE DEF v
    <3> QED BY <3>1 DEF Values
  <2> HIDE DEF s, v, n
  <2>3. p \notin Values(visited)
    BY <1>3 DEF Seen, Values
  <2>4. ASSUME NEW x, x[1] # p PROVE Past(s, 0, x) <=> Past(open, 0, x)
    <3>1. \A k \in 1 .. n : s[k].pos - (IF k = Len(s) THEN 0 ELSE 0) = open[k].pos - (IF k = Len(open) THEN 0 ELSE 0)
      BY <2>1
    <3> QED BY <2>1, <2>4, <3>1 DEF Past
  <2>5. ASSUME NEW x, x[1] = p, x[2] \in Nat, x[2] >= 1 PROVE ~Past(s, 0, x)
    <3> SUFFICES ASSUME Past(s, 0, x) PROVE FALSE
      OBVIOUS
    <3>1. x[2] < s[n + 1].pos - IF n + 1 = Len(s) THEN 0 ELSE 0
      BY <2>1, <2>5 DEF Past
    <3> QED BY <2>1, <2>5, <3>1
  <2>6. ASSUME NEW ops PROVE Passed(text, v, s, 0, ops) = Passed(text, visited, open, 0, ops)
    <3>1. ASSUME NEW x \in Passed(text, v, s, 0, ops) PROVE x \in Passed(text, visited, open, 0, ops)
      <4>1. x \in Marks(text, v, ops) /\ Past(s, 0, x)
        BY DEF Passed
      <4>2. /\ x = <<x[1], x[2]>> /\ x[1] \in Values(v) /\ x[2] \in DOMAIN text[x[1]]
            /\ x[2] \in Nat /\ x[2] >= 1
            /\ text[x[1]][x[2]].type = "word" /\ text[x[1]][x[2]].op \in ops
        BY <2>1, <4>1, MarkIs
      <4>3. x[1] # p
        BY <2>5, <4>1, <4>2
      <4>4. PICK q \in Values(visited) : q = x[1]
        BY <2>2, <4>2, <4>3
      <4>5. PICK i : i = x[2]
        OBVIOUS
      <4>6. <<q, i>> \in Marks(text, visited, ops)
        BY <4>2, <4>4, <4>5, IsMark
      <4> QED BY <2>4, <4>1, <4>2, <4>3, <4>4, <4>5, <4>6 DEF Passed
    <3>2. ASSUME NEW x \in Passed(text, visited, open, 0, ops) PROVE x \in Passed(text, v, s, 0, ops)
      <4>1. x \in Marks(text, visited, ops) /\ Past(open, 0, x)
        BY DEF Passed
      <4>2. /\ x = <<x[1], x[2]>> /\ x[1] \in Values(visited) /\ x[2] \in DOMAIN text[x[1]]
            /\ text[x[1]][x[2]].type = "word" /\ text[x[1]][x[2]].op \in ops
        BY <4>1, MarkIs
      <4>3. x[1] # p
        BY <2>3, <4>2
      <4>4. PICK q \in Values(v) : q = x[1]
        BY <2>2, <4>2
      <4>5. PICK i : i = x[2]
        OBVIOUS
      <4>6. <<q, i>> \in Marks(text, v, ops)
        BY <4>2, <4>4, <4>5, IsMark
      <4> QED BY <2>4, <4>1, <4>2, <4>3, <4>4, <4>5, <4>6 DEF Passed
    <3> QED BY <3>1, <3>2
  <2>7. InBalance(text, v, s, 0, depth)
    BY <2>6 DEF InBalance
  <2>8. BInv(text, v, open', phase', depth, TRUE)
    BY <1>3, <2>1, <2>7, ReadTokBalances DEF s
  <2> QED BY <1>3, <2>8 DEF v
<1> QED BY <1>1, <1>2, <1>3 DEF Visit

LEMMA LenIs ==
  ASSUME NEW T, NEW s \in Seq(T), NEW n \in Nat, DOMAIN s = 1 .. n
  PROVE  Len(s) = n
<1>1. Len(s) \in Nat /\ DOMAIN s = 1 .. Len(s)
  OBVIOUS
<1> QED BY <1>1

\* How many frames the operations on the tables leave.
LEMMA NewFrameLen ==
  ASSUME NEW ps, PInv(ps), ps.frames # << >>, NEW nested \in BOOLEAN, NEW word \in Word, NEW h,
         h = NewFrame(ps, nested, word)
  PROVE  Len(h.frames) = Len(ps.frames) + 1
<1>1. Deeper(h, ps, nested, word)
  BY NewFrameIs DEF PInv
<1>2. h.frames \in Seq(ParserFrame) /\ Len(ps.frames) + 1 \in Nat
  BY <1>1 DEF Deeper, Tables
<1>3. DOMAIN h.frames = 1 .. Len(ps.frames) + 1
  BY <1>1 DEF Deeper
<1> QED BY <1>2, <1>3, LenIs

LEMMA CloseLen ==
  ASSUME NEW ps, PInv(ps), ps.frames # << >>, NEW h, h = CloseFrame(ps)
  PROVE  Len(h.frames) + 1 = Len(ps.frames)
<1>1. Shallower(h, ps)
  BY CloseFrameIs DEF PInv
<1>2. h.frames \in Seq(ParserFrame) /\ Len(ps.frames) - 1 \in Nat /\ Len(ps.frames) \in Nat
  <2>1. \A n \in Nat : n >= 1 => n - 1 \in Nat
    OBVIOUS
  <2> QED BY <1>1, <2>1 DEF Shallower, Tables
<1>3. DOMAIN h.frames = 1 .. Len(ps.frames) - 1
  BY <1>1 DEF Shallower
<1>4. Len(h.frames) = Len(ps.frames) - 1
  BY <1>2, <1>3, LenIs
<1> QED BY <1>2, <1>4

LEMMA DeclLen ==
  ASSUME NEW ps, PInv(ps), ps.frames # << >>, NEW name \in Name, NEW is_global \in BOOLEAN, NEW h,
         h = DeclVar(ps, name, is_global)
  PROVE  Len(h.frames) = Len(ps.frames)
<1>1. Declared(h, ps, name, is_global)
  BY DeclVarIs DEF PInv
<1>2. h.frames \in Seq(ParserFrame) /\ Len(ps.frames) \in Nat
  BY <1>1 DEF Declared, Tables
<1>3. DOMAIN h.frames = 1 .. Len(ps.frames)
  BY <1>1 DEF Declared
<1> QED BY <1>2, <1>3, LenIs

\* A word that is taken opens a frame, closes one, or leaves as many as there are.
Counts(op, before, after) ==
  after + (IF op \in Closes THEN 1 ELSE 0) = before + IF op \in Opens THEN 1 ELSE 0

LEMMA TakeBalances ==
  ASSUME IInv, phase = "parse", tok.type = "word",
         BInv(text, visited, open, phase, Len(parser.frames), owed),
         NEW ok, NEW ps, NEW opens \in BOOLEAN, Take(ok, ps, opens),
         ok => /\ PInv(ps) /\ ps.frames # << >>
               /\ Counts(tok.word.op, Len(parser.frames), Len(ps.frames))
  PROVE  BInv(text, visited, open, phase, Len(parser.frames), owed)'
<1>1. /\ text \in Texts /\ visited \in Seq(Path) /\ open \in Seq(Scanner) /\ Apart(open)
      /\ Paths(open) \subseteq Values(visited) /\ TokenOK(text, open, managed, tok)
      /\ InBalance(text, visited, open, 1, Len(parser.frames))
  BY DEF IInv, SInv, BInv
<1>2. CASE ok /\ parser' = ps /\ owed' = opens /\ ParseWord(Outside(ps) /\ ~opens)
  <2>1. PICK whole \in BOOLEAN : whole = (Outside(ps) /\ ~opens)
    BY DEF Outside
  <2>2. ReadTok(open, managed, whole) /\ text' = text /\ visited' = visited
    BY <1>2, <2>1 DEF ParseWord
  <2>3. PICK depth : depth = Len(ps.frames)
    OBVIOUS
  <2>4. depth \in Nat /\ depth >= 1
    <3>1. ps.frames \in Seq(ParserFrame) /\ ps.frames # << >>
      BY <1>2 DEF PInv, Tables
    <3> QED BY <2>3, <3>1
  <2>5. InBalance(text, visited, open, 0, depth)
    <3> DEFINE c0 == Cardinality(Passed(text, visited, open, 0, Closes))
               c1 == Cardinality(Passed(text, visited, open, 1, Closes))
               o0 == Cardinality(Passed(text, visited, open, 0, Opens))
               o1 == Cardinality(Passed(text, visited, open, 1, Opens))
               c == IF tok.word.op \in Closes THEN 1 ELSE 0
               o == IF tok.word.op \in Opens THEN 1 ELSE 0
               l == Len(parser.frames)
    <3>1. c0 = c1 + c /\ o0 = o1 + o
      BY <1>1, TokenPassed
    <3>2. c0 \in Nat /\ c1 \in Nat /\ o0 \in Nat /\ o1 \in Nat
      BY <1>1, MarksFinite, FS_CardinalityType
    <3>3. l \in Nat /\ l + c1 = 1 + o1
      BY <1>1 DEF InBalance
    <3>4. depth + c = l + o
      BY <1>2, <2>3 DEF Counts
    <3>5. c \in Nat /\ o \in Nat
      OBVIOUS
    <3>6. depth + c0 = 1 + o0
      <4> HIDE DEF c0, c1, o0, o1, c, o, l
      <4> QED BY <2>4, <3>1, <3>2, <3>3, <3>4, <3>5
    <3> QED BY <2>4, <3>6 DEF InBalance
  <2>6. ~whole => opens \/ depth > 1
    <3>1. ~whole => opens \/ depth # 1
      BY <2>1, <2>3 DEF Outside
    <3> QED BY <2>4, <3>1
  <2>7. BInv(text, visited, open', phase', depth, opens)
    BY <1>1, <2>2, <2>5, <2>6, ReadTokBalances
  <2> QED BY <1>2, <2>2, <2>3, <2>7
<1>3. CASE RejectWord
  BY <1>3 DEF RejectWord, BInv
<1> QED BY <1>2, <1>3 DEF Take

LEMMA NextBalances ==
  IInv /\ BInv(text, visited, open, phase, Len(parser.frames), owed) /\ [ScopesNext]_allVars
    => BInv(text, visited, open, phase, Len(parser.frames), owed)'
<1> SUFFICES ASSUME IInv, BInv(text, visited, open, phase, Len(parser.frames), owed), [ScopesNext]_allVars
             PROVE  BInv(text, visited, open, phase, Len(parser.frames), owed)'
  OBVIOUS
<1>0. /\ text \in Texts /\ visited \in Seq(Path) /\ open \in Seq(Scanner) /\ PInv(parser)
      /\ Paths(open) \subseteq Values(visited)
      /\ phase # "over" => parser.frames # << >>
      /\ phase = "init" => visited = << >> /\ open = << >> /\ Len(parser.frames) = 1 /\ owed
      /\ phase = "parse" => InBalance(text, visited, open, 1, Len(parser.frames))
  BY DEF IInv, SInv, BInv
<1>1. CASE Begin /\ UNCHANGED scopeVars
  <2>1. /\ Visit(Root) /\ text' = text /\ phase = "init" /\ parser' = parser /\ owed' = owed
    BY <1>1 DEF Begin, scopeVars
  <2>2. ASSUME NEW ops PROVE Passed(text, visited, open, 0, ops) = {}
    <3>1. DOMAIN visited = {}
      BY <1>0, <2>1
    <3>2. Values(visited) = {}
      BY <3>1 DEF Values
    <3>3. \A x \in Marks(text, visited, ops) : FALSE
      BY <1>0, <3>2, MarkIs
    <3> QED BY <3>3 DEF Passed
  <2>3. InBalance(text, visited, open, 0, Len(parser.frames))
    BY <1>0, <2>1, <2>2, FS_EmptySet DEF InBalance
  <2>4. BInv(text, visited', open', phase', Len(parser.frames), TRUE)
    BY <1>0, <2>1, <2>3, RootAssumption, VisitBalances
  <2> QED BY <1>0, <2>1, <2>4
<1>2. ASSUME phase = "parse", tok.type = "word",
             NEW ok, NEW ps, NEW opens \in BOOLEAN, Take(ok, ps, opens),
             ok => /\ PInv(ps) /\ ps.frames # << >>
                   /\ Counts(tok.word.op, Len(parser.frames), Len(ps.frames))
      PROVE  BInv(text, visited, open, phase, Len(parser.frames), owed)'
  BY <1>2, TakeBalances
<1>3. ASSUME phase = "parse" PROVE parser.frames # << >> /\ Len(parser.frames) \in Nat
  BY <1>0, <1>3 DEF InBalance
<1>4. CASE Do \/ Use \/ RecordDefault
  <2>1. PICK ok : Take(ok, parser, FALSE)
    BY <1>4 DEF Do, Use, RecordDefault
  <2>2. /\ phase = "parse" /\ tok.type = "word"
        /\ tok.word.op \notin Opens /\ tok.word.op \notin Closes
    BY <1>4 DEF Do, Use, RecordDefault, At, Opens, Closes
  <2>3. Counts(tok.word.op, Len(parser.frames), Len(parser.frames))
    BY <1>3, <2>2 DEF Counts
  <2> QED BY <1>0, <1>2, <1>3, <2>1, <2>2, <2>3
<1>5. CASE Declare \/ DeclareGlobal
  <2>1. /\ phase = "parse" /\ tok.type = "word" /\ tok.word.op \in {"decl", "global"}
        /\ tok.word.op \notin Opens /\ tok.word.op \notin Closes
    BY <1>5 DEF Declare, DeclareGlobal, At, Opens, Closes
  <2>2. PICK b \in BOOLEAN : \E ok : (ok => Undeclared(parser, tok.word.name) /\ (b => ~Top(parser).return_type))
                                   /\ Take(ok, DeclVar(parser, tok.word.name, b), FALSE)
    <3>1. CASE Declare
      <4>1. Take(Undeclared(parser, tok.word.name), DeclVar(parser, tok.word.name, FALSE), FALSE)
        BY <3>1 DEF Declare
      <4> QED BY <4>1
    <3>2. CASE DeclareGlobal
      <4>1. Take(~Top(parser).return_type /\ Undeclared(parser, tok.word.name),
                 DeclVar(parser, tok.word.name, TRUE), FALSE)
        BY <3>2 DEF DeclareGlobal
      <4> QED BY <4>1
    <3> QED BY <1>5, <3>1, <3>2
  <2>3. PICK ok : (ok => Undeclared(parser, tok.word.name) /\ (b => ~Top(parser).return_type))
                  /\ Take(ok, DeclVar(parser, tok.word.name, b), FALSE)
    BY <2>2
  <2>4. PICK h : h = DeclVar(parser, tok.word.name, b)
    OBVIOUS
  <2>5. tok.word.name \in Name
    BY <2>1, TokenWord
  <2>6. ok => PInv(h) /\ h.frames # << >>
    BY <1>0, <1>3, <2>1, <2>3, <2>4, <2>5, DeclLocalInv, DeclGlobalInv, DeclNotEmpty
  <2>7. Len(h.frames) = Len(parser.frames)
    BY <1>0, <1>3, <2>1, <2>4, <2>5, DeclLen
  <2>8. Counts(tok.word.op, Len(parser.frames), Len(h.frames))
    BY <1>3, <2>1, <2>7 DEF Counts
  <2> QED BY <1>2, <2>1, <2>3, <2>4, <2>6, <2>8
<1>6. CASE Open
  <2>1. /\ phase = "parse" /\ tok.type = "word" /\ tok.word \in Word
        /\ tok.word.op \in Opens /\ tok.word.op \notin Closes
    BY <1>6, TokenWord DEF Open, At, Opens, Closes
  <2>2. PICK h : h = NewFrame(parser, TRUE, tok.word)
    OBVIOUS
  <2>3. PInv(h) /\ h.frames # << >> /\ Len(h.frames) = Len(parser.frames) + 1
    BY <1>0, <1>3, <2>1, <2>2, NewFrameInv, NewFrameNotEmpty, NewFrameLen
  <2>4. Counts(tok.word.op, Len(parser.frames), Len(h.frames))
    BY <1>3, <2>1, <2>3 DEF Counts
  <2>5. Take(Room, h, TRUE)
    BY <1>6, <2>2 DEF Open
  <2> QED BY <1>2, <2>1, <2>3, <2>4, <2>5
<1>7. CASE Proc
  <2>1. /\ phase = "parse" /\ tok.type = "word" /\ tok.word.op = "proc"
        /\ tok.word \in Word /\ tok.word.param \in Name \cup {NoName}
        /\ tok.word.op \in Opens /\ tok.word.op \notin Closes
    BY <1>7, TokenWord DEF Proc, At, Opens, Closes
  <2>2. PICK h : h = NewFrame(parser, FALSE, tok.word)
    OBVIOUS
  <2>3. PInv(h) /\ h.frames # << >> /\ Len(h.frames) = Len(parser.frames) + 1
    BY <1>0, <1>3, <2>1, <2>2, NewFrameInv, NewFrameNotEmpty, NewFrameLen
  <2>4. PICK g : g = IF tok.word.param = NoName THEN h ELSE DeclVar(h, tok.word.param, FALSE)
    OBVIOUS
  <2>5. (tok.word.param # NoName => Undeclared(h, tok.word.param))
          => PInv(g) /\ g.frames # << >> /\ Len(g.frames) = Len(h.frames)
    BY <2>1, <2>3, <2>4, DeclLocalInv, DeclNotEmpty, DeclLen
  <2>6. PICK k : k = DeclVar(g, ThisProc, FALSE)
    OBVIOUS
  <2>7. PInv(g) /\ g.frames # << >> /\ Undeclared(g, ThisProc)
          => PInv(k) /\ k.frames # << >> /\ Len(k.frames) = Len(g.frames)
    BY <2>6, NameAssumption, DeclLocalInv, DeclNotEmpty, DeclLen
  <2> DEFINE ok == /\ Room
                   /\ tok.word.param # NoName => Undeclared(h, tok.word.param)
                   /\ Undeclared(g, ThisProc)
  <2>8. Take(ok, k, TRUE)
    BY <1>7, <2>2, <2>4, <2>6 DEF Proc
  <2>9. ok => PInv(k) /\ k.frames # << >> /\ Len(k.frames) = Len(parser.frames) + 1
    BY <2>3, <2>5, <2>7
  <2> HIDE DEF ok
  <2>10. ok => Counts(tok.word.op, Len(parser.frames), Len(k.frames))
    BY <1>3, <2>1, <2>9 DEF Counts
  <2> QED BY <1>2, <2>1, <2>8, <2>9, <2>10
<1>8. CASE Close
  <2>1. /\ phase = "parse" /\ tok.type = "word"
        /\ tok.word.op \in Closes /\ tok.word.op \notin Opens
    BY <1>8 DEF Close, At, Opens, Closes
  <2>2. PICK c : c = CloseFrame(parser)
    OBVIOUS
  <2>3. CASE RejectWord /\ UNCHANGED scopeVars
    BY <2>3 DEF RejectWord, BInv
  <2>4. CASE ~Outside(parser) /\ ~owed
    <3>1. /\ PInv(c) /\ c.frames # << >> /\ Top(parser).word \in Word
          /\ Len(c.frames) + 1 = Len(parser.frames)
      BY <1>0, <1>3, <2>1, <2>2, <2>4, CloseFrameInv, CloseNotEmpty, CloseLen
    <3>2. Counts(tok.word.op, Len(parser.frames), Len(c.frames))
      BY <1>3, <2>1, <3>1 DEF Counts
    <3>3. CASE Top(parser).word.op # "proc"
      <4>1. Take(TRUE, c, FALSE)
        BY <1>8, <2>2, <2>4, <3>3 DEF Close
      <4> QED BY <1>2, <2>1, <3>1, <3>2, <4>1
    <3>4. CASE Top(parser).word.op = "proc"
      <4>1. PICK n : n = Top(parser).word.name
        OBVIOUS
      <4>2. n \in Name
        BY <3>1, <3>4, <4>1, OpAssumption
      <4>3. PICK b \in BOOLEAN : b = ~Top(c).return_type
        OBVIOUS
      <4>4. PICK h : h = DeclVar(c, n, b)
        OBVIOUS
      <4>5. Take(Undeclared(c, n), h, FALSE)
        BY <1>8, <2>2, <2>4, <3>4, <4>1, <4>3, <4>4 DEF Close
      <4>6. Undeclared(c, n) => PInv(h) /\ h.frames # << >>
        BY <3>1, <4>2, <4>3, <4>4, DeclLocalInv, DeclGlobalInv, DeclNotEmpty
      <4>7. Len(h.frames) = Len(c.frames)
        BY <3>1, <4>2, <4>4, DeclLen
      <4> QED BY <1>2, <2>1, <3>2, <4>5, <4>6, <4>7
    <3> QED BY <3>3, <3>4
  <2> QED BY <1>8, <2>3, <2>4 DEF Close
<1>9. CASE IncludeFile
  <2>1. /\ phase = "parse" /\ tok.type = "include" /\ Visit(tok.word.path)
        /\ text' = text /\ parser' = parser /\ owed' = TRUE
    BY <1>9 DEF IncludeFile, ParseInclude
  <2>2. PICK p : p = tok.word.path
    OBVIOUS
  <2>3. p \in Path
    <3>1. tok.word \in Word \cup Include /\ tok.word.type = "include"
      BY <2>1 DEF IInv, SInv, TokenOK
    <3>2. tok.word \in Include
      BY <3>1, WordAssumption
    <3> QED BY <2>2, <3>2 DEF Include
  <2>4. InBalance(text, visited, open, 0, Len(parser.frames))
    <3>1. ASSUME NEW ops
          PROVE  Cardinality(Passed(text, visited, open, 0, ops)) =
                   Cardinality(Passed(text, visited, open, 1, ops))
      <4>1. Cardinality(Passed(text, visited, open, 0, ops)) =
              Cardinality(Passed(text, visited, open, 1, ops)) + 0
        BY <2>1, TokenPassed DEF IInv, SInv
      <4>2. Cardinality(Passed(text, visited, open, 1, ops)) \in Nat
        BY <1>0, MarksFinite, FS_CardinalityType
      <4> QED BY <4>1, <4>2
    <3> QED BY <1>0, <2>1, <3>1 DEF InBalance
  <2>5. BInv(text, visited', open', phase', Len(parser.frames), TRUE)
    BY <1>0, <2>1, <2>2, <2>3, <2>4, VisitBalances
  <2> QED BY <2>1, <2>5
<1>10. CASE End
  BY <1>10 DEF End, Finish, BInv
<1>11. CASE UNCHANGED allVars
  BY <1>11 DEF allVars, vars, scopeVars
<1> QED BY <1>1, <1>4, <1>5, <1>6, <1>7, <1>8, <1>9, <1>10, <1>11 DEF ScopesNext

\* The parser asks for a token after the end of the last file only if the files open
\* more blocks than they close or a statement has to follow (multi_scanner_scan_tok,
\* parse_code_block).
THEOREM LocatedCorrect == ScopesSpec => []Located
<1> DEFINE J == BInv(text, visited, open, phase, Len(parser.frames), owed)
<1>1. ScopesInit => J
  <2> SUFFICES ASSUME ScopesInit PROVE J
    OBVIOUS
  <2>1. phase = "init" /\ owed /\ parser.frames = <<Outermost(1, FALSE, EOF)>>
    BY DEF ScopesInit, Init
  <2>2. Len(parser.frames) = 1
    <3>1. \A x : Len(<<x>>) = 1
      OBVIOUS
    <3> QED BY <2>1, <3>1
  <2> QED BY <2>1, <2>2 DEF BInv
<1>2. IInv /\ J /\ [ScopesNext]_allVars => J'
  BY NextBalances
<1>3. IInv /\ J => Located
  <2> SUFFICES ASSUME IInv, J, phase = "lost", ~owed
               PROVE  Braces({"open", "proc"}) > Braces({"close"})
    BY DEF Located
  <2> DEFINE c == Cardinality(Passed(text, visited, << >>, 0, Closes))
             o == Cardinality(Passed(text, visited, << >>, 0, Opens))
             l == Len(parser.frames)
  <2>1. text \in Texts /\ visited \in Seq(Path)
    BY DEF IInv, SInv
  <2>2. c \in Nat /\ o \in Nat
    BY <2>1, MarksFinite, FS_CardinalityType
  <2>3. l \in Nat /\ l > 1 /\ l + c = 1 + o
    BY DEF BInv, InBalance
  <2>4. o > c
    <3> HIDE DEF c, o, l
    <3> QED BY <2>2, <2>3
  <2>5. ASSUME NEW ops PROVE Braces(ops) = Cardinality(Passed(text, visited, << >>, 0, ops))
    <3>1. Passed(text, visited, << >>, 0, ops) = Marks(text, visited, ops)
      BY DEF Passed, Past
    <3> QED BY <3>1 DEF Braces, Marks
  <2> QED BY <2>4, <2>5 DEF Opens, Closes
<1> HIDE DEF J
<1> QED BY <1>1, <1>2, <1>3, TablesInvariant, PTL DEF ScopesSpec
=============================================================================
