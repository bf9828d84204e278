------------------------------ MODULE TypeSigs ------------------------------
(***************************************************************************)
(* The run-time types of a compiled program: the signatures the compiler   *)
(* writes into defined_signatures, the registers that hand a generic       *)
(* procedure the signatures of its type arguments, the signature every     *)
(* object carries, and the matching behind "is", dynamic_cast and the      *)
(* guards of covariant stores.                                             *)
(*                                                                         *)
(* A type of the source is [t, id, subs]: a base type, the index of a type *)
(* parameter (t = TYPEARG) and the type arguments. A signature is          *)
(* [t, r, subs]: the same with the register that holds the parameter       *)
(* (super_signature, and sub_type_count when it is TYPEARG). frames and    *)
(* objects carry, beside what the program holds, the ground types they     *)
(* stand for; only the properties read those.                              *)
(***************************************************************************)
EXTENDS Integers, Sequences, SequencesExt

CONSTANTS
  Records,      \* the record declarations: record id k is Records[k + 1]
  Procs,        \* the generic procedures: procedure -> its number of parameters
  Sites,        \* the signatures the compiler defines, in order: [proc, type]
  News, Tests, Stores, Puts, Calls,  \* the operations in the program's text
  SigMax,       \* SIG_COUNT_MAX
  MaxObjects, MaxFrames              \* bounds of the exploration

VARIABLES
  defined,      \* defined_signatures[0 .. defined_sig_count - 1]
  frames,       \* the frames: their type argument registers, top last
  objects,      \* the objects in the order of their creation
  status        \* "running", "panicked", or "escaped" (see Call)

vars == <<defined, frames, objects, status>>

ANY == 2
TYPEARG == 3
ARRAY == 9
RECORD == 10

NoProc == "top level"
NoBase == [t |-> 0, id |-> 0, subs |-> <<>>]

---------------------------------------------------------------------------
(* Types of the source.                                                    *)

RECURSIVE HasTypearg(_)
HasTypearg(ty) == ty.t = TYPEARG \/ \E i \in DOMAIN ty.subs : HasTypearg(ty.subs[i])

RECURSIVE Substitute(_, _)
Substitute(args, ty) ==
  IF ty.t = TYPEARG THEN args[ty.id + 1]
  ELSE [ty EXCEPT !.subs = [i \in DOMAIN @ |-> Substitute(args, @[i])]]

Declaration(t) == Records[t - RECORD + 1]
BaseType(ty) == Substitute(ty.subs, Declaration(ty.t).base)

\* May a value of ground type ty be used as one of ground type as? The meaning
\* the run-time test is held to.
RECURSIVE Compatible(_, _)
Compatible(ty, as) ==
  \/ as.t = ANY
  \/ ty.t = as.t /\ \A i \in DOMAIN as.subs : Compatible(ty.subs[i], as.subs[i])
  \/ /\ ty.t # as.t /\ ty.t >= RECORD /\ as.t >= RECORD
     /\ Declaration(ty.t).base # NoBase
     /\ Compatible(BaseType(ty), as)

\* The type of property j of record decl, seen through record type ty.
RECURSIVE PropertyType(_, _, _)
PropertyType(ty, decl, j) ==
  IF ty.t = decl THEN Substitute(ty.subs, Declaration(decl).props[j])
  ELSE PropertyType(BaseType(ty), decl, j)

RECURSIVE IndexOffset(_)
IndexOffset(t) ==
  LET base == Declaration(t).base
  IN  IF base = NoBase THEN 0 ELSE IndexOffset(base.t) + Len(Declaration(base.t).props)

---------------------------------------------------------------------------
(* What the compiler lays down.                                            *)

TypeargReg(p, id) == Procs[p] + 1 + id

RECURSIVE Compiled(_, _)
Compiled(p, ty) ==
  IF ty.t = TYPEARG
  THEN [t |-> TYPEARG, r |-> IF p = NoProc THEN ty.id ELSE TypeargReg(p, ty.id), subs |-> <<>>]
  ELSE [t |-> ty.t, r |-> 0, subs |-> [i \in DOMAIN ty.subs |-> Compiled(p, ty.subs[i])]]

\* array<bool>, array<char>, array<int> and array<float> come first.
Standard == [i \in 1..4 |-> Compiled(NoProc,
               [t |-> ARRAY, id |-> 0, subs |-> <<[t |-> i + 3, id |-> 0, subs |-> <<>>]>>])]

Statics == Standard \o [i \in DOMAIN Sites |-> Compiled(Sites[i].proc, Sites[i].type)]

SiteOf(p, ty) == 4 + CHOOSE i \in DOMAIN Sites : Sites[i] = [proc |-> p, type |-> ty]

\* Record id -> the signature of its base record, 0 for none.
type_table ==
  [k \in 0..Len(Records) - 1 |->
     IF Records[k + 1].base = NoBase THEN 0 ELSE SiteOf(NoProc, Records[k + 1].base)]

BaseSig(t) == defined[type_table[t - RECORD]]

---------------------------------------------------------------------------
(* The run-time support; regs are the registers of the current frame.      *)

RECURSIVE Atomize(_, _, _)
Atomize(regs, sig, atom) ==
  IF sig.t = TYPEARG
  THEN IF atom THEN Atomize(regs, defined[regs[sig.r]], TRUE) ELSE sig
  ELSE [sig EXCEPT !.subs = [i \in DOMAIN @ |-> Atomize(regs, @[i], atom)]]

RECURSIVE GetSuper(_, _, _)
GetSuper(regs, args, sig) ==
  IF sig.t = TYPEARG THEN Atomize(regs, args[sig.r + 1], TRUE)
  ELSE [sig EXCEPT !.subs = [i \in DOMAIN @ |-> GetSuper(regs, args, @[i])]]

\* Mutant of Downcast: the base record gets the arguments as they stand.
RECURSIVE DowncastUnsubstituted(_, _, _)
DowncastUnsubstituted(regs, sig, req) ==
  IF sig.t = req THEN sig
  ELSE DowncastUnsubstituted(regs, [BaseSig(sig.t) EXCEPT !.subs = sig.subs], req)

RECURSIVE Downcast(_, _, _)
Downcast(regs, sig, req) ==
  IF sig.t = req THEN sig
  ELSE Downcast(regs, GetSuper(regs, sig.subs, Atomize(regs, BaseSig(sig.t), FALSE)), req)

\* is_super_type indexes type_table with child - 10: below 10 it reads memory
\* in front of the table, and nothing is known of the answer ("undefined").
RECURSIVE IsSuper(_, _)
IsSuper(child, super) ==
  IF child < RECORD THEN "undefined"
  ELSE IF type_table[child - RECORD] = 0 THEN "no"
  ELSE IF BaseSig(child).t = super THEN "yes" ELSE IsSuper(BaseSig(child).t, super)

Resolved(regs, sig) == IF sig.t = TYPEARG THEN defined[regs[sig.r]] ELSE sig

RECURSIVE Match(_, _, _)
Match(regs, matchSig, parentSig) ==
  LET match  == Resolved(regs, matchSig)
      parent == Resolved(regs, parentSig)
      super  == IsSuper(match.t, parent.t)
      subs   == [i \in DOMAIN parent.subs |-> Match(regs, match.subs[i], parent.subs[i])]
      failed == SelectSeq(subs, LAMBDA answer : answer # "yes")
  IN  IF parentSig.t = ANY THEN "yes"
      ELSE IF match.t # parent.t
           THEN IF super = "yes"
                THEN Match(regs, Downcast(regs, Atomize(regs, match, FALSE), parent.t), parent)
                ELSE super
      ELSE IF Len(match.subs) # Len(parent.subs) THEN "no"
      ELSE IF failed = <<>> THEN "yes" ELSE Head(failed)

SigOf(o) == IF o.at > 0 THEN defined[o.at] ELSE o.sig

---------------------------------------------------------------------------
(* The running program.                                                    *)

Top == Last(frames)
Regs == Top.regs
Ground(ty) == Substitute(Top.targs, ty)

NoSig == [t |-> 0, r |-> 0, subs |-> <<>>]

Init ==
  /\ defined = Statics
  /\ frames = <<[proc |-> NoProc, regs |-> <<>>, pops |-> 0, targs |-> <<>>]>>
  /\ objects = <<>>
  /\ status = "running"

\* A creation of n.type: CONFIG_TYPESIG gives the object the signature of the
\* site, or a copy with the parameters resolved when there are any.
New(n) ==
  /\ status = "running" /\ n.proc = Top.proc
  /\ Len(objects) < MaxObjects
  /\ LET site == SiteOf(n.proc, n.type)
         open == HasTypearg(n.type)
     IN  objects' = Append(objects,
           [at |-> IF open THEN 0 ELSE site,
            sig |-> IF open THEN Atomize(Regs, defined[site], TRUE) ELSE NoSig,
            type |-> Ground(n.type)])
  /\ UNCHANGED <<defined, frames, status>>

Bare(ty) == ty.t = TYPEARG

\* The signatures a call pushes: one for every type argument that is not itself
\* a parameter, when the call's result type mentions a parameter.
Pushed(c) ==
  IF ~c.open THEN <<>>
  ELSE [i \in DOMAIN SelectSeq(c.args, LAMBDA ty : ~Bare(ty)) |->
         Atomize(Regs, defined[SiteOf(c.from, SelectSeq(c.args, LAMBDA ty : ~Bare(ty))[i])], TRUE)]

\* Mutant of Passed: arguments passed by a move are counted as pushed.
PassedAllCounted(c, i) ==
  IF Bare(c.args[i]) THEN Regs[TypeargReg(c.from, c.args[i].id)]
  ELSE IF c.open THEN Len(defined) + i ELSE SiteOf(c.from, c.args[i])

\* The index passed for the i-th type argument: the caller's own register, a
\* signature just pushed, or the site's.
Passed(c, i) ==
  IF Bare(c.args[i]) THEN Regs[TypeargReg(c.from, c.args[i].id)]
  ELSE IF c.open
       THEN Len(defined) + Len(SelectSeq(SubSeq(c.args, 1, i), LAMBDA ty : ~Bare(ty)))
       ELSE SiteOf(c.from, c.args[i])

\* A type argument that mentions a parameter is passed unresolved when the
\* result type mentions none: the callee reads it against its own registers.
Escapes(c) == ~c.open /\ \E i \in DOMAIN c.args : ~Bare(c.args[i]) /\ HasTypearg(c.args[i])

Call(c) ==
  /\ status = "running" /\ c.from = Top.proc
  /\ Len(frames) < MaxFrames
  /\ UNCHANGED objects
  /\ IF Escapes(c)
     THEN status' = "escaped" /\ UNCHANGED <<defined, frames>>
     ELSE IF Len(defined) + Len(Pushed(c)) > SigMax
     THEN status' = "panicked" /\ UNCHANGED <<defined, frames>>
     ELSE /\ defined' = defined \o Pushed(c)
          /\ frames' = Append(frames,
               [proc |-> c.to, pops |-> Len(Pushed(c)),
                regs |-> [r \in {TypeargReg(c.to, i - 1) : i \in DOMAIN c.args} |->
                            Passed(c, r - Procs[c.to])],
                targs |-> [i \in DOMAIN c.args |-> Ground(c.args[i])]])
          /\ UNCHANGED status

\* RETURN, and POP_ATOM_TYPESIGS behind the call.
Return ==
  /\ status = "running" /\ Len(frames) > 1
  /\ defined' = SubSeq(defined, 1, Len(defined) - Top.pops)
  /\ frames' = Front(frames)
  /\ UNCHANGED <<objects, status>>

\* An answer a check panics on ends the program; "undefined" may be either.
Outcomes(answer) ==
  (IF answer = "no" THEN {} ELSE {"running"})
    \cup (IF answer = "yes" THEN {} ELSE {"panicked"})

\* The parameters below the top of a pattern are resolved after the test for
\* any: one that stands for any then only matches any.
RECURSIVE BindsAny(_)
BindsAny(ty) ==
  \E i \in DOMAIN ty.subs :
    \/ Bare(ty.subs[i]) /\ Ground(ty.subs[i]).t = ANY
    \/ BindsAny(ty.subs[i])

\* "is" and dynamic_cast (RUNTIME_* and DYNAMIC_*_DD, _DR, _RD). For an operand
\* whose type is a parameter the object's own signature is read only if the
\* parameter stands for a record.
OperandSig(ty, o) ==
  IF Bare(ty) /\ defined[Regs[TypeargReg(Top.proc, ty.id)]].t < RECORD
  THEN defined[Regs[TypeargReg(Top.proc, ty.id)]]
  ELSE SigOf(o)

PatternSig(ty) ==
  IF Bare(ty) THEN defined[Regs[TypeargReg(Top.proc, ty.id)]]
  ELSE defined[SiteOf(Top.proc, ty)]

MayTest(x, o) == x.proc = Top.proc /\ Compatible(o.type, Ground(x.operand))

TestAnswer(x, o) == Match(Regs, OperandSig(x.operand, o), PatternSig(x.match))

TestCovered(x) ==
  ~BindsAny(x.match) /\ (Bare(x.operand) => Ground(x.operand).t >= RECORD)

Test(x, o) ==
  /\ status = "running" /\ MayTest(x, o)
  /\ status' \in IF x.cast THEN Outcomes(TestAnswer(x, o)) ELSE {"running"}
  /\ UNCHANGED <<defined, frames, objects>>

---------------------------------------------------------------------------
(* Guarded stores.                                                         *)

\* Signature i (from 0) of the type arguments, none when i is out of range.
ArgSig(sig, i) == IF i < Len(sig.subs) THEN sig.subs[i + 1] ELSE NoSig

\* Mutant of GuardedSig: children of the static record are not considered.
GuardedSigOwn(s, o) == SigOf(o)

\* The record's signature as the guard uses it: its own, or downcast to the
\* static record when the parser has counted children of that record.
GuardedSig(s, o) ==
  IF Declaration(s.rec.t).counted
  THEN Downcast(Regs, Atomize(Regs, SigOf(o), TRUE), s.rec.t)
  ELSE SigOf(o)

\* The number of type arguments a property's signature needs.
RECURSIVE Needs(_)
Needs(sig) ==
  IF sig.t = TYPEARG THEN sig.r + 1
  ELSE FoldLeft(LAMBDA n, sub : IF Needs(sub) > n THEN Needs(sub) ELSE n, 0, sig.subs)

\* do_typeguard: the argument with the number of the PROPERTY is compared.
TypeargGuard(s, o, v) ==
  LET id  == IndexOffset(s.decl) + s.prop - 1
      sig == ArgSig(GuardedSig(s, o), id)
  IN  IF sig = NoSig THEN "undefined"
      ELSE IF sig.t >= ARRAY THEN Match(Regs, SigOf(v), sig) ELSE "yes"

\* do_sub_typeguard: the property's signature under the record's arguments.
SubGuard(s, o, v) ==
  LET sig  == defined[SiteOf(NoProc, Declaration(s.decl).props[s.prop])]
      args == GuardedSig(s, o).subs
  IN  IF Needs(sig) > Len(args) THEN "undefined"
      ELSE Match(Regs, SigOf(v), GetSuper(Regs, args, Atomize(Regs, sig, FALSE)))

\* The guards know the parameters of the static record only: the property must
\* be its own, the object must be one or be downcast to one, and a property
\* that is a parameter must have the number of that parameter.
Reaches(s, o) ==
  LET ty == Declaration(s.decl).props[s.prop]
  IN  /\ s.decl = s.rec.t
      /\ Declaration(s.rec.t).counted \/ o.type.t = s.rec.t
      /\ Bare(ty) => ty.id = IndexOffset(s.decl) + s.prop - 1

StoreAnswer(s, o, v) ==
  IF Bare(Declaration(s.decl).props[s.prop]) THEN TypeargGuard(s, o, v) ELSE SubGuard(s, o, v)

\* What the checker admits: the object v for a property, through s.rec.
MayStore(s, o, v) ==
  /\ s.proc = Top.proc
  /\ Compatible(o.type, Ground(s.rec))
  /\ Compatible(v.type, PropertyType(Ground(s.rec), s.decl, s.prop))

Store(s, o, v) ==
  /\ status = "running" /\ MayStore(s, o, v)
  /\ status' \in Outcomes(StoreAnswer(s, o, v))
  /\ UNCHANGED <<defined, frames, objects>>

\* A store of the object v into an array of static element type s.elem. There
\* is no guard for array<any>, and none for elements with a code up to 10.
PutAnswer(s, o, v) ==
  IF (Bare(s.elem) \/ s.elem.t >= ARRAY) /\ SigOf(o).subs[1].t > RECORD
  THEN Match(Regs, SigOf(v), SigOf(o).subs[1]) ELSE "yes"

PutCovered(s, o) == s.elem.t # ANY /\ o.type.subs[1].t > RECORD

MayPut(s, o, v) ==
  /\ s.proc = Top.proc
  /\ o.type.t = ARRAY /\ Compatible(o.type.subs[1], Ground(s.elem))
  /\ Compatible(v.type, Ground(s.elem))

Put(s, o, v) ==
  /\ status = "running" /\ MayPut(s, o, v)
  /\ status' \in Outcomes(PutAnswer(s, o, v))
  /\ UNCHANGED <<defined, frames, objects>>

Next ==
  \/ \E n \in News : New(n)
  \/ \E c \in Calls : Call(c)
  \/ Return
  \/ \E x \in Tests, i \in DOMAIN objects : Test(x, objects[i])
  \/ \E s \in Stores, i, j \in DOMAIN objects : Store(s, objects[i], objects[j])
  \/ \E s \in Puts, i, j \in DOMAIN objects : Put(s, objects[i], objects[j])

Spec == Init /\ [][Next]_vars

---------------------------------------------------------------------------
(* Properties.                                                             *)

\* Matching an object of ground type ty with as reads type_table in front of its
\* start: a type that is no record is compared with a different one, and the
\* type arguments before it have matched. Nothing can be said of the answer.
RECURSIVE InFront(_, _)
InFront(ty, as) ==
  /\ as.t # ANY
  /\ IF ty.t = as.t
     THEN \E i \in DOMAIN as.subs :
            /\ InFront(ty.subs[i], as.subs[i])
            /\ \A j \in 1 .. i - 1 : Compatible(ty.subs[j], as.subs[j])
     ELSE \/ ty.t < RECORD
          \/ Declaration(ty.t).base # NoBase /\ InFront(BaseType(ty), as)

\* The answer of a check that does not read there: never left to chance.
Right(answer, ty, as) ==
  ~InFront(ty, as) => answer = IF Compatible(ty, as) THEN "yes" ELSE "no"

\* In every frame, also the suspended ones, each type argument register leads
\* to the signature of the type the caller passed, with no parameter left in
\* it, and every object carries the signature of the type it was created with,
\* also after the generic procedure that made it has returned. The pushes of
\* SET and the pops of POP_ATOM_TYPESIGS (compiler.c:514-537, emit.c:163-181)
\* stay in step over nested and recursive calls, and each signature is resolved
\* against the registers of the right frame, by calls and by CONFIG_TYPESIG.
Denoted ==
  /\ \A f \in Range(frames) : \A i \in DOMAIN f.targs :
       LET index == f.regs[TypeargReg(f.proc, i - 1)]
       IN  index <= Len(defined) /\ defined[index] = Compiled(NoProc, f.targs[i])
  /\ \A o \in Range(objects) : SigOf(o) = Compiled(NoProc, o.type)

\* Wherever the program stands, "is" and dynamic_cast (stdheader.c:413-485) say
\* yes of an object exactly if it may be used as the type named, through any
\* number of base records and covariant type arguments, in code made generic
\* any number of times, and no of every other. It holds for the tests TestCovered
\* describes, but for those that read in front of type_table (InFront).
TestsRight ==
  \A x \in Tests, o \in Range(objects) :
    MayTest(x, o) /\ TestCovered(x) =>
      Right(TestAnswer(x, o), o.type, Ground(x.match))

\* A guard lets a store pass exactly if the object's own type, not the one the
\* program sees it through, admits the value: a covariant alias cannot put a
\* value into an object whose other users do not expect it. It holds for the
\* stores Reaches and PutCovered describe, again but for InFront.
GuardsRight ==
  \A o, v \in Range(objects) :
    /\ \A s \in Stores :
         MayStore(s, o, v) /\ Reaches(s, o) =>
           Right(StoreAnswer(s, o, v), v.type, PropertyType(o.type, s.decl, s.prop))
    /\ \A s \in Puts :
         MayPut(s, o, v) /\ PutCovered(s, o) =>
           Right(PutAnswer(s, o, v), v.type, o.type.subs[1])
=============================================================================
