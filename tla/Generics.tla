------------------------------ MODULE Generics ------------------------------
(***************************************************************************)
(* Generic records, on top of Records. A record with type parameters may   *)
(* be used before it is declared: the parser then gathers what its         *)
(* arguments have in common as a provisional requirement, and holds the    *)
(* declaration to it when it comes. From then on every argument is held    *)
(* to the declared requirement.                                            *)
(*                                                                         *)
(* A type is [t, id, subs] as in TypeSigs; t may be "any", "int",          *)
(* "typearg", a record of the prelude, or one of Names.                    *)
(***************************************************************************)
EXTENDS Records

CONSTANTS
  Prelude,   \* records declared beforehand: name -> the type it extends, or NoType
  Arguments, \* the types without parameters that programs use as arguments
  Bounds     \* the requirements that programs declare

VARIABLES
  req,       \* generic_req_types, of length generic_arguments
  typed,     \* the records with typeargs_defined
  baseArgs,  \* the arguments in base_record
  asked,     \* history: every use of a generic record, [of, args, scope, loose]
  shifted    \* history: the records whose requirement comes from a shifted climb

gvars == <<req, typed, baseArgs, asked, shifted>>

Ty(t, subs) == [t |-> t, id |-> 0, subs |-> subs]
AnyType == Ty("any", <<>>)
Param == Ty("typearg", <<>>)
NoType == Ty("none", <<>>)

RECURSIVE HasParam(_)
HasParam(ty) == ty.t = "typearg" \/ \E i \in DOMAIN ty.subs : HasParam(ty.subs[i])

RECURSIVE Substitute(_, _)
Substitute(args, ty) ==
  IF ty.t = "typearg" THEN args[ty.id + 1]
  ELSE [ty EXCEPT !.subs = [i \in DOMAIN @ |-> Substitute(args, @[i])]]

IsRecord(ty) == ty.t \in Names \cup DOMAIN Prelude
Kind(ty) == IF IsRecord(ty) THEN "record" ELSE ty.t

\* The type a record type extends, its arguments filled in.
BaseOf(ty) ==
  LET of == IF ty.t \in DOMAIN Prelude THEN Prelude[ty.t]
            ELSE IF base[ty.t] = None THEN NoType
            ELSE Ty(base[ty.t], baseArgs[ty.t])
  IN  Substitute(ty.subs, of)

\* A parameter stands for its requirement, if it has one, in the frame the parser is in,
\* wherever it was written; NoType (the null pointer) if that frame has no such parameter.
Devolve(bounds, ty) ==
  IF ty.t # "typearg" THEN ty
  ELSE IF ty.id >= Len(bounds) THEN NoType
  ELSE IF bounds[ty.id + 1] = AnyType THEN ty ELSE bounds[ty.id + 1]

RECURSIVE Compatible(_, _, _)
Compatible(bounds, ty, as) ==
  IF as.t = "any" THEN TRUE
  ELSE IF ty.t = as.t
  THEN \A i \in DOMAIN as.subs : Compatible(bounds, ty.subs[i], as.subs[i])
  ELSE IF ty.t = "typearg"
  THEN Devolve(bounds, ty) # ty /\ Compatible(bounds, Devolve(bounds, ty), as)
  ELSE IsRecord(ty) /\ IsRecord(as) /\ BaseOf(ty) # NoType /\ Compatible(bounds, BaseOf(ty), as)

\* A record type and the ones above it, in order.
RECURSIVE Climb(_)
Climb(ty) == IF ty = NoType THEN <<>> ELSE <<ty>> \o Climb(BaseOf(ty))

\* Of the record types from a upward, the first that is also above b, and b as that one.
Meeting(a, b) ==
  LET up == Climb(a)
      down == Climb(b)
      meets == {i \in DOMAIN up : \E j \in DOMAIN down : down[j].t = up[i].t}
  IN  IF meets = {} THEN <<>>
      ELSE <<up[Min(meets)], down[CHOOSE j \in DOMAIN down : down[j].t = up[Min(meets)].t]>>

\* typecheck_lowest_common_type: the arguments of the record two types share are
\* found from the arguments they had before the climb. NoType is where it would follow
\* a null pointer: a parameter this frame has not, an argument one of them has not.
RECURSIVE LowestCommon(_, _, _)
LowestCommon(bounds, a, b) ==
  LET up == Devolve(bounds, a)
      down == Devolve(bounds, b)
      meeting == Meeting(a, b)
      Common(ty) == [ty EXCEPT !.subs = [i \in DOMAIN @ |->
                       IF i \in DOMAIN a.subs \cap DOMAIN b.subs
                       THEN LowestCommon(bounds, a.subs[i], b.subs[i]) ELSE NoType]]
  IN  IF Kind(a) # Kind(b)
      THEN IF NoType \in {up, down} THEN NoType
           ELSE IF Kind(up) = Kind(down) THEN LowestCommon(bounds, up, down) ELSE AnyType
      ELSE IF a.t = b.t THEN Common(a)
      ELSE IF meeting = <<>> THEN AnyType ELSE Common(meeting[1])

\* Whether that goes over a record at which one of the two has other arguments than below.
RECURSIVE Shifts(_, _, _)
Shifts(bounds, a, b) ==
  IF Kind(a) # Kind(b)
  THEN LET up == Devolve(bounds, a)
           down == Devolve(bounds, b)
       IN  Kind(up) = Kind(down) /\ Shifts(bounds, up, down)
  ELSE \/ /\ a.t # b.t /\ Meeting(a, b) # <<>>
          /\ Meeting(a, b)[1].subs # a.subs \/ Meeting(a, b)[2].subs # b.subs
       \/ \E i \in DOMAIN a.subs \cap DOMAIN b.subs : Shifts(bounds, a.subs[i], b.subs[i])

RECURSIVE Broken(_)
Broken(ty) == ty = NoType \/ \E i \in DOMAIN ty.subs : Broken(ty.subs[i])

---------------------------------------------------------------------------
(* The parser.                                                             *)

\* The frame a type is read in: the body of a record, or the top level.
Scope == IF Open = {} THEN None ELSE CHOOSE n \in Open : TRUE
BoundsOf(scope) == IF scope = None THEN <<>> ELSE req[scope]

Required(n, args, bounds) ==
  IF state[n] = "unknown" THEN args
  ELSE IF n \in typed THEN req[n]
  ELSE [i \in DOMAIN args |-> LowestCommon(bounds, args[i], req[n][i])]

MayUse(n, args, bounds) ==
  \/ state[n] = "unknown"
  \/ /\ Len(args) = Len(req[n])
     /\ IF n \in typed THEN \A i \in DOMAIN args : Compatible(bounds, args[i], req[n][i])
        ELSE \A i \in DOMAIN args : ~Broken(Required(n, args, bounds)[i])

\* A use is loose when a parameter is left in the requirement it is gathered into.
Use(n, args, scope, bounds) ==
  /\ asked' = IF args = <<>> THEN asked
              ELSE asked \cup {[of |-> n, args |-> args, scope |-> scope,
                                loose |-> \E i \in DOMAIN args : HasParam(Required(n, args, bounds)[i])]}
  /\ shifted' = IF state[n] # "unknown" /\ n \notin typed
                   /\ \E i \in DOMAIN args : Shifts(bounds, args[i], req[n][i])
                THEN shifted \cup {n} ELSE shifted

\* A type n<args> somewhere in the program.
MentionType(n, args) ==
  /\ Parsing
  /\ MayUse(n, args, BoundsOf(Scope))
  /\ IF state[n] = "unknown" THEN Mention(n) ELSE UNCHANGED vars
  /\ req' = [req EXCEPT ![n] = Required(n, args, BoundsOf(Scope))]
  /\ Use(n, args, Scope, BoundsOf(Scope))
  /\ UNCHANGED <<typed, baseArgs>>

\* The arguments a program may write: types, or within a record its parameter.
ArgLists(bounds) ==
  {<<>>} \cup IF ~family.generic THEN {}
             ELSE {<<arg>> : arg \in Arguments} \cup IF bounds = <<>> THEN {} ELSE {<<Param>>}
BoundLists == {<<>>} \cup IF family.generic THEN {<<bound>> : bound \in Bounds} ELSE {}

\* A panic, or the end of the process where LowestCommon is Broken.
RejectType ==
  /\ Parsing
  /\ ~\A n \in Names, args \in ArgLists(BoundsOf(Scope)) : MayUse(n, args, BoundsOf(Scope))
  /\ Reject /\ UNCHANGED gvars

\* Mutant of MayDeclare: the declaration replaces what was gathered.
MayDeclareAny(n, bounds) == state[n] # "unknown" => Len(bounds) = Len(req[n])

\* "record n<T extends bound>": the requirement must admit all that was used before. A
\* parameter left from another record is taken for this declaration's own.
MayDeclare(n, bounds) ==
  state[n] # "unknown" =>
    /\ Len(bounds) = Len(req[n])
    /\ \A i \in DOMAIN bounds : Compatible(bounds, req[n][i], bounds[i])

BeginGeneric(n, u, bounds, b, args) ==
  /\ MayDeclare(n, bounds)
  /\ b # None => MayUse(b, args, bounds)
  /\ Begin(n, u, b)
  /\ req' = [m \in Names |-> IF m = n THEN bounds
                             ELSE IF m = b THEN Required(b, args, bounds) ELSE req[m]]
  /\ typed' = typed \cup {n}
  /\ baseArgs' = [baseArgs EXCEPT ![n] = args]
  /\ IF b = None THEN UNCHANGED <<asked, shifted>> ELSE Use(b, args, n, bounds)

RejectGeneric ==
  /\ Parsing /\ Open = {}
  /\ ~\A n \in Names \ typed, bound \in Bounds : MayDeclare(n, <<bound>>)
  /\ Reject /\ UNCHANGED gvars

GInit == Init /\ req = [n \in Names |-> <<>>] /\ typed = {}
              /\ baseArgs = [n \in Names |-> <<>>] /\ asked = {} /\ shifted = {}

GNext ==
  \/ /\ Cardinality(asked) < family.asked
     /\ \E n \in Names : \E args \in ArgLists(BoundsOf(Scope)) :
          (state[n] = "unknown" => Cardinality(Mentions) < family.records) /\ MentionType(n, args)
  \/ /\ Cardinality(Begun) < family.records
     /\ \E n \in Names, u \in family.uses, b \in Names \cup {None}, bounds \in BoundLists :
        \E args \in IF b = None THEN {<<>>} ELSE ArgLists(bounds) : BeginGeneric(n, u, bounds, b, args)
  \/ Within /\ UNCHANGED gvars
  \/ RejectType \/ RejectGeneric

GSpec == GInit /\ [][GNext]_<<vars, gvars>>

---------------------------------------------------------------------------
(* What must hold.                                                         *)

\* A use within a record stands for one with every argument that record admits.
Instances(ask) ==
  IF ask.scope = None \/ ~\E i \in DOMAIN ask.args : HasParam(ask.args[i]) THEN {ask.args}
  ELSE {[i \in DOMAIN ask.args |-> Substitute(<<arg>>, ask.args[i])] :
          arg \in {a \in Arguments : Compatible(<<>>, a, req[ask.scope][1])}}

\* RequirementsMet: however uses and declarations are ordered, each argument a record is
\* used with, and each that a use inside another record can come to stand for, meets the
\* requirement the record declares (parse_type, typecheck_lowest_common_type), but for
\* uses that left a parameter in a provisional requirement (loose) and for records whose
\* provisional requirement was found over a climb that changes the arguments (shifted).
RequirementsMet ==
  \A ask \in asked : ask.of \in typed \ shifted /\ ~ask.loose =>
    \A args \in Instances(ask) :
      /\ Len(args) = Len(req[ask.of])
      /\ \A i \in DOMAIN args : Compatible(<<>>, args[i], req[ask.of][i])
=============================================================================
