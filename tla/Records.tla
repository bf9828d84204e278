------------------------------ MODULE Records ------------------------------
(***************************************************************************)
(* The record declarations of a program, as the parser takes them in: a    *)
(* name may be mentioned before it is declared, a record may extend one    *)
(* that is not yet there, a body declares properties and gives new         *)
(* defaults to inherited ones, and a "new" expression puts together the    *)
(* values a record starts with. The numbers of the properties are relative *)
(* to their record until it is linked, on its first creation or at the     *)
(* end. A property is referred to as <<record, index>>; its type is left   *)
(* to Generics, which extends this module.                                 *)
(***************************************************************************)
EXTENDS Integers, SequencesExt

CONSTANTS
  Names,      \* the names of records
  PropNames,  \* the names of properties
  None,       \* no record
  PROP_MAX,   \* how many properties one record may declare (255)
  Families    \* kinds of programs, by what they may contain: [records, uses, props, items, mentions, ...]

ASSUME NoneAssumption == None \notin Names

VARIABLES
  family,     \* the kind this program is of
  state,      \* "unknown", "mentioned" (a prototype), "open" (its body is read), "defined"
  base, use,  \* base_record, use_reqs
  children,   \* child_record_count
  props,      \* properties: [name, id, defer]
  defaults,   \* default_values: the properties they are for
  offset,     \* index_offset
  linked,     \* the records that are linked
  created,    \* what the "new" just parsed put together
  phase       \* "parsing", "rejected" (a panic), "done"

vars == <<family, state, base, use, children, props, defaults, offset, linked, created, phase>>
bodies == <<props, defaults>>
layout == <<offset, linked>>

Uses == {"all", "final", "abstract"}
NoProp == <<None, 0>>
Nothing == [of |-> None, braces |-> FALSE, inits |-> <<>>]

Parsing == phase = "parsing"
Begun == {n \in Names : state[n] \in {"open", "defined"}}
Open == {n \in Names : state[n] = "open"}

\* n and the records above it: what every set closed under base that holds n holds.
Ancestors(n) ==
  {a \in Names : \A S \in SUBSET Names :
     (n \in S /\ \A m \in S : base[m] # None => base[m] \in S) => a \in S}

\* The same in order, the record itself first.
Chain(n) ==
  LET up[m \in Names] == IF base[m] = None THEN <<m>> ELSE <<m>> \o up[base[m]]
  IN  up[n]

FindProp(n, p) ==
  LET find[m \in Names] ==
        LET own == {i \in DOMAIN props[m] : props[m][i].name = p}
        IN  IF state[m] # "defined" THEN NoProp
            ELSE IF own # {} THEN <<m, CHOOSE i \in own : \A j \in own : i <= j>>
            ELSE IF base[m] = None THEN NoProp
            ELSE find[base[m]]
  IN  find[n]

Init ==
  /\ family \in Families
  /\ state = [n \in Names |-> "unknown"]
  /\ base = [n \in Names |-> None]
  /\ use = [n \in Names |-> "all"]
  /\ children = [n \in Names |-> 0]
  /\ props = [n \in Names |-> <<>>]
  /\ defaults = [n \in Names |-> <<>>]
  /\ offset = [n \in Names |-> 0]
  /\ linked = {}
  /\ created = Nothing
  /\ phase = "parsing"

Reject ==
  /\ phase' = "rejected" /\ created' = Nothing
  /\ UNCHANGED <<family, state, base, use, children, bodies, layout>>

---------------------------------------------------------------------------
(* Declarations.                                                           *)

Mentioned(st, b) == IF b # None /\ st[b] = "unknown" THEN [st EXCEPT ![b] = "mentioned"] ELSE st

Mention(n) ==
  /\ Parsing /\ state[n] = "unknown"
  /\ state' = Mentioned(state, n)
  /\ created' = Nothing
  /\ UNCHANGED <<family, base, use, children, bodies, layout, phase>>

\* The loop that looks for the record among those above its base.
Circular(n, b) == n \in Ancestors(b)

\* Mutant of MayBegin: nobody asks whether the record was extended before.
MayBeginLate(n, u, b) ==
  /\ state[n] \in {"unknown", "mentioned"}
  /\ b # None => ~Circular(n, b) /\ (state[b] = "defined" => use[b] # "final")

MayBegin(n, u, b) ==
  /\ state[n] \in {"unknown", "mentioned"}
  /\ u = "final" => children[n] = 0
  /\ b # None => ~Circular(n, b) /\ (state[b] = "defined" => use[b] # "final")

Begin(n, u, b) ==
  /\ Parsing /\ Open = {}
  /\ MayBegin(n, u, b)
  /\ state' = [Mentioned(state, b) EXCEPT ![n] = "open"]
  /\ base' = [base EXCEPT ![n] = b]
  /\ use' = [use EXCEPT ![n] = u]
  /\ children' = IF b # None /\ state[b] # "defined" THEN [children EXCEPT ![b] = @ + 1] ELSE children
  /\ created' = Nothing
  /\ UNCHANGED <<family, bodies, layout, phase>>

RejectBegin ==
  /\ Parsing /\ Open = {}
  /\ ~\A n \in Names, u \in Uses, b \in Names \cup {None} : MayBegin(n, u, b)
  /\ Reject

\* "deferinit ty p = value;" in the body of n.
DeclProp(n, p, defer, value) ==
  /\ Parsing /\ n \in Open
  /\ FindProp(n, p) = NoProp /\ Len(props[n]) < PROP_MAX
  /\ props' = [props EXCEPT ![n] = Append(@, [name |-> p, id |-> Len(@), defer |-> defer])]
  /\ defaults' = IF value THEN [defaults EXCEPT ![n] = Append(@, <<n, Len(props[n]) + 1>>)] ELSE defaults
  /\ created' = Nothing
  /\ UNCHANGED <<family, state, base, use, children, layout, phase>>

Inherited(n, p) == IF base[n] = None THEN NoProp ELSE FindProp(base[n], p)

\* "p = value;" in the body of n, for a property it inherits.
Override(n, p) ==
  /\ Parsing /\ n \in Open
  /\ Inherited(n, p) # NoProp
  /\ defaults' = [defaults EXCEPT ![n] = Append(@, Inherited(n, p))]
  /\ created' = Nothing
  /\ UNCHANGED <<family, state, base, use, children, props, layout, phase>>

\* One property too many, or a new default for what is not (yet) inherited.
RejectItem ==
  /\ Parsing
  /\ ~\A n \in Open : Len(props[n]) < PROP_MAX /\ \A p \in PropNames : Inherited(n, p) # NoProp
  /\ Reject

End(n) ==
  /\ Parsing /\ n \in Open
  /\ state' = [state EXCEPT ![n] = "defined"]
  /\ created' = Nothing
  /\ UNCHANGED <<family, base, use, children, bodies, layout, phase>>

---------------------------------------------------------------------------
(* Linking and creation.                                                   *)

\* Mutant of LinkedOffset: the base record's own properties are forgotten.
LinkedOffsetShort(n) ==
  LET at[m \in Names] ==
        IF m \in linked THEN offset[m]
        ELSE IF base[m] = None THEN 0
        ELSE at[base[m]]
  IN  at[n]

LinkedOffset(n) ==
  LET at[m \in Names] ==
        IF m \in linked THEN offset[m]
        ELSE IF base[m] = None THEN 0
        ELSE at[base[m]] + Len(props[base[m]])
  IN  at[n]

Linkable(n) == \A m \in Ancestors(n) \ linked : state[m] = "defined"

Link(ns) ==
  LET new == (UNION {Ancestors(n) : n \in ns}) \ linked
  IN  /\ offset' = [m \in Names |-> IF m \in new THEN LinkedOffset(m) ELSE offset[m]]
      /\ props' = [m \in Names |-> IF m \in new
                     THEN [i \in DOMAIN props[m] |-> [props[m][i] EXCEPT !.id = @ + LinkedOffset(m)]]
                     ELSE props[m]]
      /\ linked' = linked \cup new

\* The entry of overriden_defaults a property sets, once it is linked.
Slot(r) == IF r[1] \in linked THEN props[r[1]][r[2]].id ELSE props[r[1]][r[2]].id + LinkedOffset(r[1])

Filled(inits, r) == \E i \in DOMAIN inits : Slot(inits[i].prop) = Slot(r)

\* The values given by name, then the defaults of each record from n upward that
\* nothing has been found for; short once a property is left without one.
Given(n, ps) == [i \in DOMAIN ps |-> [prop |-> FindProp(n, ps[i]), by |-> None]]

\* Mutant of TakeDefaults: a default is taken whether there is a value or not.
TakeDefaultsAll(inits, m) == inits \o [i \in DOMAIN defaults[m] |-> [prop |-> defaults[m][i], by |-> m]]

TakeDefaults(inits, m) ==
  LET taken[i \in 0..Len(defaults[m])] ==
        IF i = 0 THEN inits
        ELSE IF Filled(taken[i - 1], defaults[m][i]) THEN taken[i - 1]
        ELSE Append(taken[i - 1], [prop |-> defaults[m][i], by |-> m])
  IN  taken[Len(defaults[m])]

Complete(inits, m) ==
  \A i \in DOMAIN props[m] : props[m][i].defer \/ Filled(inits, <<m, i>>)

Assembled(n, ps) ==
  LET chain == Chain(n)
      upTo[k \in 0..Len(chain)] ==
        IF k = 0 THEN [inits |-> Given(n, ps), whole |-> TRUE]
        ELSE LET inits == TakeDefaults(upTo[k - 1].inits, chain[k])
             IN  [inits |-> inits, whole |-> upTo[k - 1].whole /\ Complete(inits, chain[k])]
  IN  upTo[Len(chain)]

\* "new n" or, with braces, "new n { p = value; ... }".
MayCreate(n, ps, braces) ==
  /\ state[n] = "defined" /\ Linkable(n)
  /\ braces => use[n] # "abstract"
  /\ \A i \in DOMAIN ps : FindProp(n, ps[i]) # NoProp
  /\ Assembled(n, ps).whole

Create(n, ps, braces) ==
  /\ Parsing /\ MayCreate(n, ps, braces)
  /\ Link({n})
  /\ created' = [of |-> n, braces |-> braces, inits |-> Assembled(n, ps).inits]
  /\ UNCHANGED <<family, state, base, use, children, defaults, phase>>

\* What may stand between the braces: up to two values.
InitLists == {<<p>> : p \in family.props} \cup {<<p, q>> : p, q \in family.props}

RejectCreate ==
  /\ Parsing
  /\ ~\A n \in Names : MayCreate(n, <<>>, FALSE) /\ \A ps \in InitLists : MayCreate(n, ps, TRUE)
  /\ Reject

\* ast_postproc: every mentioned record must be there; all are linked.
Mentions == {n \in Names : state[n] # "unknown"}

Finish ==
  /\ Parsing /\ Open = {} /\ \A n \in Mentions : state[n] = "defined"
  /\ Link(Mentions)
  /\ phase' = "done" /\ created' = Nothing
  /\ UNCHANGED <<family, state, base, use, children, defaults>>

RejectFinish ==
  /\ Parsing /\ Open = {}
  /\ ~\A n \in Mentions : state[n] = "defined"
  /\ Reject

---------------------------------------------------------------------------
Items == FoldFunctionOnSet(LAMBDA s, t : s + t, 0, [n \in Names |-> Len(props[n]) + Len(defaults[n])], Names)

\* What goes on within declared records, and between the declarations.
Within ==
  \/ \E n \in Names, p \in family.props :
       /\ Items < family.items
       /\ Override(n, p) \/ \E defer, value \in BOOLEAN : DeclProp(n, p, defer, value)
  \/ \E n \in Names : End(n)
  \/ /\ family.props # {}
     /\ \E n \in Names : Create(n, <<>>, FALSE) \/ \E ps \in InitLists : Create(n, ps, TRUE)
  \/ Finish
  \/ RejectBegin \/ RejectItem \/ RejectCreate \/ RejectFinish

Next ==
  \/ \E n \in Names : Mention(n)
  \/ \E n \in Names, u \in Uses, b \in Names \cup {None} : Begin(n, u, b)
  \/ Within

Spec == Init /\ [][Next]_vars

---------------------------------------------------------------------------
(* What must hold.                                                         *)

TypeOK ==
  /\ state \in [Names -> {"unknown", "mentioned", "open", "defined"}]
  /\ base \in [Names -> Names \cup {None}]
  /\ use \in [Names -> Uses]
  /\ children \in [Names -> Nat]
  /\ linked \subseteq Names
  /\ phase \in {"parsing", "rejected", "done"}

\* All the properties an object of record n has.
PropsOf(n) == UNION {{<<m, i>> : i \in DOMAIN props[m]} : m \in Ancestors(n)}

\* Layout: the properties of a linked record, its own and all it inherits, fill the
\* slots of the object from 0 on, one each, and those of the record it extends come first,
\* whatever order the records were declared, created and linked in
\* (ast_postproc_link_record).
Layout ==
  \A n \in linked :
    LET slot == [r \in PropsOf(n) |-> props[r[1]][r[2]].id]
    IN  /\ {slot[r] : r \in PropsOf(n)} = 0..Cardinality(PropsOf(n)) - 1
        /\ base[n] # None => base[n] \in linked

\* The value an object starts with in property r: the last one stored there.
StartsWith(inits, r) ==
  LET at == {i \in DOMAIN inits : inits[i].prop = r}
  IN  inits[CHOOSE i \in at : \A j \in at : j <= i].by

\* The places in the chain of n of the records that have a default for r.
From(n, r) == {k \in DOMAIN Chain(n) : r \in Range(defaults[Chain(n)[k]])}

\* What holds of the values an object of record n starts with.
ValuesOf(n, inits) ==
  LET given == {inits[i].prop : i \in {j \in DOMAIN inits : inits[j].by = None}}
  IN  \A r \in PropsOf(n) :
        /\ props[r[1]][r[2]].defer \/ \E i \in DOMAIN inits : inits[i].prop = r
        /\ r \in given => StartsWith(inits, r) = None
        /\ r \notin given /\ From(n, r) # {} =>
             /\ \E i \in DOMAIN inits : inits[i].prop = r
             /\ StartsWith(inits, r) = Chain(n)[Min(From(n, r))]

\* CreatedWhole: a new object has a value for every property that is not deferinit, its
\* own and all it inherits, also those hidden behind a property of the same name; a
\* value between the braces comes before any default, and a default of the record
\* itself before one of a record further up (the "new" case of parse_value).
CreatedWhole == \A n \in Names : created.of = n => ValuesOf(n, created.inits)

Inherits == INSTANCE Inheritance WITH
  parent <- [n \in Begun |-> base[n]],
  sealed <- {n \in Begun : use[n] = "final"}

\* ImplementsInheritance: whatever is mentioned, extended and declared in whatever order,
\* the records form a forest in which no final record has a child (parse_statment's
\* circularity loop, child_record_count and use_reqs).
ImplementsInheritance == Inherits!Spec
=============================================================================
