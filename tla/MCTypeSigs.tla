----------------------------- MODULE MCTypeSigs -----------------------------
(* A program for TypeSigs: a base record and a derived one, a covariant box, *)
(* a box derived under another argument, a record around a box, and two      *)
(* generic procedures that call each other and themselves.                   *)
EXTENDS TypeSigs

Ty(t, subs) == [t |-> t, id |-> 0, subs |-> subs]
T == [t |-> TYPEARG, id |-> 0, subs |-> <<>>]
U == [t |-> TYPEARG, id |-> 1, subs |-> <<>>]
AnyTy == Ty(ANY, <<>>)
IntTy == Ty(6, <<>>)
FloatTy == Ty(7, <<>>)
Array(e) == Ty(ARRAY, <<e>>)
Animal == Ty(10, <<>>)
Dog == Ty(11, <<>>)
Box(e) == Ty(12, <<e>>)
Crate(e) == Ty(13, <<e>>)
Holder(e) == Ty(14, <<e>>)
Shelf(e) == Ty(15, <<e>>)

\* box was declared before it was defined, so that crate counts as its child.
MCRecords == <<
  [base |-> NoBase, counted |-> FALSE, props |-> <<>>],
  [base |-> Animal, counted |-> FALSE, props |-> <<>>],
  [base |-> NoBase, counted |-> TRUE, props |-> <<T>>],
  [base |-> Box(Box(T)), counted |-> FALSE, props |-> <<>>],
  [base |-> NoBase, counted |-> FALSE, props |-> <<Box(T)>>],
  [base |-> Holder(Dog), counted |-> FALSE, props |-> <<T>>]>>

MCProcs == [f |-> 1, g |-> 0]

New_(p, ty) == [proc |-> p, type |-> ty]
MCNews ==
  {New_(NoProc, ty) : ty \in {Dog, Animal, Box(Dog), Crate(Dog), Shelf(Dog), Array(Dog), Array(IntTy)}}
    \cup {New_("f", Box(T)), New_("f", Crate(T)), New_("f", Holder(T))}
    \cup {New_("g", Box(U)), New_("g", Array(T))}

Is(p, op, ty) == [proc |-> p, operand |-> op, match |-> ty, cast |-> FALSE]
Cast(p, op, ty) == [proc |-> p, operand |-> op, match |-> ty, cast |-> TRUE]
MCTests ==
  {Is(NoProc, AnyTy, ty) : ty \in {Box(AnyTy), Box(Box(Animal)), Holder(Animal), Array(FloatTy)}}
    \cup {Cast(NoProc, Animal, Dog), Cast("f", Box(AnyTy), T)}
    \cup {Is("f", T, Dog), Is("f", Box(T), Crate(T)), Is("f", AnyTy, Box(Box(T)))}
    \cup {Is("g", T, U), Is("g", AnyTy, T), Is("g", AnyTy, Holder(U))}

MCStores ==
  {[proc |-> NoProc, rec |-> Box(Animal), decl |-> 12, prop |-> 1],
   [proc |-> NoProc, rec |-> Box(AnyTy), decl |-> 12, prop |-> 1],
   [proc |-> NoProc, rec |-> Holder(Animal), decl |-> 14, prop |-> 1],
   [proc |-> NoProc, rec |-> Shelf(Animal), decl |-> 15, prop |-> 1],
   [proc |-> "f", rec |-> Crate(T), decl |-> 12, prop |-> 1],
   [proc |-> "g", rec |-> Holder(U), decl |-> 14, prop |-> 1]}

MCPuts == {[proc |-> NoProc, elem |-> Animal], [proc |-> NoProc, elem |-> AnyTy],
           [proc |-> "g", elem |-> T]}

Call_(p, q, args, open) == [from |-> p, to |-> q, args |-> args, open |-> open]
MCCalls ==
  {Call_(NoProc, "f", <<ty>>, FALSE) : ty \in {Dog, AnyTy}}
    \cup {Call_(NoProc, "g", <<Animal, Dog>>, FALSE)}
    \cup {Call_("f", "f", <<Box(T)>>, TRUE), Call_("f", "g", <<Array(T), Dog>>, FALSE),
           Call_("f", "g", <<T, Box(T)>>, TRUE), Call_("f", "g", <<Crate(T), Array(T)>>, TRUE),
           Call_("g", "g", <<U, T>>, FALSE), Call_("g", "f", <<Dog>>, FALSE)}

\* The signatures in the order the compiler would define them.
At(p, types) == [i \in DOMAIN types |-> [proc |-> p, type |-> types[i]]]
MCSites ==
  At(NoProc, <<Animal, Box(Box(T)), Holder(Dog), T, Box(T), Dog, Box(Dog), Crate(Dog), Shelf(Dog),
               Array(Dog), Array(IntTy), Box(AnyTy), Box(Box(Animal)), Holder(Animal),
               Array(FloatTy), Box(Animal), AnyTy>>)
    \o At("f", <<Box(T), Crate(T), Holder(T), Box(Box(T)), Array(T), Dog>>)
    \o At("g", <<Box(U), Array(T), Holder(U), Dog>>)
=============================================================================
