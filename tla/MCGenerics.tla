----------------------------- MODULE MCGenerics -----------------------------
(* Instances of Generics: programs about inheritance, about the layout of    *)
(* objects, and about the requirements on type arguments.                    *)
EXTENDS Generics

\* A climb from a jar to its box keeps the argument, one from a crate does not.
MCPrelude == [x \in {"animal", "dog", "cat", "box", "jar", "crate"} |->
  CASE x \in {"dog", "cat"} -> Ty("animal", <<>>)
    [] x = "jar" -> Ty("box", <<Param>>)
    [] x = "crate" -> Ty("box", <<Ty("box", <<Param>>)>>)
    [] OTHER -> NoType]

Animal == Ty("animal", <<>>)
Dog == Ty("dog", <<>>)
Cat == Ty("cat", <<>>)
MCArguments == {Dog, Ty("box", <<Dog>>), Ty("jar", <<Cat>>), Ty("crate", <<Cat>>)}
MCBounds == {AnyType, Animal, Ty("box", <<Animal>>)}

Plain == [records |-> 3, uses |-> {"all"}, props |-> {}, items |-> 0, asked |-> 0, generic |-> FALSE]
MCFamilies ==
  {[Plain EXCEPT !.uses = Uses, !.asked = 2],
   [Plain EXCEPT !.props = {"p"}, !.items = 3],
   [Plain EXCEPT !.records = 2, !.uses = {"all", "abstract"}, !.props = {"p", "q"}, !.items = 3],
   [Plain EXCEPT !.records = 2, !.generic = TRUE, !.asked = 2]}

Symmetry == Permutations(Names)
=============================================================================
