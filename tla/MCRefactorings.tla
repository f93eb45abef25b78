---------------------------- MODULE MCRefactorings ----------------------------
(* Every extraction from functions of two variables, and changers on twelve *)
(* definitions.                                                             *)
EXTENDS Refactorings

CONSTANTS x, y

MCVars == {x, y}
MCParamSets == {{y}, {x, y}}

MCNames == {"a", "b", "c", "d"}

Def(args, star, kw) == [args |-> args, star |-> star, kw |-> kw]
P(name, default) == [name |-> name, default |-> default]
Some(name) == <<"default", name>>

\* Two parameters, or three of which the last ones have defaults; with and
\* without *args and **kw.
MCDefinitions ==
  {Def(<<P("a", NoValue), P("b", d1), P("c", Some("c"))>>, star, kw) :
     d1 \in {NoValue, Some("b")}, star, kw \in BOOLEAN}
  \cup {Def(<<P("a", NoValue), P("b", NoValue)>>, star, kw) : star, kw \in BOOLEAN}
=============================================================================
