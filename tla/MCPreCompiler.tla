---------------------------- MODULE MCPreCompiler ----------------------------
(* The statements the bounded programs are made of.                        *)
EXTENDS PreCompiler

MCNames == {"x", "y"}

Of(kind, names, autos, uses) ==
  [kind : {kind}, name : names, auto : autos, uses : uses, hidden : {{}}]

NoUse  == {{}}
OneUse == {{}, {"x"}, {"y"}}
Some   == {{"x"}, {"y"}}

\* Declarations, uses and every statement around them.
LifetimeShapes ==
       Of("decl", {"x"}, BOOLEAN, NoUse) \cup Of("decl", {"y"}, {TRUE}, {{}, {"x"}})
  \cup Of("unused", {"x"}, {FALSE}, NoUse)
  \cup Of("expr", {"x"}, {FALSE}, Some)
  \cup Of("block", {"x"}, {FALSE}, NoUse)
  \cup Of("while", {"x"}, {FALSE}, {{"x"}})
  \cup Of("func", {"x"}, {FALSE}, NoUse)

\* Names declared again, in the same block and in nested ones, and aliases.
RedeclarationShapes ==
       Of("decl", MCNames, {TRUE}, NoUse)
  \cup Of("alias", {"x"}, {FALSE}, NoUse)
  \cup Of("unused", {"x"}, {FALSE}, NoUse)
  \cup Of("expr", {"x"}, {FALSE}, {{"x"}})
  \cup Of("block", {"x"}, {FALSE}, NoUse)
  \cup Of("if", {"x"}, {FALSE}, NoUse)

\* Names also where the walk does not look, as the argument of a call is.
HiddenUseShapes ==
       LifetimeShapes
  \cup [kind : {"expr"}, name : {"x"}, auto : {FALSE}, uses : {{}}, hidden : Some]

DefaultOptions == [allowRedeclaration |-> TRUE, panic |-> TRUE]
OnlyDefault == {DefaultOptions}
AnyOptions  == [allowRedeclaration : BOOLEAN, panic : BOOLEAN]
=============================================================================
