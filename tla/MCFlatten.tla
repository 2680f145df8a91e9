----------------------------- MODULE MCFlatten ------------------------------
(* A target that imports a, and a that imports b or not; the target imports  *)
(* b as well or not; or a walk through an AST.                               *)
EXTENDS Flatteners, AstWalk

VARIABLE part

MCPaths == <<"a", "b", "t">>

Part(name, id) == [name |-> name, id |-> id]
It(is, parts, of) == [is |-> is, parts |-> parts, of |-> of]

X == <<"X">>
Y == <<"Y">>
S == <<"S">>
Q == <<"Q">>
R == <<"R">>
M == <<"m">>

Import(file, id, aliases) == It("import", <<Part(<<file>>, id)>>, [file |-> file, aliases |-> aliases])
Def(is, name, id) == It(is, <<Part(name, id)>>, "none")
Struct(name, id, of) == It("struct", <<Part(name, id)>>, of)
Modifier(name, id, of) == It("modifier", <<Part(name, id)>>, of)
Use(parts, of) == It("use", parts, of)
Access(parts, of) == It("access", parts, of)
Doc(name, id) == It("doc", <<Part(name, id)>>, "none")
License(l) == It("license", <<Part(l, 0)>>, "none")
Version(v) == It("version", <<Part(v, 0)>>, "none")
Feature(v, of) == It("feature", <<Part(v, 0)>>, of)

(* Declarations: 1 the contract of b, 2 its struct, 7 its modifier, 3 the    *)
(* contract of a, 8 its modifier, 4 the contract of t, 5 and 6 functions of  *)
(* a; imports: 11 b by a, 12 a by t, 13 b by t.                              *)
FileB(n, prefix) == prefix \o <<Def("contract", n, 1), Struct(S, 2, 1), Modifier(M, 7, 1)>>

(* a knows the contract of b, and its modifier, under another name or        *)
(* through the import.                                                       *)
BaseInA(n, form) ==
    CASE form = "alias" -> <<Use(<<Part(Q, 1)>>, "base"), Use(<<Part(Q, 1), Part(M, 7)>>, "none")>>
      [] form = "path" -> <<Use(<<Part(R, 11), Part(n, 1)>>, "base"),
                            Use(<<Part(R, 11), Part(n, 1), Part(M, 7)>>, "none")>>
      [] OTHER -> <<Access(<<Part(R, 11), Part(n, 1)>>, "none")>>

FileA(n, nb, form, prefix) ==
    prefix \o <<Import("b", 11, IF form = "alias" THEN <<[alias |-> Q, target |-> nb]>> ELSE <<>>),
      Def("contract", n, 3), Modifier(M, 8, 3)>> \o BaseInA(nb, form) \o <<Doc(IF form = "alias" THEN Q ELSE <<"U">>, IF form = "alias" THEN 1 ELSE 0)>>

UseInT(form, na, nb) ==
    CASE form = "plain" -> <<Use(<<Part(na, 3)>>, "base"), Use(<<Part(na, 3), Part(M, 8)>>, "none"),
                             Use(<<Part(na, 3)>>, "tight"), Doc(na, 3)>>
      [] form = "array" -> <<Use(<<Part(Q, 3)>>, "base"), Use(<<Part(Q, 3)>>, "tight")>>
      [] form = "quoted" -> <<Use(<<Part(Q, 3)>>, "base"), Access(<<Part(Q, 3)>>, "quoted")>>
      [] form = "inner" -> <<Use(<<Part(R, 13), Part(nb, 1), Part(S, 2)>>, "none")>>
      [] form = "deep" -> <<Access(<<Part(R, 12), Part(R, 11), Part(nb, 1), Part(S, 2)>>, "none")>>
      [] form = "bare" -> <<Use(<<Part(R, 13), Part(nb, 1)>>, "base"), Use(<<Part(S, 2)>>, "none")>>
      [] OTHER -> <<Use(<<Part(Q, 3)>>, "base"), Access(<<Part(Q, 3)>>, "none")>>

FileT(n, form, na, nb, prefix) ==
    prefix \o <<Import("b", 13, <<>>), Import("a", 12, IF form \in {"alias", "array", "quoted"} THEN <<[alias |-> Q, target |-> na]>> ELSE <<>>),
      Def("contract", n, 4)>> \o UseInT(form, na, nb)

Heads == {<<>>, <<License(<<"MIT">>), Version(<<"v1">>)>>}
TargetHeads == {<<Version(<<"v2">>), Feature(<<"ABI">>, "experimental")>>, <<License(<<"GPL">>), Version(<<"v1">>)>>}

MCPrograms ==
    {[f \in {"a", "b", "t"} |->
        CASE f = "b" -> FileB(nb, pb)
          [] f = "a" -> FileA(na, nb, fa, pb) \o extra
          [] OTHER -> FileT(nt, ft, na, nb, pt)]
     : nb \in {X, Y}, na \in {X, Y}, nt \in {X, <<"T">>}, fa \in {"alias", "path", "access"},
       ft \in {"plain", "inner", "deep", "bare", "alias", "array"}, pb \in Heads, pt \in TargetHeads,
       extra \in {<<>>, <<Def("function", <<"f">>, 5), Def("function", <<"f">>, 6), Access(<<Part(<<"f">>, 6)>>, "none")>>}}

(* No names that need numbers, no qualified imports, no tags of aliases. *)
AlikePrograms ==
    {[f \in {"a", "b", "t"} |->
        CASE f = "b" -> FileB(X, pb)
          [] f = "a" -> pa \o <<Import("b", 11, al), Def("contract", Y, 3), base>>
          [] OTHER -> FileT(<<"T">>, ft, Y, X, pt)]
     : base \in {Use(<<Part(X, 1)>>, "base"), Access(<<Part(X, 1), Part(S, 2)>>, "none")}, al \in {<<>>, <<[alias |-> Q, target |-> X]>>},
       ft \in {"plain", "alias", "array", "quoted"}, pa \in Heads, pb \in Heads, pt \in TargetHeads}

AllPrograms == MCPrograms \cup AlikePrograms

\* A program for the walks through an AST, in which nothing is flattened.
Unwritten == CHOOSE p \in AlikePrograms : TRUE

MCFlattenInit ==
    /\ \/ part = "flatten" /\ node = "SourceUnit" /\ legacy = FALSE
       \/ part = "walk" /\ program = Unwritten
    /\ Init /\ WalkInit
MCFlattenNext ==
    /\ UNCHANGED part
    /\ \/ part = "flatten" /\ Next /\ UNCHANGED walkVars
       \/ part = "walk" /\ Descend /\ UNCHANGED vars
MCFlattenSpec == MCFlattenInit /\ [][MCFlattenNext]_<<vars, walkVars, part>>
=============================================================================
