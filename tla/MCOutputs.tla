------------------------------- MODULE MCOutputs -------------------------------
(***************************************************************************)
(* What becomes of a compiler's output, for TLC: one component runs in a   *)
(* behaviour, the others stay as they began.                               *)
(***************************************************************************)
EXTENDS ArtifactPaths, ExtraOutputs, CompileOutput, SourceMap, Linking

\* A file whose contracts differ in case, one in a file whose name does, and a file with no
\* contract whose stem is a contract's name.
FilesDef == << <<"p", "3rd", "a.sol">>, <<"p", "A.sol">>, <<"p", "x", "A.sol">> >>
ContractsDef == [f \in ToSet(FilesDef) |->
                    CASE f = FilesDef[1] -> <<"A">>
                      [] f = FilesDef[2] -> <<"A", "a">>
                      [] OTHER -> <<>>]
StemDef == [f \in ToSet(FilesDef) |-> IF f = FilesDef[1] THEN "a" ELSE "A"]
UnitsDef == {<< <<"7", "d">> >>, << <<"7", "d">>, <<"8", "d">> >>, << <<"8", "d">>, <<"8", "o">> >>}
JobsDef == {[f \in fs |-> u] : fs \in SUBSET ToSet(FilesDef) \ {{}}, u \in UnitsDef}
PrimaryDef == [f \in ToSet(FilesDef) |-> "d"]
LowerCaseDef == [n \in {"A.sol", "A"} |-> IF n = "A" THEN "a" ELSE "a.sol"]

\* Two compiler versions, one of them with two profiles; a compiler that has no ewasm output.
UnitOrderDef == << <<"7", "d">>, <<"8", "d">>, <<"8", "o">> >>
SelectionsDef == {{}, {"ir"}, {"metadata", "ir"}, {"evm"}, {"ewasm", "abi"}}
EmitsDef == Basic \cup (AllValues \ {"ewasm"})

\* Two files and a library; two jobs that compile one of them with different versions.
PathOrderDef == <<"Lib.sol", "Me.sol", "My.t.sol">>
Diag(s, c, f) == [severity |-> s, code |-> c, file |-> f]
Job(id, v, ds, cs, errs) ==
    [id |-> id, version |-> v, profile |-> "d", dirty |-> ds, contracts |-> cs,
     errors |-> errs]
Old(errs) == Job("j7", "7", {"Me.sol", "Lib.sol"},
                 {<<"Me.sol", "A">>, <<"Me.sol", "B">>, <<"Lib.sol", "A">>}, errs)
New(errs) == Job("j8", "8", {"Me.sol", "My.t.sol"},
                 {<<"Me.sol", "A">>, <<"Lib.sol", "A">>, <<"My.t.sol", "B">>}, errs)
ErrorLists == {<<>>, <<Diag("warning", 1878, "My.t.sol"), Diag("info", 0, NothingFound)>>,
               <<Diag("warning", 2018, "Me.sol")>>, <<Diag("warning", 9999, "Me.sol")>>,
               <<Diag("warning", 2018, "Lib.sol"), Diag("error", 2018, "Lib.sol")>>}
JobListsDef == {<<New(a)>> : a \in ErrorLists}
               \cup {<<Old(a), New(<<>>)>> : a \in ErrorLists}
OlderJobsDef == {Job("j5", "7", {}, {}, <<>>),
                 Job("j6", "7", {"Me.sol", "Lib.sol"}, {<<"Me.sol", "A">>, <<"Lib.sol", "A">>}, <<>>)}
InfosDef == {<<"A">>, <<"B">>, <<<<"abs", "Me.sol">>, "A">>, <<<<"rel", "Me.sol">>, "A">>,
             <<"B", <<"abs", "Lib.sol">>, "A">>}
IsTestDef == {<<"Me.sol", "B">>}

\* Depths up to 3 fit in a word of 16 values; one depth and one index do not.  An element says
\* two things at most.
WrittenDef ==
    {b \in [offset : {{}, {2}}, length : {{}, {-1}}, index : {{}, {-1}, {14}, {15}, {16}},
            jump : {{}, {"out"}}, depth : {{}, {-1}, {3}, {4}}] :
        /\ Cardinality({f \in DOMAIN b : b[f] # {}}) <= 2
        /\ b.length # {} => b.depth = {}
        /\ b.depth = {-1} => b.jump # {} \/ b.index = {-1}
        /\ b.offset # {} => b.jump = {} /\ b.depth \subseteq {3}}

\* Two libraries of one file, whose old placeholders are equal, and one in a file with a colon.
LibA == <<"a.sol", "LibraryA">>
LibB == <<"a.sol", "LibraryB">>
LibC == <<"npm:c.sol", "C">>
PrefixDef == (LibA :> "a.sol:Library") @@ (LibB :> "a.sol:Library") @@ (LibC :> "npm:c.sol:C")
CompiledDef ==
    UNION {[1 .. 3 -> {Plain} \cup [is : {style}, of : {LibA, LibB, LibC}]] : style \in {"hash", "name"}}

VARIABLE part
ExtraIdle == /\ values = {} /\ extras = {} /\ requested = {} /\ artifact = <<>>
             /\ current = {} /\ lastBuild = "none"
OutputIdle == /\ todo = <<>> /\ errors = <<>> /\ contracts = <<>>
              /\ infos = <<>> /\ compiled = <<>> /\ stored = <<>>
              /\ older = Job("none", "7", {}, {}, <<>>)
              /\ taken = {} /\ handed = {} /\ reused = {} /\ asks = 0
MapIdle == written = <<>>
LinkIdle == original = <<Plain, Plain, Plain>>
MCInit ==
    /\ \/ part = "paths" /\ ExtraIdle /\ OutputIdle /\ MapIdle /\ LinkIdle
       \/ part = "extras" /\ OutputIdle /\ MapIdle /\ LinkIdle
       \/ part = "output" /\ ExtraIdle /\ MapIdle /\ LinkIdle
       \/ part = "map" /\ ExtraIdle /\ OutputIdle /\ LinkIdle
       \/ part = "link" /\ ExtraIdle /\ OutputIdle /\ MapIdle
    /\ PathsInit /\ MapInit /\ LinkInit
    /\ part = "extras" => ExtraInit
    /\ part = "output" => OutputInit
MCNext ==
    /\ UNCHANGED part
    /\ \/ part = "paths" /\ PathsNext /\ UNCHANGED <<extraVars, outputVars, mapVars, linkVars>>
       \/ part = "extras" /\ ExtraNext /\ UNCHANGED <<pathVars, outputVars, mapVars, linkVars>>
       \/ part = "output" /\ OutputNext /\ UNCHANGED <<pathVars, extraVars, mapVars, linkVars>>
       \/ part = "map" /\ MapNext /\ UNCHANGED <<pathVars, extraVars, outputVars, linkVars>>
       \/ part = "link" /\ LinkNext /\ UNCHANGED <<pathVars, extraVars, outputVars, mapVars>>
MCSpec == MCInit /\ [][MCNext]_<<pathVars, extraVars, outputVars, mapVars, linkVars, part>>
=============================================================================
