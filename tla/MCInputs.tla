------------------------------- MODULE MCInputs -------------------------------
(***************************************************************************)
(* DirtySources, VersionSelection, SettingsRestrictions and CompilerInputs *)
(* for TLC, one of them in a behaviour.  The project of the inputs has a   *)
(* contract that imports a library outside of the project's root and one   *)
(* inside of it, a Yul file, and a Vyper file that imports an interface.   *)
(***************************************************************************)
EXTENDS CompilerInputs, SettingsRestrictions, VersionSelection, DirtySources

VARIABLE part

InputFiles == {"Token", "Math", "Lib", "Yul", "Vault", "IVault"}
InputImports ==
    ("Token" :> {"Math", "Lib"}) @@ ("Math" :> {"Lib"}) @@ ("Vault" :> {"IVault"})
        @@ [f \in {"Lib", "Yul", "IVault"} |-> {}]
InputLanguages ==
    ("Yul" :> "Yul") @@ [f \in {"Vault", "IVault"} |-> "Vyper"]
        @@ [f \in {"Token", "Math", "Lib"} |-> "Solidity"]
InputLibraries == {"Math", "Lib"}
InputInterfaces == {"IVault"}
InputOutsiders == {"Lib"}

\* Solidity 0.8.5 lacks some of the options, Yul's 0.8.29 none.  The EVM versions are Byzantium,
\* Istanbul, Berlin and Cancun.
InputVersions == ("Solidity" :> 805) @@ ("Yul" :> 829) @@ ("Vyper" :> 309)
InputSince == DroppedBefore @@ ("eofVersion" :> 829) @@ ("simpleCounter" :> 822)
InputEvmSince == <<421, 514, 805, 824>>
InputVyperLacks == {"sourceMap"}
InputResolcKnows == {"abi", "bin", "ast"}

Bytecode == Star :> ("*" :> {"abi", "bin"})
Everything == Star :> (("*" :> {"abi", "bin", "sourceMap"}) @@ ("" :> {"ast"}))
OneFile == Abs("Token") :> ("*" :> {"abi"})

Settings(select, options, evm) ==
    [select |-> select, options |-> options, evm |-> evm, remappings |-> {},
     libs |-> {Abs("Math"), Abs("Lib")}, args |-> {}]
VyperSettings(select, evm) == [select |-> select, evm |-> evm, search |-> {}]
Choice(solc, vyper) ==
    [solc |-> solc, vyper |-> vyper, remappings |-> {Abs("Math")}, includes |-> {Abs("IVault")}]

InputConfigs ==
    LET plain == Settings(Bytecode, {}, 0)
        full == Settings(Everything, {"debug", "debugInfo", "viaIR", "inliner", "modelChecker", "eld",
                                     "cborMetadata", "eofVersion", "simpleCounter"}, 4)
        vyper == VyperSettings(Bytecode, 0)
    IN {Choice(plain, vyper),
        Choice([plain EXCEPT !.select = Everything], VyperSettings(Everything, 0)),
        Choice(full, vyper),
        Choice([full EXCEPT !.evm = 2], VyperSettings(OneFile, 3)),
        Choice([plain EXCEPT !.args = {"--pretty-json"}], VyperSettings(Bytecode, 3))}
InputPatterns == {InputFiles, {"Token", "Vault"}}

\* Bounds on a value of 0 to 2, and what a rule may say of the other settings.
Options(set) == {{}} \cup {{x} : x \in set}
Bounds == {[min |-> low, max |-> high] : low \in Options(0 .. 2), high \in Options(0 .. 2)}
InputRules ==
    {[NoRule EXCEPT !.runs = r, !.evm = [min |-> r.max, max |-> {}]] : r \in Bounds}
        \cup {[NoRule EXCEPT !.viaIr = ir, !.hash = h, !.version = v] :
                  ir \in Options(BOOLEAN), h \in Options({"none", "ipfs"}),
                  v \in Options({{1, 2}, {2}})}
InputRestricted ==
    [evm : Options(0 .. 2), runs : Options(0 .. 2), optimizer : Options(BOOLEAN),
     viaIr : Options(BOOLEAN), hash : {{}, {"ipfs"}}, version : {1, 2}]

\* Three input files and a library: all import the library, or a and b import
\* each other and b the library.
SelectionInputs == <<"a", "b", "c">>
SelectionProfiles == <<"default", "ir">>
Graphs ==
    {[f \in Files |-> IF f = "d" THEN <<>> ELSE <<"d">>],
     [f \in Files |-> CASE f = "a" -> <<"b">> [] f = "b" -> <<"a", "d">> [] OTHER -> <<>>]}

\* In one language any versions may be required; in two, any profiles allowed.
SelectionProjects ==
    LET one == [f \in Elems(Inputs) |-> "Solidity"]
        two == [one EXCEPT !["b"] = "Yul"]
    IN  [imports : Graphs, lang : {one}, requires : [Files -> Ranges \ {{}}],
         allows : {[f \in Files |-> DOMAIN Profiles]}, installed : {{2}, {1, 3}}]
        \cup
        [imports : Graphs, lang : {two}, requires : {[f \in Files |-> Versions]},
         allows : [Files -> SUBSET DOMAIN Profiles], installed : {{2}}]

\* Contents: an interface, an implementation, and a contract extending a source's.
Content(i, j, e) == [interface |-> i, implementation |-> j, extends |-> e]
DirtyTexts ==
    {Content(0, 0, FALSE), Content(0, 1, FALSE), Content(1, 0, FALSE), Content(0, 1, TRUE)}

\* Sources s and r, a mock m, a test t: a chain, one where r is a
\* test too, each with importers before imports, and one with a cycle of tests.
DirtyFiles == {"s", "r", "m", "t"}
Needs(pairs) == [f \in DirtyFiles |-> {p[2] : p \in {q \in pairs : q[1] = f}}]
Mocked == [f \in DirtyFiles |-> Content(0, 0, f = "m")]
DirtyLayouts ==
    {[order |-> <<"t", "m", "r", "s">>, src |-> {"s", "r"}, text |-> Mocked,
      needs |-> Needs({<<"r", "s">>, <<"m", "r">>, <<"t", "m">>})],
     [order |-> <<"r", "t", "m", "s">>, src |-> {"s"}, text |-> Mocked,
      needs |-> Needs({<<"r", "t">>, <<"m", "s">>, <<"t", "m">>})],
     [order |-> <<"s", "r", "m", "t">>, src |-> {"s"}, text |-> Mocked,
      needs |-> Needs({<<"m", "s">>, <<"t", "m">>, <<"m", "t">>, <<"r", "t">>})]}

\* The parts that stand still start from one of their initial states.
InputsIdle ==
    /\ config = CHOOSE c \in InputConfigs : TRUE
    /\ pattern = InputFiles /\ tool = "solc"
SelectionIdle ==
    LET p == CHOOSE q \in SelectionProjects : Elems(SelectionInputs) = DOMAIN q.lang
    IN  /\ imports = p.imports /\ lang = p.lang
        /\ requires = p.requires /\ allows = p.allows
        /\ installed = p.installed /\ offline = FALSE

DirtyIdle == layout = CHOOSE l \in DirtyLayouts : TRUE

MCInputsInit ==
    /\ \/ part = "inputs" /\ SelectionIdle /\ DirtyIdle
       \/ part = "restrictions" /\ InputsIdle /\ SelectionIdle /\ DirtyIdle
       \/ part = "selection" /\ InputsIdle /\ DirtyIdle
       \/ part = "dirty" /\ InputsIdle /\ SelectionIdle
    /\ InputInit /\ RestrictionsInit /\ SelectionInit /\ DirtyInit
MCInputsNext ==
    /\ UNCHANGED part
    /\ \/ part = "inputs" /\ InputNext /\ UNCHANGED <<restrictionVars, selectionVars, dirtyVars>>
       \/ part = "restrictions" /\ RestrictionsNext /\ UNCHANGED <<inputVars, selectionVars, dirtyVars>>
       \/ part = "selection" /\ SelectionNext /\ UNCHANGED <<inputVars, restrictionVars, dirtyVars>>
       \/ part = "dirty" /\ DirtyNext /\ UNCHANGED <<inputVars, restrictionVars, selectionVars>>
MCInputsSpec ==
    /\ MCInputsInit
    /\ [][MCInputsNext]_<<inputVars, restrictionVars, selectionVars, dirtyVars, part>>
===============================================================================
