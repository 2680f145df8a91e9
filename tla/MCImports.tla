------------------------------ MODULE MCImports ------------------------------
(***************************************************************************)
(* ImportPaths and ImportGraph for TLC, one or the other in a behaviour:   *)
(* trees with every subset of some files, and some with links; graphs of   *)
(* three files with up to two imports each, one of them unresolved.        *)
(***************************************************************************)
EXTENDS ImportPaths, ImportGraph

CONSTANTS a, b, c, x

VARIABLE part

OrderDef == <<"a", "aux", "b", "c", "c.sol", "contracts", "d", "demo", "lib",
              "node_modules", "src", "t.txt", "w", "x", "z", ".git">>

ProjectDef == <<"w">>

In(lib, dirs) == {<<"w", lib>> \o d \o <<"c.sol">> : d \in dirs}
NoLinks(fs) == [files |-> fs, links |-> <<>>]

Own1 == {<<"w", "src", "c.sol">>, <<"w", "lib", "a", "t.txt">>}

Dapp == In("lib", {<<"a", "src">>, <<"a", "src", "x">>, <<"a", "lib", "b", "src">>,
                   <<"a", "lib", "b", "src", "demo">>, <<"a", "lib", "b", "lib", "c", "contracts">>,
                   <<"a", "lib", "d", "aux">>, <<"z", "contracts">>})

Hardhat == In("node_modules", {<<"a", "contracts">>, <<"a", "contracts", "x">>,
                               <<"b", "contracts", "x">>, <<"b", "node_modules", "c", "src">>})

PlainTrees ==
    {NoLinks(fs \cup Own1) : fs \in SUBSET Dapp}
    \cup {NoLinks(fs \cup {<<"w", "src", "c.sol">>}) : fs \in SUBSET Hardhat}

\* Libraries that link to each other, to themselves and to one outside.
L == <<"w", "lib">>
LinkPaths == {L \o <<"a", "x">>, L \o <<"b", "z">>, L \o <<"b", "lib", "a">>, L \o <<"c">>}
LinkTargets == {L \o <<"a">>, L \o <<"b">>, <<"d">>}
LinkFiles == {L \o <<"a", "src", "c.sol">>, L \o <<"b", "src", "c.sol">>,
              L \o <<"b", "lib", "d", "src", "c.sol">>, <<"d", "src", "c.sol">>}
LinkTrees ==
    {[files |-> LinkFiles, links |-> l] :
        l \in UNION {[ps -> LinkTargets] : ps \in SUBSET LinkPaths}}

MixedTrees == PlainTrees \cup LinkTrees

GraphInputs == {<<a>>, <<b, a>>}

UpTo(n, S) == UNION {[1 .. k -> S] : k \in 0 .. n}

GraphImports ==
    [f \in Files |->
        CASE f = a -> UpTo(2, Files)
          [] f = b -> UpTo(1, Files) \cup {<<x, c>>, <<a, x>>}
          [] f = c -> UpTo(1, Files \cup Absent) \cup {<<a, b>>}]

\* The part that stands still starts from one of its initial states.
PathsIdle == tree = NoLinks(Own1)
GraphIdle ==
    /\ inputs = <<a>> /\ imports = [f \in Files |-> <<>>] /\ readable = Files

MCImportsInit ==
    /\ \/ part = "paths" /\ GraphIdle
       \/ part = "graph" /\ PathsIdle
    /\ PathsInit /\ Init
MCImportsNext ==
    /\ UNCHANGED part
    /\ \/ part = "paths" /\ PathsNext /\ UNCHANGED vars
       \/ part = "graph" /\ Next /\ UNCHANGED <<searchVars, pathVars>>
mcVars == <<searchVars, pathVars, vars, part>>
MCImportsSpec ==
    /\ MCImportsInit /\ [][MCImportsNext]_mcVars
    /\ WF_mcVars(part = "graph" /\ (WalkNode \/ EndWalk) /\ UNCHANGED <<searchVars, pathVars, part>>)
=============================================================================
