----------------------------- MODULE SourceTree -----------------------------
(***************************************************************************)
(* Source files, the imports between them and what the compiler makes of   *)
(* them.                                                                   *)
(*                                                                         *)
(* A tree is a function from files to contents, None where there is no     *)
(* file.  The content of a file decides which files it imports.            *)
(***************************************************************************)
EXTENDS Naturals

CONSTANTS
    Files,      \* the source files of the project and its libraries
    Contents,   \* what a file may contain; equal contents have equal hashes
    Versions,   \* compiler versions
    Profiles,   \* names of settings profiles
    Settings,   \* values a profile's settings may take
    None,       \* no file, no artifact, no entry, no cache
    Failed,     \* the answer of a build that reports errors
    Wants,      \* Wants[f][c]: the files that f imports when its content is c
    Fallback,   \* the file an import of f resolves to when f is missing, or None
    Strict,     \* files imported through a remapping, whose path is taken unseen
    Bare        \* <<f, c>>: f with content c declares no contract

ASSUME ImportsAreFiles ==
    /\ Wants \in [Files -> [Contents -> SUBSET Files]]
    /\ Fallback \in [Files -> Files \cup {None}]

ASSUME NoneIsNothing == None \notin Files \cup Contents \cup Settings

(* No import can resolve to another file than the one it names. *)
NoFallback == \A f \in Files : Fallback[f] = None

Units == Versions \X Profiles
Keys == Files \X Units
Tree == [Files -> Contents \cup {None}]

Exists(s) == {f \in Files : s[f] # None}

(* The file that an import of g names: g, or what the search falls back to
   when g does not exist. *)
Target(s, g) == IF s[g] # None THEN g ELSE Fallback[g]

Wanted(s, f) == IF s[f] = None THEN {} ELSE Wants[f][s[f]]

(* The edges of the import graph: imports that do not resolve have none. *)
Imports(s, f) == {Target(s, g) : g \in Wanted(s, f)} \cap Exists(s)

Unresolved(s, f) == \E g \in Wanted(s, f) : Target(s, g) \notin Exists(s)

ImportClosed(s, S) == \A f \in S : Imports(s, f) \subseteq S

(* f with its direct and indirect imports: the least set that holds f and is
   closed under imports. *)
Reach(s, f) ==
    {g \in Files : \A S \in SUBSET Files : f \in S /\ ImportClosed(s, S) => g \in S}

ReachAll(s, F) == UNION {Reach(s, f) : f \in F}

(* A remapped import of a missing file is an error of the whole graph, not an
   unresolved import: the path is only checked when the node is read. *)
GraphFails(s, F) ==
    \E f \in ReachAll(s, F) :
        \E g \in Wanted(s, f) \cap Strict : Target(s, g) \notin Exists(s)

-----------------------------------------------------------------------------
(* What the compiler sees of a file: its content and that of all its imports. *)
Stamp(s, f) == [g \in Files |-> IF g \in Reach(s, f) THEN s[g] ELSE None]

(* An artifact is known by the sources and the settings it was compiled from. *)
Artifact == [src : Tree, set : Settings]

ASSUME NoneIsNoArtifact == None \notin Artifact

Compiled(s, set, k) == [src |-> Stamp(s, k[1]), set |-> set[k[2][2]]]

Yields(s, f) == s[f] # None /\ <<f, s[f]>> \notin Bare

(* The artifact a compiler run over s produces for file k[1] in unit k[2]. *)
CompilerOutput(s, set, k) == IF Yields(s, k[1]) THEN Compiled(s, set, k) ELSE None

(* The (file, unit) pairs a build for job has to account for. *)
Requested(job) == {k \in Keys : k[1] \in job[k[2]]}
=============================================================================
