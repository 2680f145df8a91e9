---------------------------- MODULE DirtySources ----------------------------
(***************************************************************************)
(* Which cached files are dirty when a preprocessor is at work (cache.rs,  *)
(* find_and_remove_dirty; cache/iface.rs).  A preprocessor makes tests     *)
(* independent of the implementation of the sources they import, so that   *)
(* of a changed source only the interface matters to them.  A mock, a test *)
(* file with a contract that extends one of a source, still depends on     *)
(* implementations, and so does what imports it; the cache keeps a list of *)
(* the mocks.  A content is a file's interface, its implementation, and    *)
(* whether a contract of it extends one of a source.                       *)
(***************************************************************************)
EXTENDS Naturals, Sequences, SequencesExt, Functions

CONSTANTS
    Layouts,                \* projects: records order, src, needs, text
    Texts,                  \* the contents a file may get
    MaxChanges, MaxBuilds   \* bounds on what a user does

(* The order names all files, the sources are among them, and so is what a   *)
(* file imports.                                                             *)
ASSUME LayoutsAreProjects ==
    \A l \in Layouts :
        LET paths == ToSet(l.order)
        IN  /\ l.order \in Seq(paths)
            /\ l.src \subseteq paths
            /\ l.needs \in [paths -> SUBSET paths]
            /\ DOMAIN l.text = paths

VARIABLES
    layout,        \* the files in path order, those that are sources, what each imports directly
    text,          \* [file -> content]
    entries,       \* [file -> hashes], for the files with a cache entry
    mocks,         \* CompilerCache::mocks
    preprocessed,  \* CompilerCache::preprocessed
    built,         \* [file -> what its artifact was compiled from]
    changes, builds

dirtyVars == <<layout, text, entries, mocks, preprocessed, built, changes, builds>>

Paths == ToSet(layout.order)
IsSource(f) == f \in layout.src

(* The files that `step` leads to from those of `first`, going only through  *)
(* those in `within`: the least set of them that it does not lead out of.    *)
Spreading(first, within, step) ==
    {g \in within : \A S \in SUBSET within :
        first \cap within \subseteq S /\ (\A h \in S : step[h] \cap within \subseteq S) => g \in S}

(* GraphEdges::imports, direct or not, and GraphEdges::importers *)
AllImports(f) == Spreading(layout.needs[f], Paths, layout.needs)
Importers == [f \in Paths |-> {g \in Paths : f \in layout.needs[g]}]

(* interface_repr_hash is that of sources only. *)
Hashes(texts, f) ==
    [content |-> texts[f], interface |-> IF IsSource(f) THEN texts[f].interface ELSE 0]

-----------------------------------------------------------------------------
(* find_and_remove_dirty, with a cache's entries and mocks. *)
ContentChanged(cached, f) == f \notin DOMAIN cached \/ cached[f].content # Hashes(text, f).content
InterfaceChanged(cached, f) == f \notin DOMAIN cached \/ cached[f].interface # Hashes(text, f).interface

(* The files of the graph: those with an entry and what they import.         *)
GraphNodes(cached) == DOMAIN cached \cup UNION {AllImports(f) : f \in DOMAIN cached}

(* populate_dirty_files does not go on from files that are dirty already.    *)
Populated(cached, dirty, f) ==
    dirty \cup Spreading(Importers[f], GraphNodes(cached) \ dirty, Importers)

(* The dirty imports for which a file is dirty: of a source any; of a test,   *)
(* tests and sources whose interface changed, and if it is a mock, any.      *)
Reasons(cached, listed, dirty, f) ==
    {i \in AllImports(f) \cap dirty :
        IsSource(f) \/ ~IsSource(i) \/ InterfaceChanged(cached, i) \/ f \in listed}

(* A mutant of Marked: of a mock as of any test, the interfaces matter.      *)
MarkedByInterface(cached, listed, dirty, f) ==
    IF f \in dirty \/ Reasons(cached, {}, dirty, f) = {} THEN dirty
    ELSE IF ~IsSource(f) /\ f \in listed THEN Populated(cached, dirty, f)
    ELSE dirty \cup {f}

(* Of a mock not the file itself, but what imports it becomes dirty.         *)
Marked(cached, listed, dirty, f) ==
    IF f \in dirty \/ Reasons(cached, listed, dirty, f) = {} THEN dirty
    ELSE IF ~IsSource(f) /\ f \in listed THEN Populated(cached, dirty, f)
    ELSE dirty \cup {f}

(* The files whose content changed, and what is dirty after the first n files *)
(* have been looked at.                                                       *)
Changed(cached) == {f \in GraphNodes(cached) : ContentChanged(cached, f)}

Walk(cached, listed) ==
    LET walk[n \in 0 .. Len(layout.order)] ==
            IF n = 0 THEN Changed(cached)
            ELSE IF layout.order[n] \in GraphNodes(cached)
                 THEN Marked(cached, listed, walk[n - 1], layout.order[n])
                 ELSE walk[n - 1]
    IN  walk

Dirty(cached, listed, mode) ==
    IF mode THEN Walk(cached, listed)[Len(layout.order)]
    ELSE Spreading(Changed(cached), GraphNodes(cached), Importers)

-----------------------------------------------------------------------------
(* What the preprocessor and the compiler read of a file's imports, if the    *)
(* files have these contents.                                                *)
Extends(texts, f) == ~IsSource(f) /\ texts[f].extends

Wholly(texts, f, mode) ==
    LET tests == ({f} \cup AllImports(f)) \ layout.src
    IN  IF IsSource(f) \/ ~mode THEN {f} \cup AllImports(f)
        ELSE tests \cup UNION {AllImports(t) : t \in {u \in tests : Extends(texts, u)}}

Reads(texts, f, mode) ==
    LET whole == Wholly(texts, f, mode)
    IN  [g \in {f} \cup AllImports(f) |-> IF g \in whole THEN texts[g] ELSE texts[g].interface]

(* The preprocessor keeps the list for the files it is given. *)
Listed(listed, given) ==
    {f \in Paths : IF f \in given THEN Extends(text, f) ELSE f \in listed}

-----------------------------------------------------------------------------
DirtyInit ==
    /\ layout \in Layouts
    /\ text = layout.text
    /\ entries = <<>>
    /\ mocks = {}
    /\ preprocessed = FALSE
    /\ built = <<>>
    /\ changes = 0 /\ builds = 0

Change(f, t) ==
    /\ changes < MaxChanges
    /\ t # text[f] /\ (t.extends => ~IsSource(f))
    /\ text' = [text EXCEPT ![f] = t]
    /\ changes' = changes + 1
    /\ UNCHANGED <<layout, entries, mocks, preprocessed, built, builds>>

(* A build of a file and all it imports.  A cache of the other mode is not   *)
(* used; dirty files lose their entries whether they are built or not.       *)
BuildFile(f, mode) ==
    LET cached == IF mode = preprocessed THEN entries ELSE <<>>
        listed == IF mode = preprocessed THEN mocks ELSE {}
        clean == Restrict(cached, DOMAIN cached \ Dirty(cached, listed, mode))
        complete == ({f} \cup AllImports(f)) \ DOMAIN clean
        given == complete \cup UNION {AllImports(g) : g \in complete}
    IN  /\ builds < MaxBuilds
        /\ builds' = builds + 1
        /\ preprocessed' = mode
        /\ entries' = [g \in DOMAIN clean \cup complete |->
                          IF g \in complete THEN Hashes(text, g) ELSE clean[g]]
        /\ built' = [g \in DOMAIN built \cup complete |->
                        IF g \in complete THEN Reads(text, g, mode) ELSE built[g]]
        /\ mocks' = IF mode THEN Listed(listed, given) ELSE listed
        /\ UNCHANGED <<layout, text, changes>>

DirtyNext ==
    \E f \in Paths : (\E t \in Texts : Change(f, t)) \/ (\E mode \in BOOLEAN : BuildFile(f, mode))

DirtySpec == DirtyInit /\ [][DirtyNext]_dirtyVars

-----------------------------------------------------------------------------
Found == Dirty(entries, mocks, preprocessed)

(* However files are named and imported, and whichever were built: a file    *)
(* that is not found dirty was compiled from what it would be compiled from  *)
(* now, mocks themselves apart.                                              *)
TestsAreCurrent ==
    \A f \in DOMAIN entries \ (Found \cup mocks) : built[f] = Reads(text, f, preprocessed)
=============================================================================
