-------------------------- MODULE RemappingSearch --------------------------
(***************************************************************************)
(* Remapping::find_many of src/crates/artifacts/solc/src/remappings/find.rs *)
(* looks through the directories of a library folder and gives every        *)
(* library it finds there, nested ones included, the name by which others   *)
(* import it.  The search is a depth-first walk; a stack of frames stands   *)
(* for its recursion.  A path is a sequence of names; a tree is the set of  *)
(* its files and the directories its symbolic links point to.               *)
(***************************************************************************)
EXTENDS Naturals, Sequences, FiniteSets, SequencesExt

CONSTANTS
    Trees,      \* records [files: set of paths, links: path -> path]
    Order,      \* the names that occur, sorted as walkdir sorts them
    SolFiles,   \* names with the extension .sol
    Hidden,     \* names that start with a dot
    Project     \* the project's root directory

\* A path is a sequence, and there are finitely many links.
ASSUME TreesAreFinite ==
    /\ Project \in Seq(ToSet(Project))
    /\ \A t \in Trees :
          /\ IsFiniteSet(DOMAIN t.links)
          /\ \A p \in DOMAIN t.links : t.links[p] \in Seq(ToSet(t.links[p]))

VARIABLES
    tree,
    libs,       \* directories of the root still to be searched
    frames,      \* the calls of find_remapping_candidates, the innermost last
    followed,    \* visited_symlink_dirs
    remappings  \* all_remappings: name -> path

searchVars == <<tree, libs, frames, followed, remappings>>

Links == DOMAIN tree.links

Exists(p) == p \in Links \/ \E f \in tree.files : IsPrefix(p, f)

LinkTarget(p) == IF p \in Links THEN tree.links[p] ELSE p

IsDir(p) == LinkTarget(p) \notin tree.files

\* find_fave_or_alt_path, and find_libs by it: the library folder of a project
\* built without a list of them.
FaveOrAlt(fave, alt) ==
    IF ~Exists(Append(Project, fave)) /\ Exists(Append(Project, alt))
    THEN Append(Project, alt) ELSE Append(Project, fave)

Root == FaveOrAlt("lib", "node_modules")

\* What walkdir yields at depth 1, hidden entries filtered out.
Entries(real) ==
    SelectSeq(Order, LAMBDA n : n \notin Hidden /\ Exists(Append(real, n)))

IsSource(p) == p # <<>> /\ Last(p) \in {"src", "contracts"}
IsLib(p) == p # <<>> /\ Last(p) \in {"lib", "node_modules"}
EndsWithSrc(p) == p # <<>> /\ Last(p) = "src"
EndsWithJs(p) == p # <<>> /\ (Last(p) = "contracts" \/ IsSuffix(<<"contracts", "src">>, p))

InNodeModules == Root # <<>> /\ Last(Root) = "node_modules"

Distance(from, to) == IF IsPrefix(from, to) THEN Len(to) - Len(from) ELSE 0

\* The loop returns at its first turn: no directory is both a lib directory
\* and named contracts.
NextWindow(root, current) ==
    IF ~IsLib(root) \/ root = current THEN root ELSE SubSeq(current, 1, Len(root) + 1)

LastSource(root, dir) ==
    LET up(k) == SubSeq(dir, 1, k)
        stops == {k \in 1 .. Len(dir) - 1 : up(k) = root \/ IsSource(up(k))}
    IN  IF IsSource(dir) THEN dir
        ELSE IF stops = {} THEN root
        ELSE up(CHOOSE k \in stops : \A j \in stops : j <= k)

Merged(fr, window) ==
    LET src == {i \in DOMAIN fr.found : EndsWithSrc(fr.found[i].source)}
        others == SelectSeq(fr.found, LAMBDA c : c.level # fr.level)
        source == IF InNodeModules THEN window ELSE fr.dir
    IN  IF Cardinality(src) = 1
        THEN <<fr.found[CHOOSE i \in src : TRUE]>>
        ELSE IF fr.level > 0 /\ source = window /\ (IsSource(source) \/ IsLib(source))
        THEN others
        ELSE Append(others, [window |-> window, source |-> source, level |-> fr.level])

Adjusted(fr, window, c) ==
    IF Distance(c.window, c.source) > 1 /\ EndsWithJs(c.source)
    THEN [c EXCEPT !.source = window]
    ELSE IF ~IsSource(c.source) /\ c.source # c.window
    THEN [c EXCEPT !.source = LastSource(fr.open, c.source)]
    ELSE c

\* What a call returns once it has seen all entries.
Candidates(fr) ==
    LET window == NextWindow(fr.open, fr.dir)
        onLevel == {i \in DOMAIN fr.found : fr.found[i].level = fr.level}
        same == {i \in onLevel : fr.found[i].window = window}
        first == CHOOSE i \in onLevel : \A j \in onLevel : i <= j
    IN  IF fr.candidate \/ Cardinality(same) > 1 THEN Merged(fr, window)
        ELSE IF onLevel = {} THEN fr.found
        ELSE [fr.found EXCEPT ![first] = Adjusted(fr, window, @)]

Frame(dir, real, open, level) ==
    [dir |-> dir, real |-> real, open |-> open, level |-> level,
     rest |-> Entries(real), candidate |-> FALSE, found |-> <<>>]

Prioritized(old, new) ==
    Len(old) > Len(new) \/ (EndsWithSrc(new) /\ ~EndsWithSrc(old))

Inserted(m, c) ==
    LET name == Last(c.window) IN
    IF name \in DOMAIN m /\ ~Prioritized(m[name], c.source) THEN m
    ELSE [n \in DOMAIN m \cup {name} |-> IF n = name THEN c.source ELSE m[n]]

----------------------------------------------------------------------------

SearchInit ==
    /\ tree \in Trees
    /\ libs = SelectSeq(Entries(Root), LAMBDA n : IsDir(Append(Root, n)))
    /\ frames = <<>>
    /\ followed = {}
    /\ remappings = <<>>

OpenLibrary ==
    /\ frames = <<>> /\ libs # <<>>
    /\ LET dir == Append(Root, Head(libs)) IN frames' = <<Frame(dir, LinkTarget(dir), dir, 0)>>
    /\ libs' = Tail(libs)
    /\ UNCHANGED <<tree, followed, remappings>>

Top == Last(frames)
Entry == Append(Top.dir, Head(Top.rest))
RealEntry == Append(Top.real, Head(Top.rest))
Reading == frames # <<>> /\ Top.rest # <<>>
Rest == [Top EXCEPT !.rest = Tail(@)]

ReadFile ==
    /\ Reading /\ ~IsDir(RealEntry)
    /\ frames' = Append(Front(frames),
                       [Rest EXCEPT !.candidate = @ \/ Head(Top.rest) \in SolFiles])
    /\ UNCHANGED <<tree, libs, followed, remappings>>

\* A mutant of Avoided: links are followed again.
AvoidedUnseen ==
    /\ RealEntry \in Links
    /\ Len(Top.open) > Len(LinkTarget(RealEntry))

\* Every two absolute paths have an ancestor in common.
Avoided ==
    /\ RealEntry \in Links
    /\ LinkTarget(RealEntry) \in followed \/ Len(Top.open) > Len(LinkTarget(RealEntry))

Seen == followed \cup (IF RealEntry \in Links THEN {LinkTarget(RealEntry)} ELSE {})

\* The call returns no candidates at all: what it found before is dropped.
AvoidLink ==
    /\ Reading /\ IsDir(RealEntry) /\ Avoided
    /\ frames' = Front(frames)
    /\ followed' = Seen
    /\ UNCHANGED <<tree, libs, remappings>>

SkipDirectory ==
    /\ Reading /\ IsDir(RealEntry) /\ ~Avoided
    /\ Head(Top.rest) \in {"tests", "test", "demo"}
    /\ frames' = Append(Front(frames), Rest)
    /\ followed' = Seen
    /\ UNCHANGED <<tree, libs, remappings>>

Descend ==
    /\ Reading /\ IsDir(RealEntry) /\ ~Avoided
    /\ Head(Top.rest) \notin {"tests", "test", "demo"}
    /\ frames' = Front(frames)
                \o <<Rest, IF IsLib(Entry)
                           THEN Frame(Entry, LinkTarget(RealEntry), Entry, Top.level + 1)
                           ELSE Frame(Entry, LinkTarget(RealEntry), Top.open, Top.level)>>
    /\ followed' = Seen
    /\ UNCHANGED <<tree, libs, remappings>>

Return ==
    /\ Len(frames) > 1 /\ Top.rest = <<>>
    /\ LET caller == frames[Len(frames) - 1] IN
       frames' = Append(Front(Front(frames)), [caller EXCEPT !.found = @ \o Candidates(Top)])
    /\ UNCHANGED <<tree, libs, followed, remappings>>

FinishLibrary ==
    /\ Len(frames) = 1 /\ Top.rest = <<>>
    /\ remappings' = FoldLeft(Inserted, remappings, Candidates(Top))
    /\ frames' = <<>>
    /\ UNCHANGED <<tree, libs, followed>>

SearchNext ==
    \/ OpenLibrary \/ ReadFile \/ AvoidLink \/ SkipDirectory
    \/ Descend \/ Return \/ FinishLibrary

Finished == frames = <<>> /\ libs = <<>>

----------------------------------------------------------------------------
\* The libraries of a tree, by the rules in the comment of find_many: a
\* directory of the root, or one in a lib directory.

Libraries ==
    {l \in UNION {{SubSeq(f, 1, k) : k \in Len(Root) + 1 .. Len(f) - 1} : f \in tree.files} :
        /\ Len(l) = Len(Root) + 1 \/ IsLib(Front(l))
        /\ ~IsLib(l) /\ ~IsSource(l)}

Searched(f) ==
    /\ Last(f) \in SolFiles
    /\ IsPrefix(Root, f)
    /\ \A k \in Len(Root) + 1 .. Len(f) : f[k] \notin {"tests", "test", "demo"} \cup Hidden

\* The Solidity files of a library that are not a nested library's.
Own(l) ==
    {f \in tree.files :
        /\ Searched(f) /\ IsPrefix(l, f)
        /\ \A n \in Libraries : IsPrefix(n, f) => IsPrefix(n, l)}

SourceDirs(l) == {SubSeq(f, 1, Len(l) + 1) : f \in Own(l)}

\* All its contracts are in one source directory without a lib in it.
Regular(l) ==
    \E s \in {"src", "contracts"} :
        /\ SourceDirs(l) = {Append(l, s)}
        /\ \A f \in Own(l) : \A k \in Len(l) + 2 .. Len(f) - 1 : ~IsLib(SubSeq(f, 1, k))
                                                       /\ ~IsSource(SubSeq(f, 1, k))

Nameless(l) == \A k \in Libraries : Last(k) = Last(l) => k = l

\* The place of a path that goes through links.
RealOf(p) == FoldLeft(LAMBDA q, n : LinkTarget(Append(q, n)), <<>>, p)

\* No directory is searched within itself over and over: the links followed
\* once are not entered again (the check that the comment in
\* find_remapping_candidates explains with a workspace that links to itself).
NoEndlessWalk ==
    \A d \in {frames[i].real : i \in DOMAIN frames} :
        Cardinality({i \in DOMAIN frames : frames[i].real = d}) <= 1 + Cardinality(Links)
=============================================================================
