----------------------------- MODULE ImportPaths -----------------------------
(***************************************************************************)
(* How an import finds its file: a project's configuration is built with    *)
(* the remappings its library folder gives, may be saved and read again,    *)
(* and resolves imports with them, with the library folder itself, and with *)
(* the directories above the importing file                                 *)
(* (src/crates/compilers/src/config.rs, src/crates/core/src/utils/mod.rs).  *)
(***************************************************************************)
EXTENDS RemappingSearch, RemappingText, FiniteSetsExt

CONSTANT MayReload          \* whether the configuration may be saved and read

VARIABLES
    list,       \* the configured remappings, in their order
    reloaded,   \* whether they have been saved and read
    cwd,        \* the directory of the importing file
    import,     \* the components of its import
    resolved,   \* the path it is resolved to
    includes    \* include_paths

pathVars == <<list, reloaded, cwd, import, resolved, includes>>

None == <<"none">>
Failed == <<"failed">>

Sources == FaveOrAlt("src", "contracts")
Tests == Append(Project, "test")
Scripts == Append(Project, "script")
Libs == <<Root>>

InTree(p) == \E f \in tree.files : IsPrefix(RealOf(p), f)

----------------------------------------------------------------------------

\* A mutant of CleanPath: a step up removes nothing.
CleanPathUp(path) ==
    FoldLeft(LAMBDA p, c : IF c \in {".", ".."} THEN p ELSE Append(p, c), <<>>, path)

\* clean_solidity_path
CleanPath(path) ==
    FoldLeft(LAMBDA p, c :
                 IF c = "." THEN p
                 ELSE IF c = ".." /\ p # <<>> /\ Last(p) # ".." THEN Front(p)
                 ELSE Append(p, c),
             <<>>, path)

Normalized(dir, imp) == IF InTree(CleanPath(dir \o imp)) THEN CleanPath(dir \o imp) ELSE None

LibraryAncestor(file) ==
    LET above == {i \in DOMAIN Libs : IsPrefix(Libs[i], file)} IN
    IF above = {} THEN None ELSE Libs[Min(above)]

\* A mutant of AbsoluteLibrary: from the top, past the library.
AbsoluteLibraryTop(lib, dir, imp) ==
    LET up(k) == SubSeq(dir, 1, k)
        found == {k \in 0 .. Len(dir) - 1 : Normalized(up(k), imp) # None}
    IN  IF found = {} THEN None ELSE up(Min(found))

\* The directories above cwd are tried upwards until the library's is reached.
AbsoluteLibrary(lib, dir, imp) ==
    LET up(k) == SubSeq(dir, 1, k)
        tried == {k \in 0 .. Len(dir) - 1 : \A j \in k .. Len(dir) - 1 : up(j) # lib}
        found == {k \in tried : Normalized(up(k), imp) # None}
    IN  IF found = {} THEN None ELSE up(Max(found))

FromLibrary(imp) ==
    LET places == UNION {{<<i, 1, Libs[i] \o imp>>,
                          <<i, 2, Libs[i] \o <<Head(imp), "src">> \o Tail(imp)>>} :
                            i \in DOMAIN Libs}
        there == {p \in places : InTree(p[3])}
    IN  IF there = {} THEN None
        ELSE (CHOOSE p \in there :
                \A q \in there : p[1] < q[1] \/ (p[1] = q[1] /\ p[2] <= q[2]))[3]

\* A remapping applies in its context, a path without the project's root.
Applies(r, dir, imp) ==
    /\ r.context # NoContext =>
          /\ ~HasRoot(r.context)
          /\ IsPrefix(Components(r.context), SubSeq(dir, Len(Project) + 1, Len(dir)))
    /\ IsPrefix(Components(r.name), imp)

\* The path of a remapping, in the project if it is relative.
Place(r) == IF HasRoot(r.path) THEN Components(r.path) ELSE Project \o Components(r.path)

Remapped(r, imp) ==
    LET rest == SubSeq(imp, Len(Components(r.name)) + 1, Len(imp)) IN
    IF /\ Len(rest) > 1 /\ Head(rest) = "contracts"
       /\ Last(Components(r.path)) = "contracts"
       /\ ~InTree(Place(r) \o rest)
    THEN Place(r) \o Tail(rest)
    ELSE Place(r) \o rest

LibraryImport(dir, imp) ==
    LET fit == {i \in DOMAIN list : Applies(list[i], dir, imp)} IN
    IF fit = {} THEN FromLibrary(imp) ELSE Remapped(list[Min(fit)], imp)

FromProject(dir, imp) ==
    LET dirs == <<Project, Sources, Tests, Scripts>>
        fit == {i \in DOMAIN dirs : IsPrefix(dirs[i], dir) /\ Normalized(dirs[i], imp) # None}
    IN  IF fit = {} THEN Failed ELSE Normalized(dirs[Min(fit)], imp)

----------------------------------------------------------------------------

PathsInit ==
    /\ SearchInit
    /\ list = <<>> /\ reloaded = FALSE
    /\ cwd = None /\ import = None /\ resolved = None /\ includes = {}

\* The BTreeMap of find_many is sorted by the names.
ListOf(m) ==
    LET names == SelectSeq(Order, LAMBDA n : n \in DOMAIN m) IN
    [i \in DOMAIN names |->
        [context |-> NoContext, name |-> <<names[i], "/">>, path |-> Slashed(Absolute(m[names[i]]))]]

Search ==
    /\ SearchNext
    /\ list' = ListOf(remappings')
    /\ UNCHANGED <<reloaded, cwd, import, resolved, includes>>

\* The remappings are written, as they are or relative to the project, and read.
Reload ==
    /\ MayReload /\ Finished /\ ~reloaded /\ cwd = None
    /\ \/ list' = [i \in DOMAIN list |-> Parsed(Shown(list[i]))]
       \/ list' = [i \in DOMAIN list |->
                       WithParent(Read(ShownRelative(Relative(list[i], Project))), Project)]
    /\ reloaded' = TRUE
    /\ UNCHANGED <<searchVars, cwd, import, resolved, includes>>

IsRelative(imp) == Head(imp) \in {".", ".."}

SolidityFiles == {f \in tree.files : Last(f) \in SolFiles}

\* How a file may write the import of another: relative to it, by the name of a
\* directory above the other, and without a source directory in that.
RelativeTo(dir, f) ==
    LET common == Max({k \in 0 .. Len(dir) : IsPrefix(SubSeq(dir, 1, k), f)})
        ups == [i \in 1 .. Len(dir) - common |-> ".."]
    IN  (IF ups = <<>> THEN <<".">> ELSE ups) \o SubSeq(f, common + 1, Len(f))

ImportsOf(dir, f) ==
    LET tails == {SubSeq(f, k, Len(f)) : k \in Len(Project) + 1 .. Len(f)}
        short == {t \in tails : Len(t) > 2 /\ t[2] \in {"src", "contracts"}}
    IN  {RelativeTo(dir, f)} \cup tails \cup {<<Head(t)>> \o SubSeq(t, 3, Len(t)) : t \in short}

ResolveFrom(dir, imp) ==
    /\ cwd' = dir /\ import' = imp
    /\ LET lib == LibraryAncestor(dir)
           above == AbsoluteLibrary(lib, dir, imp)
       IN  IF IsRelative(imp)
           THEN /\ resolved' = IF Normalized(dir, imp) = None THEN Failed ELSE Normalized(dir, imp)
                /\ includes' = includes
           ELSE IF LibraryImport(dir, imp) # None
           THEN resolved' = LibraryImport(dir, imp) /\ includes' = includes
           ELSE IF lib # None /\ above # None
           THEN resolved' = Normalized(above, imp) /\ includes' = includes \cup {above}
           ELSE resolved' = FromProject(dir, imp) /\ includes' = includes

ResolveImport ==
    /\ Finished /\ cwd = None
    /\ \E f, g \in SolidityFiles : \E imp \in ImportsOf(Front(f), g) : ResolveFrom(Front(f), imp)
    /\ UNCHANGED <<searchVars, list, reloaded>>

PathsNext == Search \/ Reload \/ ResolveImport

PathsSpec == PathsInit /\ [][PathsNext]_<<searchVars, pathVars>>

----------------------------------------------------------------------------

\* The rules of find_many's comment and resolve_library_import's: a library
\* whose name no other has and that keeps its contracts in one source
\* directory, in libraries that do so too, is imported by its name, without the
\* source directory in lib and with it in node_modules; however deep it is
\* nested, whatever is beside it, from anywhere, and after the remappings have
\* been saved.
RegularImportsResolve ==
    resolved # None =>
        \A l \in Libraries : \A f \in Own(l) :
            /\ Nameless(l) /\ Links = {}
            /\ \A n \in Libraries : IsPrefix(n, l) => Regular(n) \/ Own(n) = {}
            /\ import = <<Last(l)>> \o SubSeq(f, Len(l) + (IF InNodeModules THEN 1 ELSE 2), Len(f))
            => resolved = f

\* A relative import is resolved to the file at the end of its way, with no step
\* up left in the path (normalize_solidity_import_path, which the comment on
\* clean_solidity_path explains).
RelativeImportsResolve ==
    resolved # None /\ IsRelative(import) =>
        \E f \in SolidityFiles : import = RelativeTo(cwd, f) /\ resolved = f

\* An include path is a directory above the importing file and inside the
\* library, where the compiler finds the import; a file in the library folder
\* itself has no library.
IncludePathsReach ==
    \A p \in includes :
        /\ resolved = p \o import
        /\ IsPrefix(p, cwd)
        /\ cwd # Root => IsPrefix(Root, p) /\ p # Root

\* Every import written as the libraries or the files beside ask for it finds
\* the file that was meant, and the compiler finds it in the include paths.
ImportsResolve == RegularImportsResolve /\ RelativeImportsResolve /\ IncludePathsReach
=============================================================================
