----------------------------- MODULE Flattener ------------------------------
(* flatten.rs: one source out of a target and everything it imports, from    *)
(* the compiler's AST.  Every pass adds edits of the sources; the edits are  *)
(* applied at the end.                                                       *)
EXTENDS FlattenSources

VARIABLES
    pass,        \* the pass that comes next
    edits,       \* of every source
    names,       \* declaration -> the name it has in the result
    head,        \* license, version pragmas, other pragma of the result
    result       \* file -> its words in the result

astVars == <<program, pass, edits, names, head, result>>

Written == OrderedDeps(program)
Files == ToSet(Written)

FlattenInit ==
    /\ program \in Programs
    /\ pass = "filenames"
    /\ edits = [f \in Files |-> {}]
    /\ names = <<>>
    /\ head = [license |-> None, versions |-> {}, feature |-> None]
    /\ result = <<>>

(* <<f, k>> is the k-th item of f. *)
Items == UNION {{f} \X DOMAIN program[f] : f \in Files}

Item(i) == program[i[1]][i[2]]

ItemsOf(kinds) == {i \in Items : Item(i).is \in kinds}

Id(i) == Item(i).parts[1].id

(* References to declarations: one for the whole path, one for every part of *)
(* an access.                                                                *)
ReferencesAt(i) ==
    LET item == Item(i) at == At(program[i[1]], i[2]) n == Len(item.parts)
    IN IF item.is = "use"
       THEN {[id |-> item.parts[n].id, file |-> i[1], from |-> at, to |-> at + 2 * n - 1]}
       ELSE {[id |-> item.parts[j].id, file |-> i[1], from |-> at + 2 * j - 2, to |-> at + 2 * j - 1]
             : j \in 1..n}

References == UNION {ReferencesAt(i) : i \in ItemsOf(Uses)}

ReferencesIn(f) == {r \in References : r.file = f}

Adding(new) == [f \in Files |-> edits[f] \union new[f]]

Step(from, to) == pass = from /\ pass' = to /\ UNCHANGED program

(* The name of the file goes before everything in it. *)
FilenameOf(f) == {Edit(0, 0, <<Word(f)>>)}

AppendFilenames ==
    /\ Step("filenames", "names")
    /\ edits' = Adding([f \in Files |-> FilenameOf(f)])
    /\ UNCHANGED <<names, head, result>>

Definitions == ItemsOf(Collected)

TopLevel == {Id(i) : i \in Definitions}

Named(name) == {i \in Definitions : Item(i).parts[1].name = name}

AllNames == {Item(i).parts[1].name : i \in Definitions}

Position(f) == CHOOSE n \in DOMAIN Written : Written[n] = f

(* Definitions of one name, in the order of their files; those of one file   *)
(* in any order.                                                             *)
Orders(name) ==
    {s \in SetToSeqs(Named(name)) :
        \A m, n \in DOMAIN s : m < n => Position(s[m][1]) <= Position(s[n][1])}

(* A mutant numbers the definitions of a file only. *)
FinalNamesPerFile(order) ==
    [id \in TopLevel |->
        LET i == CHOOSE d \in Definitions : Id(d) = id
            name == Item(i).parts[1].name
            same == {d \in Named(name) : d[1] = i[1]}
        IN IF Cardinality(same) = 1 THEN name
           ELSE Append(name, (CHOOSE n \in DOMAIN order[name] : order[name][n] = i) - 1)]

(* A name borne by several definitions gets a number. *)
FinalNames(order) ==
    [id \in TopLevel |->
        LET i == CHOOSE d \in Definitions : Id(d) = id
            name == Item(i).parts[1].name
        IN IF Cardinality(Named(name)) = 1 THEN name
           ELSE Append(name, (CHOOSE n \in DOMAIN order[name] : order[name][n] = i) - 1)]

(* Definitions and every reference to them take the final name. *)
RenamedIn(f, final) ==
    {Edit(At(program[f], i[2]) + 1, At(program[f], i[2]) + 2, <<final[Id(i)]>>) : i \in {d \in Definitions : d[1] = f}}
    \union {Edit(r.from, r.to, <<final[r.id]>>) : r \in {r \in ReferencesIn(f) : r.id \in TopLevel}}

RenameTopLevelDefinitions ==
    /\ Step("names", "inner")
    /\ \E order \in [AllNames -> UNION {Orders(name) : name \in AllNames}] :
          /\ \A name \in AllNames : order[name] \in Orders(name)
          /\ names' = FinalNames(order)
    /\ edits' = Adding([f \in Files |-> RenamedIn(f, names')])
    /\ UNCHANGED <<head, result>>

(* What contracts declare, without the modifiers, which are not looked at:   *)
(* a reference to a modifier is collected and stays as it is written.        *)
Inner == ItemsOf({"struct"})

Through(i) == <<names[Item(i).of], Word("."), Item(i).parts[1].name>>

(* A mutant also rewrites what is referenced by its own name. *)
QualifiedInBare(f) ==
    UNION {{Edit(r.from, r.to, Through(i)) : r \in {r \in ReferencesIn(f) : r.id = Id(i)}} : i \in Inner}

(* What a contract declares is named through the contract, unless it was     *)
(* referenced by its own name, of the same length.                           *)
QualifiedIn(f) ==
    UNION {{Edit(r.from, r.to, Through(i)) : r \in {r \in ReferencesIn(f) : r.id = Id(i) /\ r.to > r.from + 1}}
           : i \in Inner}

RenameContractLevelTypes ==
    /\ Step("inner", "qualifiers")
    /\ edits' = Adding([f \in Files |-> QualifiedIn(f)])
    /\ UNCHANGED <<names, head, result>>

ImportIds == {Id(i) : i \in ItemsOf({"import"})}

(* The name of an import and the dot after it go. *)
UnqualifiedIn(f) == {Edit(r.from, r.to + 1, <<>>) : r \in {r \in ReferencesIn(f) : r.id \in ImportIds}}

RemoveQualifiedImports ==
    /\ Step("qualifiers", "docs")
    /\ edits' = Adding([f \in Files |-> UnqualifiedIn(f)])
    /\ UNCHANGED <<names, head, result>>

(* A tag takes the final name of what the file knows by its name, or goes. *)
TagsIn(f) ==
    {LET at == At(program[f], i[2])
     IN IF Id(i) \in TopLevel THEN Edit(at + 1, at + 2, <<names[Id(i)]>>) ELSE Edit(at, at + 2, <<>>)
       : i \in {d \in ItemsOf({"doc"}) : d[1] = f}}

UpdateInheritdocs ==
    /\ Step("docs", "erase")
    /\ edits' = Adding([f \in Files |-> TagsIn(f)])
    /\ UNCHANGED <<names, head, result>>

First(items, kind) ==
    IF Places(items, {kind}) = {} THEN {} ELSE {CHOOSE k \in Places(items, {kind}) : \A j \in Places(items, {kind}) : k <= j}

(* Imports, pragmas and licenses go; the versions are combined, one of the   *)
(* other pragmas and the license of the target are kept.                     *)
ErasedIn(f) ==
    {Erasure(program[f], k)
       : k \in Places(program[f], {"import", "version", "feature"}) \union First(program[f], "license")}

RemoveDirectives ==
    /\ Step("erase", "apply")
    /\ edits' = Adding([f \in Files |-> ErasedIn(f)])
    /\ \E feature \in IF ItemsOf({"feature"}) = {} THEN {None} ELSE {Item(i).parts[1].name : i \in ItemsOf({"feature"})} :
          head' = [license |-> IF First(program[Target], "license") = {} THEN None
                               ELSE NameOf(program[Target], CHOOSE k \in First(program[Target], "license") : TRUE),
                   versions |-> {Item(i).parts[1].name : i \in ItemsOf({"version"})},
                   feature |-> feature]
    /\ UNCHANGED <<names, result>>

ApplyUpdates ==
    /\ Step("apply", "done")
    /\ result' = [f \in Files |-> Edited(Text(program[f]), edits[f])]
    /\ UNCHANGED <<edits, names, head>>

Flatten ==
    \/ AppendFilenames \/ RenameTopLevelDefinitions \/ RenameContractLevelTypes
    \/ RemoveQualifiedImports \/ UpdateInheritdocs \/ RemoveDirectives \/ ApplyUpdates

FlattenSpec == FlattenInit /\ [][Flatten]_astVars

-----------------------------------------------------------------------------
Flattened == pass = "done"

(* What an item should read in the result. *)
IdName(part) == IF part.id \in TopLevel THEN names[part.id] ELSE part.name

Declared(id) == CHOOSE i \in Inner : Id(i) = id

ModifierIds == {Id(i) : i \in ItemsOf({"modifier"})}

ToModifier(item) ==
    item.is = "use" /\ Len(item.parts) > 1 /\ item.parts[Len(item.parts)].id \in ModifierIds

(* The first part of an access after the imports it goes through. *)
Within(item) ==
    CHOOSE j \in DOMAIN item.parts :
        item.parts[j].id \notin ImportIds /\ \A k \in 1 .. j - 1 : item.parts[k].id \in ImportIds

Image(f, k) ==
    LET item == program[f][k]
        last == item.parts[Len(item.parts)]
    IN CASE item.is \in Erased -> IF item.is # "license" \/ k \in First(program[f], "license") THEN <<>> ELSE Words(item)
         [] item.is \in FileLevel -> <<Word(item.is), IdName(item.parts[1])>>
         [] item.is = "doc" -> IF Id(<<f, k>>) \in TopLevel THEN <<Word("doc"), names[Id(<<f, k>>)]>> ELSE <<>>
         [] item.is = "use" -> IF last.id \in {Id(i) : i \in Inner} /\ Len(item.parts) > 1
                               THEN Through(Declared(last.id))
                               ELSE IF last.id \in TopLevel THEN <<names[last.id]>> ELSE Words(item)
         [] item.is = "access" ->
              LET kept == SubSeq(item.parts, Within(item), Len(item.parts))
              IN Dotted([j \in DOMAIN kept |-> [name |-> IdName(kept[j]), id |-> kept[j].id]])
         [] OTHER -> Words(item)

(* A source in the result is its text with every item rewritten on its own:  *)
(* no pass damages what another one wrote or what none of them touches.      *)
RewritesItems ==
    Flattened => \A f \in Files :
        result[f] = <<Word(f)>> \o FlattenSeq([k \in DOMAIN program[f] |-> Image(f, k)])

(* Names of file-level definitions in the result. *)
DefinedAs(name) == {Id(i) : i \in {d \in ItemsOf(FileLevel) : IdName(Item(d).parts[1]) = name}}

(* What a path leads to at file level: a definition, or the contract around  *)
(* what it names, nothing when it is named by its own name within reach; an  *)
(* access, what it begins with, and a path to a modifier the contract it     *)
(* names before it.                                                          *)
Leads(item) ==
    LET id == item.parts[IF item.is = "access" THEN Within(item) ELSE Len(item.parts)].id
    IN CASE id \in {Id(i) : i \in ItemsOf(FileLevel)} -> {id}
         [] item.is = "use" /\ id \in {Id(i) : i \in Inner} /\ Len(item.parts) > 1 -> {Item(Declared(id)).of}
         [] ToModifier(item) -> {item.parts[Len(item.parts) - 1].id}
         [] OTHER -> {}

(* No definition has a name that is made for another, and errors, which are  *)
(* not renamed, have no alias and no name in common with anything.           *)
NamesAreFree ==
    \A p \in Programs : \A i \in Standing(p, FileLevel) :
        LET name == NameOf(p[i[1]], i[2])
        IN  /\ \A j \in Standing(p, FileLevel) :
                  /\ \A n \in Nat : name # Append(NameOf(p[j[1]], j[2]), n)
                  /\ p[i[1]][i[2]].is = "error" /\ name = NameOf(p[j[1]], j[2]) => i = j
            /\ p[i[1]][i[2]].is = "error" =>
                  \A u \in Standing(p, Uses) : \A k \in DOMAIN p[u[1]][u[2]].parts :
                      p[u[1]][u[2]].parts[k].id = Declares(p, i) => p[u[1]][u[2]].parts[k].name = name

(* A path to a modifier that is not the final name of the contract and the   *)
(* modifier's: it begins with an alias, with an import, or with a name that  *)
(* got a number.  Nothing rewrites it, and the result may not compile.       *)
OutdatedModifier(item) ==
    /\ ToModifier(item)
    /\ Len(item.parts) = 2 => item.parts[1].name # names[item.parts[1].id]

(* Whatever a source called a definition, through an alias, a qualified      *)
(* import or in a file with a definition of the same name, the name written  *)
(* in the result is the name of that definition and of no other.  Excepted   *)
(* are outdated paths to modifiers, which the code does not rewrite.         *)
NamesResolve ==
    Flattened => \A i \in ItemsOf(Uses) :
        ~OutdatedModifier(Item(i)) => \A id \in Leads(Item(i)) : DefinedAs(Image(i[1], i[2])[1]) = {id}

(* Files that import each other are in an order of their own. *)
ImportsAreAcyclic ==
    \A p \in Programs : \A f, g \in Sources : f \in Deps(p, g) /\ g \in Deps(p, f) => f = g

(* A contract is written after the contracts it derives from: what it derives *)
(* from is in an earlier file, or earlier in its own.                         *)
BasesFirst ==
    Flattened => \A i \in ItemsOf({"use"}), b \in ItemsOf({"contract"}) :
        Item(i).of = "base" /\ Leads(Item(i)) = {Id(b)}
            => Position(b[1]) < Position(i[1]) \/ (b[1] = i[1] /\ b[2] < i[2])
=============================================================================
