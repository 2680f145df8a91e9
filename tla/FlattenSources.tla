--------------------------- MODULE FlattenSources ---------------------------
(* What both flatteners of a project share: the sources as the compiler's    *)
(* AST and the parser see them, the order they are written in and the edits  *)
(* of their text.  A source is a sequence of items; an item has parts, each  *)
(* a name and the declaration it stands for, and owns a range of words.  A   *)
(* name is a sequence, so that a numbered name is a longer one.              *)
EXTENDS Integers, Sequences, FiniteSets, SequencesExt

CONSTANTS
    Paths,       \* files, in the order of their names
    Target,      \* the file to flatten
    Programs,    \* what the files may hold: [Range(Paths) -> Seq(Item)]
    None

VARIABLE program \* what they hold

Sources == ToSet(Paths)

Collected == {"contract", "function"}       \* file-level definitions looked at
FileLevel == Collected \union {"error"}     \* file-level definitions there are
Erased == {"license", "version", "feature", "import"}
Members == {"struct", "modifier"}           \* what contracts declare
Uses == {"use", "access"}

(* A word that is no name. *)
Word(w) == <<w>>

(* The names of an access or a path, dots between them. *)
Dotted(parts) ==
    FlattenSeq([i \in DOMAIN parts |-> IF i = 1 THEN <<parts[i].name>> ELSE <<Word("."), parts[i].name>>])

Words(item) == IF item.is \in Uses THEN Dotted(item.parts) ELSE <<Word(item.is), item.parts[1].name>>

Text(items) == FlattenSeq([k \in DOMAIN items |-> Words(items[k])])

(* Where the k-th item of a source starts. *)
At(items, k) == Len(Text(SubSeq(items, 1, k - 1)))

Places(items, kinds) == {k \in DOMAIN items : items[k].is \in kinds}

Imports(p, f) == {p[f][k].of.file : k \in Places(p[f], {"import"})}

(* The files a path imports, itself included, at any depth. *)
Closed(p, S) == \A g \in S : Imports(p, g) \subseteq S

Deps(p, f) == {g \in Sources : \A S \in SUBSET Sources : f \in S /\ Closed(p, S) => g \in S}

ASSUME PathsAreFiles == Paths \in Seq(Sources) /\ Target \in Sources
ASSUME ProgramsAreParsed ==
    \A p \in Programs, f \in Sources :
        /\ p[f] \in Seq(ToSet(p[f])) /\ Imports(p, f) \subseteq Sources
        /\ \A k \in DOMAIN p[f] :
              /\ p[f][k].parts \in Seq(ToSet(p[f][k].parts)) /\ p[f][k].parts # <<>>
              /\ \A j \in DOMAIN p[f][k].parts :
                    p[f][k].parts[j].name \in Seq(ToSet(p[f][k].parts[j].name))

Standing(p, kinds) == UNION {{f} \X Places(p[f], kinds) : f \in Sources}

Declares(p, i) == p[i[1]][i[2]].parts[1].id

Refers(p, i) == Last(p[i[1]][i[2]].parts).id

Declaring == FileLevel \cup Members \cup {"import"}

(* Nothing is flattened that the compiler refuses: ids that name two         *)
(* declarations, a struct or a modifier without a contract around it, a name *)
(* that leads to a file that is not imported, a base or a type that is none, *)
(* a path that ends in an import or comes to one through anything but        *)
(* imports, or that comes to a modifier through anything but a contract.     *)
ASSUME ProgramsCompile ==
    \A p \in Programs :
        /\ \A i, j \in Standing(p, Declaring) : Declares(p, i) = Declares(p, j) => i = j
        /\ \A i \in Standing(p, Members) :
              \E c \in Standing(p, {"contract"}) : c[1] = i[1] /\ Declares(p, c) = p[i[1]][i[2]].of
        /\ \A i \in Standing(p, Uses), d \in Standing(p, Declaring) :
              /\ \A j \in DOMAIN p[i[1]][i[2]].parts :
                    p[i[1]][i[2]].parts[j].id = Declares(p, d) => d[1] \in Deps(p, i[1])
              /\ p[d[1]][d[2]].is = "import" => Refers(p, i) # Declares(p, d)
              /\ p[i[1]][i[2]].is = "use" /\ p[d[1]][d[2]].is = "error" => Refers(p, i) # Declares(p, d)
        /\ \A i \in Standing(p, Uses), d \in Standing(p, {"import"}) :
              \A j, k \in DOMAIN p[i[1]][i[2]].parts :
                  j < k /\ p[i[1]][i[2]].parts[k].id = Declares(p, d) =>
                      \E e \in Standing(p, {"import"}) : p[i[1]][i[2]].parts[j].id = Declares(p, e)
        /\ \A i \in Standing(p, {"use"}), d \in Standing(p, {"modifier"}) :
              LET parts == p[i[1]][i[2]].parts
              IN Refers(p, i) = Declares(p, d) /\ Len(parts) > 1 =>
                     \E c \in Standing(p, {"contract"}) : parts[Len(parts) - 1].id = Declares(p, c)
        /\ \A i \in Standing(p, {"use"}) :
              p[i[1]][i[2]].of = "base" =>
                  \E c \in Standing(p, {"contract"}) :
                      Refers(p, i) = Declares(p, c) /\ (c[1] = i[1] => c[2] < i[2])

Rank(f) == CHOOSE i \in DOMAIN Paths : Paths[i] = f

(* A mutant sorts by name. *)
BeforeByName(p, f, g) == Rank(f) < Rank(g)

(* Fewest dependencies first, then by name; the target last. *)
Before(p, f, g) ==
    \/ Cardinality(Deps(p, f)) < Cardinality(Deps(p, g))
    \/ Cardinality(Deps(p, f)) = Cardinality(Deps(p, g)) /\ Rank(f) < Rank(g)

OrderedDeps(p) ==
    (CHOOSE s \in SetToSeqs(Deps(p, Target) \ {Target}) :
        \A m, n \in DOMAIN s : m < n => Before(p, s[m], s[n])) \o <<Target>>

Edit(from, to, text) == [from |-> from, to |-> to, text |-> text]

Shifted(edit, offset) == [edit EXCEPT !.from = @ + offset, !.to = @ + offset]

Replaced(words, edit) ==
    SubSeq(words, 1, edit.from) \o edit.text \o SubSeq(words, edit.to + 1, Len(words))

(* The edits of a source in their order. *)
InOrder(edits) ==
    LET before(e) == {d \in edits : d.from < e.from \/ (d.from = e.from /\ d.to < e.to)}
    IN [n \in 1..Cardinality(edits) |-> CHOOSE e \in edits : Cardinality(before(e)) = n - 1]

(* Every edit is moved by what those before it added or removed. *)
Applied(done, edit) ==
    [words |-> Replaced(done.words, Shifted(edit, done.offset)),
     offset |-> done.offset + Len(edit.text) - (edit.to - edit.from)]

Edited(words, edits) ==
    LET order == InOrder(edits)
        done[n \in 0 .. Len(order)] ==
            IF n = 0 THEN [words |-> words, offset |-> 0] ELSE Applied(done[n - 1], order[n])
    IN done[Len(order)].words

Erasure(items, k) == Edit(At(items, k), At(items, k) + 2, <<>>)

NameOf(items, k) == items[k].parts[1].name
=============================================================================
