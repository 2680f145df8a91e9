---------------------------- MODULE FlattenScan -----------------------------
(* config.rs, flatten: the same without a compiler.  File by file, what the  *)
(* parser found is cut out and names given to imports are replaced by a      *)
(* search of the text.                                                       *)
EXTENDS FlattenSources

VARIABLES
    queue,       \* files not written yet
    scanned,     \* file -> its words in the result
    scanHead     \* license, version pragmas, other pragma of the result

scanVars == <<program, queue, scanned, scanHead>>

ScanInit ==
    /\ program \in Programs
    /\ queue = OrderedDeps(program)
    /\ scanned = <<>>
    /\ scanHead = [license |-> None, versions |-> {}, feature |-> None]

(* The parser keeps the last of several pragmas, the license of the first    *)
(* line, all imports.                                                        *)
LastOf(items, kind) ==
    {k \in Places(items, {kind}) : \A j \in Places(items, {kind}) : j <= k}

Experimental(items) == {k \in Places(items, {"feature"}) : items[k].of = "experimental"}

LastExperimental(items) == {k \in Experimental(items) : \A j \in Experimental(items) : j <= k}

FirstLine(items) == Places(items, {"license"}) \intersect {1}

(* The words of an item, each with whether the search looks at it.  It does  *)
(* not where "function" or "error" comes before it, in a tag, or on a line   *)
(* that holds a quotation mark (of = "quoted"), and wants a dot, a bracket   *)
(* or a space after it, but in a list of bases: Q[], type(Q) or => Q) end    *)
(* otherwise (of = "tight").                                                 *)
Sought(item) ==
    LET words == Words(item)
    IN [j \in DOMAIN words |->
           [word |-> words[j],
            found |-> IF item.is \in Uses
                      THEN item.of # "quoted" /\ (item.of = "tight" => j < Len(words))
                      ELSE item.is \notin {"function", "error", "doc"}]]

Searched(items) == FlattenSeq([k \in DOMAIN items |-> Sought(items[k])])

Renamed(text, alias) ==
    [j \in DOMAIN text |->
        IF text[j].found /\ text[j].word = alias.alias THEN [text[j] EXCEPT !.word = alias.target] ELSE text[j]]

Shown(text) == [j \in DOMAIN text |-> text[j].word]

(* A mutant takes the alias for the target. *)
AliasesSwapped(items) ==
    FlattenSeq([k \in DOMAIN items |->
        IF items[k].is = "import"
        THEN [n \in DOMAIN items[k].of.aliases |->
                [alias |-> items[k].of.aliases[n].target, target |-> items[k].of.aliases[n].alias]]
        ELSE <<>>])

(* Names the imports give to what they import, in the order of the imports.  *)
Aliases(items) ==
    FlattenSeq([k \in DOMAIN items |-> IF items[k].is = "import" THEN items[k].of.aliases ELSE <<>>])

(* One file, in the order of the result. *)
ScanFile ==
    /\ queue # <<>>
    /\ LET f == Head(queue)
           items == program[f]
           cut == LastOf(items, "version") \union LastExperimental(items)
                      \union FirstLine(items) \union Places(items, {"import"})
           kept == Edited(Searched(items), {Erasure(items, k) : k \in cut})
       IN /\ scanned' = (f :> <<Word(f)>> \o Shown(FoldLeft(Renamed, kept, Aliases(items)))) @@ scanned
          /\ scanHead' =
               [license |-> IF f = Target /\ FirstLine(items) # {} THEN NameOf(items, 1) ELSE scanHead.license,
                versions |-> scanHead.versions \union {NameOf(items, k) : k \in LastOf(items, "version")},
                feature |-> IF scanHead.feature = None /\ LastExperimental(items) # {}
                            THEN NameOf(items, CHOOSE k \in LastExperimental(items) : TRUE)
                            ELSE scanHead.feature]
    /\ queue' = Tail(queue)
    /\ UNCHANGED program

ScanSpec == ScanInit /\ [][ScanFile]_scanVars

Scanned == queue = <<>>
=============================================================================
