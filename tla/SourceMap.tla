------------------------------ MODULE SourceMap ------------------------------
(***************************************************************************)
(* Reading a source map (artifacts/solc/src/sourcemap.rs): elements of five *)
(* fields, in which a field that is left out has the value it has in the   *)
(* element before.  Jump and modifier depth share a word, and the index of *)
(* a source is kept in a signed word in which -1 is no source.             *)
(***************************************************************************)
EXTENDS Integers, Sequences, SequencesExt

CONSTANTS
    WrittenElements,   \* what the elements of a map may say: of each field {} or its value
    MaxElements,
    DepthLimit         \* 2^30: depths that fit beside the jump; a word holds four times as many

FieldOrder == <<"offset", "length", "index", "jump", "depth">>
Jumps == <<"in", "out", "regular">>
WordLimit == 4 * DepthLimit

ASSUME ElementsAreOptions ==
    \A b \in WrittenElements :
        /\ b = [f \in ToSet(FieldOrder) |-> b[f]]
        /\ \A f \in ToSet(FieldOrder) : \A v, w \in b[f] : v = w
        /\ \A f \in ToSet(FieldOrder) \ {"jump"} : b[f] \subseteq Nat \cup {-1}
        /\ b["jump"] \subseteq ToSet(Jumps)
ASSUME WordsAreWords == DepthLimit \in Nat \ {0} /\ MaxElements \in Nat

VARIABLES
    written,     \* the elements the compiler wrote
    position,    \* how many of their texts the lexer has returned
    ended,       \* Parser::done
    last,        \* last_element
    elements,    \* those returned
    refused      \* an error was returned, the last thing collect asks for

mapVars == <<written, position, ended, last, elements, refused>>

Mark(m) == [is |-> m, value |-> 0]
Number(n) == [is |-> "number", value |-> n]

-----------------------------------------------------------------------------
(* How an element is written: the tokens of its fields with colons between   *)
(* them, none after the last field that is there.  Semicolons separate the   *)
(* texts of elements.                                                        *)
FieldText(b, field) == {IF field = "jump" THEN Mark(v) ELSE Number(v) : v \in b[field]}

ElementText(b) ==
    LET there == {i \in DOMAIN FieldOrder : b[FieldOrder[i]] # {}}
        upTo == IF there = {} THEN 0 ELSE CHOOSE i \in there : \A j \in there : j <= i
    IN  [i \in 1 .. upTo |-> FieldText(b, FieldOrder[i])]

-----------------------------------------------------------------------------
(* A SourceElement. *)
Packed(jump, depth) == ((CHOOSE i \in DOMAIN Jumps : Jumps[i] = jump) - 1) * DepthLimit + depth
Signed(n) == IF n >= 2 * DepthLimit THEN n - WordLimit ELSE n

Element == [offset |-> 0, length |-> 0, index |-> -1, word |-> Packed("in", 0)]

JumpOf(e) == Jumps[(e.word \div DepthLimit) + 1]
DepthOf(e) == e.word % DepthLimit
IndexOf(e) == IF e.index = -1 THEN -1 ELSE e.index % WordLimit

(* A SourceElementBuilder without a field, and an error. *)
NoField == [f \in ToSet(FieldOrder) |-> {}]
Bad == <<>>

SetField(builder, field, value) ==
    IF builder[field] # {} THEN Bad ELSE [builder EXCEPT ![field] = {value}]

ReadNumber(builder, field, n) ==
    IF field = "jump" \/ n < -1 \/ n >= WordLimit THEN Bad
    ELSE SetField(builder, field, IF n = -1 /\ field # "index" THEN 0 ELSE n)

ReadToken(builder, field, t) ==
    IF t.is = "number" THEN ReadNumber(builder, field, t.value) ELSE SetField(builder, "jump", t.is)

(* After so many colons; there is no state for a sixth field. *)
ReadField(builder, n, tokens) ==
    IF builder = Bad THEN Bad
    ELSE IF n > Len(FieldOrder) THEN Bad
    ELSE IF tokens = {} THEN builder
    ELSE ReadToken(builder, FieldOrder[n], CHOOSE t \in tokens : TRUE)

Reading(text) ==
    LET run[n \in 0 .. Len(text)] ==
            IF n = 0 THEN NoField ELSE ReadField(run[n - 1], n, text[n])
    IN  run

Value(option, default) == IF option = {} THEN default ELSE CHOOSE v \in option : TRUE

(* Mutant: a depth may reach the bits of the jump. *)
TooDeepByOne(b) == \E d \in b["depth"] : d > DepthLimit

TooDeep(b) == \E d \in b["depth"] : d > DepthLimit - 1

(* SourceElementBuilder::finish *)
Finish(b, prev) ==
    [offset |-> Value(b["offset"], prev.offset),
     length |-> Value(b["length"], prev.length),
     index |-> IF b["index"] = {} THEN prev.index ELSE Signed(Value(b["index"], 0)),
     word |-> Packed(Value(b["jump"], JumpOf(prev)), Value(b["depth"], DepthOf(prev)))]

-----------------------------------------------------------------------------
(* One element without a field has no text, as a map without elements. *)
MapInit ==
    /\ written \in UNION {[1 .. n -> WrittenElements] : n \in 0 .. MaxElements}
    /\ Len(written) = 1 => ElementText(written[1]) # <<>>
    /\ position = 0
    /\ ended = (written = <<>>)
    /\ last = Element
    /\ elements = <<>>
    /\ refused = FALSE

(* One call of Parser::advance: the tokens up to a semicolon or the end.     *)
Advance ==
    /\ ~refused /\ ~ended
    /\ position' = position + 1
    /\ ended' = (position' = Len(written))
    /\ LET text == ElementText(written[position'])
           builder == Reading(text)[Len(text)]
           element == Finish(builder, last)
       IN  IF builder = Bad \/ TooDeep(builder)
           THEN refused' = TRUE /\ UNCHANGED <<elements, last>>
           ELSE /\ elements' = Append(elements, element)
                /\ last' = element
                /\ refused' = FALSE
    /\ UNCHANGED written

MapNext == Advance

MapSpec == MapInit /\ [][MapNext]_mapVars

-----------------------------------------------------------------------------
Unsaid(field) == CASE field = "index" -> -1 [] field = "jump" -> "in" [] OTHER -> 0

(* Of anything but the jump, -1 says nothing: there is no source for it. *)
Meant(field, v) == IF field # "jump" /\ v = -1 THEN Unsaid(field) ELSE v

(* What an element says of a field: what was written of it last. *)
Said(map, i, field) ==
    LET told == {j \in 1 .. i : map[j][field] # {}}
    IN  IF told = {} THEN Unsaid(field)
        ELSE Meant(field, CHOOSE v \in map[CHOOSE j \in told : \A k \in told : k <= j][field] : TRUE)

(* The last number a word holds is none. *)
SaidIndex(map, i) ==
    IF Said(map, i, "index") = WordLimit - 1 THEN -1 ELSE Said(map, i, "index")

Fits(b) == /\ \A f \in {"offset", "length", "index"} : \A v \in b[f] : v < WordLimit
           /\ \A d \in b["depth"] : d < DepthLimit

(* A map that was read is the one that was written, field by field, however  *)
(* many elements a value was left out of; it is refused just when a number   *)
(* does not fit, and a depth that does not fit never becomes a jump.         *)
ParsedIsMap ==
    /\ refused => \E i \in DOMAIN written : ~Fits(written[i])
    /\ ~refused /\ ended =>
        /\ Len(elements) = Len(written)
        /\ \A i \in DOMAIN written :
              /\ Fits(written[i])
              /\ <<elements[i].offset, elements[i].length>> = <<Said(written, i, "offset"), Said(written, i, "length")>>
              /\ <<IndexOf(elements[i]), JumpOf(elements[i]), DepthOf(elements[i])>>
                    = <<SaidIndex(written, i), Said(written, i, "jump"), Said(written, i, "depth")>>
=============================================================================
