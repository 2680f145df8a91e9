------------------------------- MODULE Linking -------------------------------
(***************************************************************************)
(* Linking a contract's bytecode (artifacts/solc/src/bytecode.rs).  Code   *)
(* that uses libraries is text with placeholders, which calls replace by   *)
(* addresses one library at a time; when no reference is left the text is  *)
(* decoded.  A library is <<file, name>>; a placeholder is made from a     *)
(* hash of both, or by older compilers from the first 36 characters of     *)
(* them, which different libraries may share.                              *)
(***************************************************************************)
EXTENDS Naturals, Sequences

CONSTANTS
    Compiled,      \* code as compilers give it: sequences of Plain and placeholders
    Prefix,        \* [library -> the first 36 characters of file and name]
    Colons,        \* the files with a colon in their path
    Addresses,
    MaxListed,     \* a bound on the libraries of one call
    MaxLinks       \* a bound on the calls

VARIABLES
    original,      \* the code before the first call
    code, references, decoded,
    reply,         \* what the last call returned
    given,         \* [library -> the first address a call was given for it]
    listed,        \* how many libraries the last call was given
    calls

linkVars == <<original, code, references, decoded, reply, given, listed, calls>>

Known == DOMAIN Prefix
Plain == [is |-> "code", of |-> "none"]
AddressOf(address) == [is |-> "address", of |-> address]
Unlinked(words) == {i \in DOMAIN words : words[i].is \in {"hash", "name"}}
Referenced(words) == {words[i].of : i \in Unlinked(words)}

ASSUME ListsAreBounded == MaxListed \in Nat

-----------------------------------------------------------------------------
(* BytecodeObject::link_fully_qualified *)
Matches(word, lib) ==
    \/ word.is = "hash" /\ word.of = lib
    \/ word.is = "name" /\ Prefix[word.of] = Prefix[lib]

Replaced(words, lib, address) ==
    [i \in DOMAIN words |-> IF Matches(words[i], lib) THEN AddressOf(address) ELSE words[i]]

OfFile(file) == {lib \in Known : lib[1] = file}

Bytecode(words, refs, isCode, says, addresses) ==
    [code |-> words, references |-> refs, decoded |-> isCode, reply |-> says, given |-> addresses]

Replied(s, says) == [s EXCEPT !.reply = says]

(* Mutant: the other libraries of the file are not referred to any more. *)
LinkedFileOnce(s, lib, address) ==
    LET left == s.references \ OfFile(lib[1])
        words == IF lib \in s.references THEN Replaced(s.code, lib, address) ELSE s.code
        done == left = {} /\ Unlinked(words) = {}
    IN  IF s.decoded THEN Replied(s, TRUE)
        ELSE IF OfFile(lib[1]) \cap s.references = {} THEN Replied(s, FALSE)
        ELSE Bytecode(words, left, done, done, s.given)

(* Bytecode::link: TRUE when all is linked.  The text is decoded when no     *)
(* reference is left, if it can be.                                          *)
Linked(s, lib, address) ==
    LET left == s.references \ {lib}
        words == IF lib \in s.references THEN Replaced(s.code, lib, address) ELSE s.code
        done == left = {} /\ Unlinked(words) = {}
    IN  IF s.decoded THEN Replied(s, TRUE)
        ELSE IF OfFile(lib[1]) \cap s.references = {} THEN Replied(s, FALSE)
        ELSE Bytecode(words, left, done, done, s.given)

Given(g, lib, address) ==
    [l \in DOMAIN g \cup {lib} |-> IF l \in DOMAIN g THEN g[l] ELSE address]

(* One call, by file and library or by a full name, which is split at its    *)
(* first colon.                                                              *)
Called(s, lib, address, byName) ==
    IF byName /\ lib[1] \in Colons THEN Replied(s, s.decoded)
    ELSE [Linked(s, lib, address) EXCEPT !.given = Given(s.given, lib, address)]

(* link_all stops at the first call that returns TRUE; given no library, it  *)
(* returns FALSE, be the code linked or not.                                 *)
CalledUnlessDone(s, pair, byName) == IF s.reply THEN s ELSE Called(s, pair[1], pair[2], byName)

Calls(s, libs, byName) ==
    LET run[n \in 0 .. Len(libs)] ==
            IF n = 0 THEN Replied(s, FALSE) ELSE CalledUnlessDone(run[n - 1], libs[n], byName)
    IN  run

CalledAll(s, libs, byName) == Calls(s, libs, byName)[Len(libs)]

-----------------------------------------------------------------------------
LinkInit ==
    /\ original \in Compiled
    /\ code = original
    /\ references = Referenced(original)
    /\ decoded = (Unlinked(original) = {})
    /\ reply = FALSE /\ given = <<>> /\ listed = 0 /\ calls = 0

Now == Bytecode(code, references, decoded, reply, given)

Become(s, n) ==
    /\ calls < MaxLinks
    /\ calls' = calls + 1 /\ listed' = n
    /\ code' = s.code /\ references' = s.references
    /\ decoded' = s.decoded /\ reply' = s.reply /\ given' = s.given
    /\ UNCHANGED original

Lists == UNION {[1 .. n -> Known \X Addresses] : n \in 0 .. MaxListed}

Link(lib, address) == Become(Called(Now, lib, address, FALSE), 1)
LinkFullyQualified(lib, address) == Become(Called(Now, lib, address, TRUE), 1)
LinkAll(libs) == Become(CalledAll(Now, libs, FALSE), Len(libs))
LinkAllFullyQualified(libs) == Become(CalledAll(Now, libs, TRUE), Len(libs))

LinkNext ==
    \/ \E lib \in Known, address \in Addresses :
           Link(lib, address) \/ LinkFullyQualified(lib, address)
    \/ \E libs \in Lists : LinkAll(libs) \/ LinkAllFullyQualified(libs)

LinkSpec == LinkInit /\ [][LinkNext]_linkVars

-----------------------------------------------------------------------------
Shared(word) ==
    word.is = "name" /\ \E lib \in Referenced(original) \ {word.of} : Prefix[lib] = Prefix[word.of]

(* However the calls are split and repeated: the code is decoded, and they   *)
(* say so, once every library it refers to was given an address, and then    *)
(* each placeholder is the first address given to its own library, as long   *)
(* as no other library has that placeholder.  A call that is given no        *)
(* library says that the code is not linked also when it is.                 *)
LinkedIsPlaced ==
    /\ decoded <=> Referenced(original) \subseteq DOMAIN given
    /\ reply <=> listed > 0 /\ decoded
    /\ decoded => \A i \in DOMAIN code :
           ~Shared(original[i]) =>
               code[i] = IF i \in Unlinked(original) THEN AddressOf(given[original[i].of]) ELSE original[i]
=============================================================================
