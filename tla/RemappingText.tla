---------------------------- MODULE RemappingText ----------------------------
(***************************************************************************)
(* Remappings as text and relative to a directory, from                     *)
(* src/crates/artifacts/solc/src/remappings/mod.rs.  A text is a sequence   *)
(* of words and of the marks "/", ":" and "=".                              *)
(***************************************************************************)
EXTENDS Naturals, Sequences, SequencesExt

NoContext == <<"absent">>          \* None
Invalid == [context |-> NoContext, name |-> <<>>, path |-> <<>>]   \* an Err

\* Path::new and Path::display; a trailing separator is no component.
HasRoot(text) == text # <<>> /\ Head(text) = "/"
Components(text) == SelectSeq(text, LAMBDA w : w # "/")
Joined(comps) ==
    FoldLeft(LAMBDA t, c : (IF t = <<>> THEN t ELSE Append(t, "/")) \o <<c>>, <<>>, comps)
Absolute(comps) == <<"/">> \o Joined(comps)

Slashed(text) == IF text # <<>> /\ Last(text) = "/" THEN text ELSE Append(text, "/")

Blank(text) == text = <<>>

\* str::split_once: the text before and after the first mark.
Occurs(text, mark) == \E i \in DOMAIN text : text[i] = mark
FirstOf(text, mark) ==
    CHOOSE i \in DOMAIN text : text[i] = mark /\ \A j \in 1 .. i - 1 : text[j] # mark
BeforeMark(text, mark) == SubSeq(text, 1, FirstOf(text, mark) - 1)
AfterMark(text, mark) == SubSeq(text, FirstOf(text, mark) + 1, Len(text))

\* Remapping::from_str; the context of ":name=path" is dropped.
Parsed(text) ==
    LET head == BeforeMark(text, "=")
        scoped == Occurs(head, ":")
        name == IF scoped THEN AfterMark(head, ":") ELSE head
        path == AfterMark(text, "=")
    IN  IF ~Occurs(text, "=") \/ Blank(name) \/ Blank(path) THEN Invalid
        ELSE [context |-> IF scoped /\ ~Blank(BeforeMark(head, ":"))
                          THEN BeforeMark(head, ":") ELSE NoContext,
              name |-> name, path |-> path]

Scope(context) == IF context = NoContext THEN <<>> ELSE Append(context, ":")

\* Display for Remapping.
Shown(r) == Slashed(Scope(r.context) \o Slashed(r.name) \o <<"=">> \o r.path)

\* RelativeRemappingPathBuf::with_root and ::relative.
WithRoot(root, text) ==
    IF HasRoot(text) /\ IsPrefix(root, Components(text))
    THEN [parent |-> Absolute(root),
          path |-> Joined(SubSeq(Components(text), Len(root) + 1, Len(Components(text))))]
    ELSE IF HasRoot(text) THEN [parent |-> NoContext, path |-> text]
    ELSE [parent |-> Absolute(root), path |-> text]

RelativePath(p) ==
    IF HasRoot(p.path) \/ p.parent = NoContext THEN p.path
    ELSE IF p.path = <<>> THEN Slashed(p.parent)
    ELSE Slashed(p.parent) \o p.path

\* RelativeRemapping::new and the conversions back.
Relative(r, root) ==
    [context |-> IF r.context = NoContext THEN NoContext ELSE WithRoot(root, r.context).path,
     name |-> r.name, path |-> WithRoot(root, r.path)]

ToRemapping(rel) ==
    [context |-> rel.context, name |-> Slashed(rel.name), path |-> Slashed(RelativePath(rel.path))]

WithParent(rel, root) == ToRemapping([rel EXCEPT !.path.parent = Absolute(root)])

\* Display and Deserialize for RelativeRemapping: the text forgets the parent.
ShownRelative(rel) == Slashed(Scope(rel.context) \o rel.name \o <<"=">> \o rel.path.path)
Read(text) ==
    LET r == Parsed(text) IN
    [context |-> r.context, name |-> r.name, path |-> [parent |-> NoContext, path |-> r.path]]
=============================================================================
