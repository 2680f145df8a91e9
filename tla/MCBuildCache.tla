---------------------------- MODULE MCBuildCache ----------------------------
(* Small instances of BuildCache for TLC. *)
EXTENDS BuildCache, TLC

CONSTANTS a, b, d, c1, c2, c3, v1, v2, p1, p2, s1, s2

(* a imports b unless its content is c2. *)
MCWants == [f \in Files |-> [c \in Contents |-> IF f = a /\ c # c2 THEN {b} \cap Files ELSE {}]]

(* a imports b, whatever its content. *)
MCWantsB == [f \in Files |-> [c \in Contents |-> IF f = a THEN {b} \cap Files ELSE {}]]
MCNoFallback == [f \in Files |-> None]
(* When b is missing, an import of it resolves to d, in the next library. *)
MCFallback == [f \in Files |-> IF f = b /\ d \in Files THEN d ELSE None]
MCNoStrict == {}
MCStrictB == {b}
MCNoBare == {}

(* b declares no contract when its content is c2. *)
MCBareB == {<<b, c2>>}

(* The user only edits existing files and builds the whole project. *)
CrashNext ==
    \/ \E useCache \in CacheModes : WithSources([u \in Units |-> Files], useCache)
    \/ Advance
    \/ \E f \in Files, c \in Contents : Edit(f, c)
    \/ Cleanup
    \/ Crash

CrashInit == Init /\ Exists(src) = Files

CrashSpec == CrashInit /\ [][CrashNext]_vars

(* Every unit compiles the whole project or nothing, and the user creates,
   deletes and reconfigures. *)
UnitsNext ==
    \/ \E us \in SUBSET Units :
           WithSources([u \in Units |-> IF u \in us THEN Exists(src) ELSE {}], TRUE)
    \/ Advance
    \/ \E f \in Files, c \in Contents \cup {None} : Edit(f, c)
    \/ \E p \in Profiles, s \in Settings : ChangeSettings(p, s)

UnitsSpec == Init /\ [][UnitsNext]_vars

ContentSymmetry == Permutations(Contents)
=============================================================================
