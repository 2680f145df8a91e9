--------------------------- MODULE SequenceLemmas ---------------------------
(***************************************************************************)
(* Facts on numbers and sequences that proofs about several components     *)
(* need: induction over an interval, for sets of numbers, and with it what *)
(* a sequence of sequences put together holds.                             *)
(***************************************************************************)
EXTENDS Integers, Sequences, SequencesExt, SequenceTheorems, FiniteSetTheorems,
        WellFoundedInduction, TLAPS

-----------------------------------------------------------------------------
(* Numbers *)

(* A set of numbers has a least one. *)
LEMMA LeastNumber ==
    ASSUME NEW S \in SUBSET Nat, S # {}
    PROVE  \E m \in S : \A n \in S : m <= n
<1> DEFINE T == {0 .. n : n \in S}
<1>1. T \subseteq FiniteSubsetsOf(Nat) /\ T # {}
  <2>1. \A n \in S : IsFiniteSet(0 .. n) /\ 0 .. n \subseteq Nat
    BY FS_Interval
  <2> QED
    BY <2>1 DEF FiniteSubsetsOf
<1>2. IsWellFoundedOn(StrictSubsetOrdering(Nat), FiniteSubsetsOf(Nat))
  BY FS_StrictSubsetOrderingWellFounded
<1>3. PICK x \in T : \A y \in T : ~(<<y, x>> \in StrictSubsetOrdering(Nat))
  <2> HIDE DEF T
  <2> QED
    BY <1>1, <1>2, WFMin
<1>4. PICK m \in S : x = 0 .. m
  BY <1>3
<1>5. ASSUME NEW n \in S, n < m
      PROVE  FALSE
  <2>1. 0 .. n \subseteq 0 .. m /\ 0 .. n # 0 .. m
    BY <1>5
  <2>2. <<0 .. n, x>> \in StrictSubsetOrdering(Nat)
    BY <1>4, <2>1 DEF StrictSubsetOrdering
  <2> QED
    BY <2>2, <1>3
<1> QED
  BY <1>5

(* Induction over an interval, for a set of numbers. *)
LEMMA NumbersAreReached ==
    ASSUME NEW N \in Nat, NEW S, 0 \in S,
           \A n \in 0 .. N : n \in S /\ n + 1 <= N => n + 1 \in S
    PROVE  0 .. N \subseteq S
<1> DEFINE Missed == (0 .. N) \ S
<1> SUFFICES ASSUME Missed # {} PROVE FALSE
  OBVIOUS
<1>1. Missed \in SUBSET Nat
  OBVIOUS
<1>2. PICK m \in Missed : \A n \in Missed : m <= n
  <2> HIDE DEF Missed
  <2> QED
    BY <1>1, LeastNumber
<1>3. m \in 0 .. N /\ m # 0 /\ m - 1 \in 0 .. N
  BY <1>2
<1>4. m - 1 \in S
  BY <1>2, <1>3
<1> QED
  BY <1>3, <1>4

-----------------------------------------------------------------------------
(* Sequences *)

LEMMA Tails ==
    ASSUME NEW T, NEW s \in Seq(T), s # <<>>
    PROVE  /\ Tail(s) \in Seq(T)
           /\ Len(s) \in Nat \ {0}
           /\ DOMAIN s = 1 .. Len(s) /\ DOMAIN Tail(s) = 1 .. (Len(s) - 1)
           /\ \A i \in DOMAIN Tail(s) : i + 1 \in DOMAIN s /\ Tail(s)[i] = s[i + 1]
           /\ \A i \in DOMAIN s : i # 1 => i - 1 \in DOMAIN Tail(s) /\ Tail(s)[i - 1] = s[i]
           /\ 1 \in DOMAIN s
           /\ Len(s) > 1 => Tail(s) # <<>>
<1>1. Len(s) \in Nat /\ Len(s) # 0
  BY EmptySeq
<1>2. DOMAIN s = 1 .. Len(s)
  OBVIOUS
<1>3. Tail(s) \in Seq(T) /\ Len(Tail(s)) = Len(s) - 1 /\ \A i \in 1 .. Len(s) - 1 : Tail(s)[i] = s[i + 1]
  BY <1>1, HeadTailProperties
<1>4. DOMAIN Tail(s) = 1 .. (Len(s) - 1)
  BY <1>3
<1>5. ASSUME NEW i \in DOMAIN s, i # 1 PROVE i - 1 \in DOMAIN Tail(s) /\ Tail(s)[i - 1] = s[i]
  BY <1>1, <1>2, <1>3, <1>4, <1>5
<1>6. ASSUME Len(s) > 1 PROVE Tail(s) # <<>>
  <2>1. 1 \in DOMAIN Tail(s)
    BY <1>1, <1>4, <1>6
  <2> QED
    BY <2>1
<1> QED
  BY <1>1, <1>2, <1>3, <1>4, <1>5, <1>6

LEMMA ConcatIs ==
    ASSUME NEW T, NEW s \in Seq(T), NEW t \in Seq(T)
    PROVE  /\ s \o t \in Seq(T)
           /\ DOMAIN s = 1 .. Len(s) /\ DOMAIN t = 1 .. Len(t)
           /\ Len(s) \in Nat /\ Len(t) \in Nat
           /\ DOMAIN (s \o t) = 1 .. (Len(s) + Len(t))
           /\ \A i \in DOMAIN s : (s \o t)[i] = s[i]
           /\ \A i \in DOMAIN t : (s \o t)[Len(s) + i] = t[i]
           /\ \A i \in DOMAIN (s \o t) : i \in DOMAIN s \/ i - Len(s) \in DOMAIN t
<1>1. s \o t \in Seq(T) /\ Len(s \o t) = Len(s) + Len(t)
  BY ConcatProperties
<1>2. Len(s) \in Nat /\ Len(t) \in Nat /\ DOMAIN s = 1 .. Len(s) /\ DOMAIN t = 1 .. Len(t)
  OBVIOUS
<1>3. DOMAIN (s \o t) = 1 .. (Len(s) + Len(t))
  BY <1>1
<1>4. \A i \in DOMAIN s : (s \o t)[i] = s[i]
  BY <1>2, ConcatProperties
<1>5. \A i \in DOMAIN t : (s \o t)[Len(s) + i] = t[i]
  BY <1>2, ConcatProperties
<1>6. \A i \in DOMAIN (s \o t) : i \in DOMAIN s \/ i - Len(s) \in DOMAIN t
  BY <1>2, <1>3
<1> QED
  BY <1>1, <1>2, <1>3, <1>4, <1>5, <1>6

(* The elements, and that a key tells them apart, of two sequences in a row. *)
KeysDiffer(s, key) == \A i, j \in DOMAIN s : key[s[i]] = key[s[j]] => i = j

LEMMA ElementsOf ==
    ASSUME NEW T, NEW s \in Seq(T)
    PROVE  ToSet(s) \subseteq T
  BY DEF ToSet

LEMMA NothingDiffers ==
    ASSUME NEW T, NEW key
    PROVE  <<>> \in Seq(T) /\ ToSet(<<>>) = {} /\ KeysDiffer(<<>>, key)
  BY DEF ToSet, KeysDiffer

LEMMA ConcatKeepsApart ==
    ASSUME NEW T, NEW s \in Seq(T), NEW t \in Seq(T), NEW key
    PROVE  /\ s \o t \in Seq(T)
           /\ ToSet(s \o t) = ToSet(s) \cup ToSet(t)
           /\ (/\ KeysDiffer(s, key) /\ KeysDiffer(t, key)
               /\ \A x \in ToSet(s), y \in ToSet(t) : key[x] # key[y])
              => KeysDiffer(s \o t, key)
<1>1. /\ s \o t \in Seq(T)
      /\ DOMAIN s = 1 .. Len(s) /\ DOMAIN t = 1 .. Len(t)
      /\ Len(s) \in Nat /\ Len(t) \in Nat
      /\ DOMAIN (s \o t) = 1 .. (Len(s) + Len(t))
      /\ \A i \in DOMAIN s : (s \o t)[i] = s[i]
      /\ \A i \in DOMAIN t : (s \o t)[Len(s) + i] = t[i]
      /\ \A i \in DOMAIN (s \o t) : i \in DOMAIN s \/ i - Len(s) \in DOMAIN t
  BY ConcatIs
<1> PICK u : u = s \o t
  OBVIOUS
<1> DEFINE First(i) == i \in DOMAIN s /\ u[i] = s[i]
           Second(i) == i - Len(s) \in DOMAIN t /\ u[i] = t[i - Len(s)]
<1>2. ASSUME NEW i \in DOMAIN u
      PROVE  First(i) \/ Second(i)
  BY <1>1, <1>2
<1>3. ToSet(u) = ToSet(s) \cup ToSet(t)
  <2>1. \A i \in DOMAIN s : i \in DOMAIN u /\ u[i] = s[i]
    BY <1>1
  <2>2. \A i \in DOMAIN t : Len(s) + i \in DOMAIN u /\ u[Len(s) + i] = t[i]
    BY <1>1
  <2>3. ASSUME NEW x \in ToSet(u) PROVE x \in ToSet(s) \cup ToSet(t)
    <3>1. PICK i \in DOMAIN u : x = u[i]
      BY <2>3 DEF ToSet
    <3>2. First(i) \/ Second(i)
      BY <1>2
    <3> QED
      BY <3>1, <3>2 DEF ToSet
  <2>4. ToSet(s) \subseteq ToSet(u) /\ ToSet(t) \subseteq ToSet(u)
    BY <2>1, <2>2 DEF ToSet
  <2> QED
    BY <2>3, <2>4
<1>4. ASSUME KeysDiffer(s, key), KeysDiffer(t, key),
             \A x \in ToSet(s), y \in ToSet(t) : key[x] # key[y],
             NEW i \in DOMAIN u, NEW j \in DOMAIN u, key[u[i]] = key[u[j]]
      PROVE  i = j
  <2>1. i \in Int /\ j \in Int /\ Len(s) \in Int
    BY <1>1
  <2>2. CASE First(i) /\ First(j)
    BY <1>4, <2>2 DEF KeysDiffer
  <2>3. CASE Second(i) /\ Second(j)
    <3>1. i - Len(s) = j - Len(s)
      BY <1>4, <2>3 DEF KeysDiffer
    <3> QED
      BY <2>1, <3>1
  <2>4. \A x \in DOMAIN s, y \in DOMAIN t : key[s[x]] # key[t[y]]
    BY <1>4 DEF ToSet
  <2>5. ~(First(i) /\ Second(j)) /\ ~(First(j) /\ Second(i))
    BY <1>4, <2>4
  <2> HIDE DEF First, Second
  <2> QED
    BY <1>2, <2>2, <2>3, <2>5
<1> QED
  BY <1>1, <1>3, <1>4 DEF KeysDiffer

(* FlattenSeq: the first sequences put together are those before the last,   *)
(* and the last.                                                             *)
LEMMA FlattenIsFunction ==
    ASSUME NEW seqs, NEW N \in Nat, N = Len(seqs), N # 0
    PROVE  \E w : /\ FlattenSeq(seqs) = w[N]
                 /\ \A k \in 1 .. N : w[k] = IF k = 1 THEN seqs[k] ELSE w[k - 1] \o seqs[k]
<1> DEFINE Equation(w, k) == w[k] = IF k = 1 THEN seqs[k] ELSE w[k - 1] \o seqs[k]
           Reached == {n \in 0 .. N : \E w : \A k \in 1 .. n : Equation(w, k)}
<1>1. 0 \in Reached
  OBVIOUS
<1>2. ASSUME NEW n \in 0 .. N, n \in Reached, n + 1 <= N
      PROVE  n + 1 \in Reached
  <2>1. PICK w : \A k \in 1 .. n : Equation(w, k)
    BY <1>2
  <2> DEFINE u == [k \in 1 .. (n + 1) |->
                      IF k = n + 1 THEN IF k = 1 THEN seqs[k] ELSE w[n] \o seqs[k] ELSE w[k]]
  <2>2. \A k \in 1 .. n : u[k] = w[k]
    OBVIOUS
  <2>3. u[n + 1] = IF n + 1 = 1 THEN seqs[n + 1] ELSE w[n] \o seqs[n + 1]
    OBVIOUS
  <2>4. \A k \in 1 .. n : Equation(u, k)
    <3> HIDE DEF u
    <3> QED
      BY <2>1, <2>2
  <2>5. Equation(u, n + 1)
    <3> HIDE DEF u
    <3> QED
      BY <2>2, <2>3
  <2>6. \A k \in 1 .. (n + 1) : Equation(u, k)
    <3> HIDE DEF Equation, u
    <3> QED
      BY <2>4, <2>5
  <2>7. n + 1 \in 0 .. N
    BY <1>2
  <2> HIDE DEF Equation, u
  <2> QED
    BY <2>6, <2>7
<1>3. N \in Reached
  <2> HIDE DEF Reached
  <2>1. 0 .. N \subseteq Reached
    BY <1>1, <1>2, NumbersAreReached
  <2> QED
    BY <2>1
<1>4. PICK w : \A k \in 1 .. N : Equation(w, k)
  BY <1>3
<1> DEFINE Rule(v) == [k \in 1 .. N |-> IF k = 1 THEN seqs[k] ELSE v[k - 1] \o seqs[k]]
<1>5. [k \in 1 .. N |-> w[k]] = Rule([k \in 1 .. N |-> w[k]])
  <2> DEFINE v == [k \in 1 .. N |-> w[k]]
  <2>1. \A k \in 1 .. N : v[k] = w[k] /\ (k # 1 => v[k - 1] = w[k - 1])
    OBVIOUS
  <2>2. \A k \in 1 .. N : v[k] = Rule(v)[k]
    <3> HIDE DEF v
    <3> QED
      BY <1>4, <2>1
  <2>3. DOMAIN Rule(v) = 1 .. N /\ Rule(v) = [k \in 1 .. N |-> Rule(v)[k]]
    <3> HIDE DEF v
    <3> QED
      OBVIOUS
  <2>4. v = [k \in 1 .. N |-> v[k]]
    OBVIOUS
  <2>5. v = Rule(v)
    <3> HIDE DEF Rule, v
    <3>1. [k \in 1 .. N |-> v[k]] = [k \in 1 .. N |-> Rule(v)[k]]
      BY <2>2
    <3> QED
      BY <2>3, <2>4, <3>1
  <2> HIDE DEF Rule
  <2> QED
    BY <2>5
<1>6. PICK f : f = CHOOSE v : v = Rule(v)
  OBVIOUS
<1>7. FlattenSeq(seqs) = f[N]
  BY <1>6 DEF FlattenSeq
<1>8. f = Rule(f)
  <2> HIDE DEF Rule
  <2> QED
    BY <1>5, <1>6
<1>9. \A k \in 1 .. N : f[k] = IF k = 1 THEN seqs[k] ELSE f[k - 1] \o seqs[k]
  BY <1>8
<1> QED
  BY <1>7, <1>9

(* Its elements are those of the sequences, and a key that tells them apart  *)
(* in each and across them does in the whole.                                *)
TellsApart(key, T, seqs, N) ==
    /\ N \in Nat /\ N = Len(seqs) /\ DOMAIN seqs = 1 .. N
    /\ \A k \in 1 .. N : seqs[k] \in Seq(T) /\ KeysDiffer(seqs[k], key)
    /\ \A k, l \in 1 .. N : \A x \in ToSet(seqs[k]), y \in ToSet(seqs[l]) :
          key[x] = key[y] => k = l

LEMMA FlattenKeepsApart ==
    ASSUME NEW T, NEW seqs, NEW N, NEW key, TellsApart(key, T, seqs, N)
    PROVE  /\ FlattenSeq(seqs) \in Seq(T)
           /\ \A x \in ToSet(FlattenSeq(seqs)) : \E k \in 1 .. N : x \in ToSet(seqs[k])
           /\ KeysDiffer(FlattenSeq(seqs), key)
<1> USE DEF TellsApart
<1>1. CASE N = 0
  <2>1. FlattenSeq(seqs) = seqs /\ DOMAIN seqs = {}
    BY <1>1 DEF FlattenSeq
  <2>2. seqs \in Seq(T)
    <3>1. seqs = <<>>
      BY <2>1, <1>1
    <3> QED
      BY <3>1
  <2> QED
    BY <1>1, <2>1, <2>2 DEF ToSet, KeysDiffer
<1>2. CASE N # 0
  <2>1. PICK w : /\ FlattenSeq(seqs) = w[N]
                 /\ \A k \in 1 .. N : w[k] = IF k = 1 THEN seqs[k] ELSE w[k - 1] \o seqs[k]
    BY <1>2, FlattenIsFunction
  <2> DEFINE Good == {n \in 0 .. N : n # 0 =>
                        /\ w[n] \in Seq(T)
                        /\ \A x \in ToSet(w[n]) : \E k \in 1 .. n : x \in ToSet(seqs[k])
                        /\ KeysDiffer(w[n], key)}
  <2>2. 0 \in Good
    OBVIOUS
  <2>3. ASSUME NEW n \in 0 .. N, n \in Good, n + 1 <= N
        PROVE  n + 1 \in Good
    <3>1. n + 1 \in 1 .. N /\ n + 1 \in 0 .. N /\ n + 1 # 0
      BY <2>3
    <3>2. CASE n = 0
      <4>1. n + 1 = 1 /\ w[1] = seqs[1]
        BY <1>2, <2>1, <3>2
      <4>2. \A x \in ToSet(seqs[1]) : \E k \in 1 .. 1 : x \in ToSet(seqs[k])
        OBVIOUS
      <4>3. seqs[1] \in Seq(T) /\ KeysDiffer(seqs[1], key)
        BY <3>1, <4>1
      <4> QED
        BY <3>1, <4>1, <4>2, <4>3
    <3>3. CASE n # 0
      <4>1. w[n + 1] = w[n] \o seqs[n + 1]
        <5>1. n + 1 # 1 /\ (n + 1) - 1 = n
          BY <3>3
        <5> QED
          BY <2>1, <3>1, <5>1
      <4>2. /\ w[n] \in Seq(T) /\ KeysDiffer(w[n], key)
            /\ \A x \in ToSet(w[n]) : \E k \in 1 .. n : x \in ToSet(seqs[k])
        BY <2>3, <3>3
      <4>3. seqs[n + 1] \in Seq(T) /\ KeysDiffer(seqs[n + 1], key)
        BY <3>1
      <4>4. ASSUME NEW x \in ToSet(w[n]), NEW y \in ToSet(seqs[n + 1])
            PROVE  key[x] # key[y]
        <5>1. PICK k \in 1 .. n : x \in ToSet(seqs[k])
          BY <4>2, <4>4
        <5>2. k \in 1 .. N /\ k # n + 1
          BY <3>1
        <5> QED
          BY <3>1, <4>4, <5>1, <5>2
      <4>5. /\ w[n + 1] \in Seq(T)
            /\ ToSet(w[n + 1]) = ToSet(w[n]) \cup ToSet(seqs[n + 1])
            /\ KeysDiffer(w[n + 1], key)
        <5> PICK s, t : s = w[n] /\ t = seqs[n + 1]
          OBVIOUS
        <5>1. /\ s \in Seq(T) /\ t \in Seq(T) /\ KeysDiffer(s, key) /\ KeysDiffer(t, key)
              /\ \A x \in ToSet(s), y \in ToSet(t) : key[x] # key[y]
          BY <4>2, <4>3, <4>4
        <5>2. /\ s \o t \in Seq(T)
              /\ ToSet(s \o t) = ToSet(s) \cup ToSet(t)
              /\ KeysDiffer(s \o t, key)
          BY <5>1, ConcatKeepsApart
        <5> QED
          BY <4>1, <5>2
      <4>6. ASSUME NEW x \in ToSet(w[n + 1])
            PROVE  \E k \in 1 .. (n + 1) : x \in ToSet(seqs[k])
        <5>1. CASE x \in ToSet(w[n])
          <6>1. PICK k \in 1 .. n : x \in ToSet(seqs[k])
            BY <4>2, <5>1
          <6>2. k \in 1 .. (n + 1)
            OBVIOUS
          <6> QED
            BY <6>1, <6>2
        <5>2. CASE x \in ToSet(seqs[n + 1])
          BY <3>1, <5>2
        <5> QED
          BY <4>5, <4>6, <5>1, <5>2
      <4> QED
        BY <3>1, <4>2, <4>5, <4>6
    <3> QED
      BY <3>2, <3>3
  <2>4. N \in Good
    <3> HIDE DEF Good
    <3>1. 0 .. N \subseteq Good
      BY <2>2, <2>3, NumbersAreReached
    <3> QED
      BY <3>1
  <2> QED
    BY <1>2, <2>1, <2>4
<1> QED
  BY <1>1, <1>2

=============================================================================
