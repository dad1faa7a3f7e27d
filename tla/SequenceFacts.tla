--------------------------- MODULE SequenceFacts ---------------------------
(***************************************************************************)
(* Facts about natural numbers and sequences that the proofs of Parser and *)
(* Resize need: induction over the naturals with a set in the place of a   *)
(* predicate, the solution of a fold, the first place of an element, the   *)
(* operators of SequencesExt that the modules use, powers and remainders.  *)
(***************************************************************************)
EXTENDS Integers, Powers, SequencesExt, SequenceTheorems, NaturalsInduction, WellFoundedInduction, TLAPS

\* A set with 0 and the successors of its elements has every natural number.
LEMMA SetInduction ==
    ASSUME NEW T, T \subseteq Nat, 0 \in T, \A n \in T : n + 1 \in T
    PROVE  T = Nat
<1> DEFINE U == Nat \ T
<1>1. SUFFICES ASSUME U # {} PROVE FALSE
    OBVIOUS
<1>2. PICK x \in U : \A y \in U : ~(<<y, x>> \in OpToRel(<, Nat))
    <2>1. IsWellFoundedOn(OpToRel(<, Nat), Nat)
        BY NatLessThanWellFounded
    <2>2. U \subseteq Nat
        OBVIOUS
    <2> QED
        BY <1>1, <2>1, <2>2, WFMin
<1>3. x # 0 /\ x \in Nat
    BY <1>2
<1>4. x - 1 \in Nat /\ x - 1 < x
    BY <1>3
<1>5. x - 1 \notin U
    BY <1>2, <1>3, <1>4 DEF OpToRel
<1>6. x - 1 \in T
    BY <1>4, <1>5
<1>7. (x - 1) + 1 = x
    BY <1>3
<1> QED
    BY <1>2, <1>6, <1>7

\* A set of natural numbers that has an element has a least one.
LEMMA LeastNat ==
    ASSUME NEW T, T \subseteq Nat, T # {}
    PROVE  Min(T) \in T /\ \A y \in T : Min(T) <= y
<1>1. IsWellFoundedOn(OpToRel(<, Nat), Nat)
    BY NatLessThanWellFounded
<1>2. PICK x \in T : \A y \in T : ~(<<y, x>> \in OpToRel(<, Nat))
    BY <1>1, WFMin
<1>3. \A y \in T : ~(y < x)
    BY <1>2 DEF OpToRel
<1>4. \A y \in T : x <= y
    BY <1>3
<1> QED
    BY <1>4 DEF Min

\* A set of numbers up to n that has an element has a greatest one.
LEMMA GreatestUpTo ==
    ASSUME NEW n \in Nat, NEW T, T \subseteq 1 .. n, T # {}
    PROVE  Max(T) \in T /\ \A y \in T : y <= Max(T)
<1> DEFINE U == {n - t : t \in T}
<1>1. U \subseteq Nat /\ U # {}
    <2>1. \A t \in T : n - t \in Nat
        OBVIOUS
    <2> QED
        BY <2>1
<1>2. Min(U) \in U /\ \A y \in U : Min(U) <= y
    <2> HIDE DEF U
    <2> QED
        BY <1>1, LeastNat
<1>3. PICK x \in T : Min(U) = n - x
    BY <1>2
<1>4. \A y \in T : x >= y
    <2>1. \A y \in T : n - x <= n - y
        BY <1>2, <1>3
    <2>2. \A y \in T : y \in Int
        OBVIOUS
    <2> QED
        BY <2>1, <2>2
<1>5. \E x1 \in T : \A y \in T : x1 >= y
    BY <1>4
<1>6. Max(T) \in T /\ \A y \in T : Max(T) >= y
    BY <1>5 DEF Max
<1> QED
    BY <1>6

-----------------------------------------------------------------------------
(* FoldLeft over a sequence of length n is, by its definition, a function  *)
(* on the subsets of 1 .. n that solves an equation.                       *)

\* Two functions agree on the subsets of 1 .. n.
Agree(f, g, n) == \A x \in SUBSET (1 .. n) : f[x] = g[x]

\* f is what a fold with op, from base, of s[1] to s[n] takes its value from.
Folds(f, op, base, s, n) ==
    \A x \in SUBSET (1 .. n) :
        f[x] = IF x = {} THEN base ELSE op[<<f[x \ {Max(x)}], s[Max(x)]>>]

\* Two functions on the subsets of 1 .. n are equal if they agree on {}, and
\* on a set as soon as they agree on the set without its greatest element.
LEMMA FoldSame ==
    ASSUME NEW n \in Nat, NEW f, NEW g, f[{}] = g[{}],
           \A x \in SUBSET (1 .. n) :
               x # {} /\ f[x \ {Max(x)}] = g[x \ {Max(x)}] => f[x] = g[x]
    PROVE  Agree(f, g, n)
<1> DEFINE T == {k \in Nat : k <= n => \A x \in SUBSET (1 .. k) : f[x] = g[x]}
<1>1. 0 \in T
    <2>1. \A x \in SUBSET (1 .. 0) : x = {}
        OBVIOUS
    <2> QED
        BY <2>1
<1>2. ASSUME NEW k \in T PROVE k + 1 \in T
    <2>1. SUFFICES ASSUME k + 1 <= n, NEW x \in SUBSET (1 .. k + 1), x # {}
                   PROVE  f[x] = g[x]
        OBVIOUS
    <2>2. Max(x) \in x /\ \A y \in x : y <= Max(x)
        <3>1. k + 1 \in Nat /\ x \subseteq 1 .. k + 1
            OBVIOUS
        <3> QED
            BY ONLY <2>1, <3>1, GreatestUpTo
    <2>3. x \ {Max(x)} \subseteq 1 .. k
        <3>1. \A y \in x : y # Max(x) => y \in 1 .. k
            <4>1. k \in Nat /\ Max(x) \in 1 .. k + 1 /\ (\A y \in x : y \in 1 .. k + 1 /\ y <= Max(x))
                BY <2>2
            <4> QED
                BY ONLY <4>1
        <3> QED
            BY <3>1
    <2>4. f[x \ {Max(x)}] = g[x \ {Max(x)}]
        BY <2>1, <2>3
    <2>5. x \in SUBSET (1 .. n)
        BY <2>1
    <2> QED
        BY <2>1, <2>4, <2>5
<1>3. T = Nat
    <2> HIDE DEF T
    <2>1. T \subseteq Nat
        BY DEF T
    <2> QED
        BY <1>1, <1>2, <2>1, SetInduction
<1> QED
    BY <1>3 DEF Agree

\* For an operator that is a function there is a solution.
LEMMA FoldSolution ==
    ASSUME NEW V, NEW D, NEW op \in [V \X D -> V], NEW base \in V,
           NEW n \in Nat, NEW s, \A k \in 1 .. n : s[k] \in D
    PROVE  \E f \in [SUBSET (1 .. n) -> V] : Folds(f, op, base, s, n)
<1> DEFINE Solves(f, k) ==
              /\ f \in [SUBSET (1 .. k) -> V]
              /\ \A x \in SUBSET (1 .. k) :
                     f[x] = IF x = {} THEN base ELSE op[<<f[x \ {Max(x)}], s[Max(x)]>>]
           T == {k \in Nat : k <= n => \E f : Solves(f, k)}
<1>1. 0 \in T
    <2> DEFINE g == [x \in SUBSET (1 .. 0) |-> base]
    <2>1. \A x \in SUBSET (1 .. 0) : x = {}
        OBVIOUS
    <2>2. Solves(g, 0)
        BY <2>1
    <2> HIDE DEF g, Solves
    <2> QED
        BY <2>2
<1>2. ASSUME NEW k \in T PROVE k + 1 \in T
    <2>1. SUFFICES ASSUME k + 1 <= n PROVE \E f : Solves(f, k + 1)
        <3> HIDE DEF Solves
        <3> QED
            OBVIOUS
    <2>2. PICK f : Solves(f, k)
        <3> HIDE DEF Solves
        <3> QED
            BY <2>1
    <2> DEFINE g == [x \in SUBSET (1 .. k + 1) |->
                        IF k + 1 \in x THEN op[<<f[x \ {k + 1}], s[k + 1]>>] ELSE f[x]]
    <2>3. s[k + 1] \in D
        BY <2>1
    <2>4. \A x \in SUBSET (1 .. k + 1) : k + 1 \notin x => x \in SUBSET (1 .. k)
        OBVIOUS
    <2>5. \A x \in SUBSET (1 .. k + 1) : x \ {k + 1} \in SUBSET (1 .. k)
        OBVIOUS
    <2>6. g \in [SUBSET (1 .. k + 1) -> V]
        <3>1. ASSUME NEW x \in SUBSET (1 .. k + 1)
              PROVE  (IF k + 1 \in x THEN op[<<f[x \ {k + 1}], s[k + 1]>>] ELSE f[x]) \in V
            BY <2>2, <2>3, <2>4, <2>5
        <3> QED
            BY <3>1
    <2>7. ASSUME NEW x \in SUBSET (1 .. k + 1)
          PROVE  g[x] = IF x = {} THEN base ELSE op[<<g[x \ {Max(x)}], s[Max(x)]>>]
        <3>1. CASE k + 1 \in x
            <4>1. Max(x) \in x /\ \A y \in x : y <= Max(x)
                <5>1. k + 1 \in Nat /\ x \subseteq 1 .. k + 1 /\ x # {}
                    BY <3>1
                <5> QED
                    BY ONLY <5>1, GreatestUpTo
            <4>2. Max(x) = k + 1
                <5>1. Max(x) \in 1 .. k + 1 /\ k + 1 <= Max(x) /\ k \in Nat
                    BY <3>1, <4>1
                <5> QED
                    BY ONLY <5>1
            <4>3. g[x \ {k + 1}] = f[x \ {k + 1}]
                BY <2>5
            <4>4. g[x] = op[<<f[x \ {k + 1}], s[k + 1]>>]
                BY <3>1
            <4> HIDE DEF g
            <4> QED
                BY <3>1, <4>2, <4>3, <4>4
        <3>2. CASE k + 1 \notin x
            <4>1. x \in SUBSET (1 .. k) /\ g[x] = f[x]
                BY <2>4, <3>2
            <4>2. g[x \ {Max(x)}] = f[x \ {Max(x)}]
                <5>1. k + 1 \notin x \ {Max(x)} /\ x \ {Max(x)} \in SUBSET (1 .. k + 1)
                    BY <3>2
                <5> QED
                    BY <5>1
            <4> HIDE DEF g
            <4> QED
                BY <2>2, <4>1, <4>2
        <3> QED
            BY <3>1, <3>2
    <2> HIDE DEF g
    <2>8. Solves(g, k + 1)
        BY <2>6, <2>7
    <2> QED
        BY <2>8
<1>3. T = Nat
    <2> HIDE DEF T
    <2>1. T \subseteq Nat
        BY DEF T
    <2> QED
        BY <1>1, <1>2, <2>1, SetInduction
<1>4. PICK f : Solves(f, n)
    <2> HIDE DEF Solves
    <2> QED
        BY <1>3
<1> QED
    BY <1>4 DEF Folds

-----------------------------------------------------------------------------
(* The ends and the parts of a sequence.                                   *)

\* A sequence with an element is one with its last element appended.
LEMMA SplitLast ==
    ASSUME NEW S, NEW s \in Seq(S), s # <<>>
    PROVE  \E t \in Seq(S), c \in S : Len(s) = Len(t) + 1 /\ s = Append(t, c)
<1> DEFINE k == Len(s) - 1
           t == SubSeq(s, 1, k)
           c == s[k + 1]
<1>0. k \in Nat /\ Len(s) = k + 1
    OBVIOUS
<1> HIDE DEF k
<1>1. c \in S /\ \A n \in 1 .. k : s[n] \in S
    BY <1>0
<1>2. t \in Seq(S) /\ Len(t) = k /\ \A n \in 1 .. k : t[n] = s[n]
    BY <1>0, <1>1
<1> HIDE DEF t, c
<1>3. /\ Append(t, c) \in Seq(S) /\ Len(Append(t, c)) = k + 1
      /\ \A n \in 1 .. k : Append(t, c)[n] = s[n]
      /\ Append(t, c)[k + 1] = c
    BY <1>0, <1>1, <1>2
<1>4. \A n \in 1 .. Len(s) : s[n] = Append(t, c)[n]
    <2>1. \A n \in 1 .. Len(s) : n \in 1 .. k \/ n = k + 1
        BY <1>0
    <2> QED
        BY <1>3, <2>1 DEF c
<1>5. s = Append(t, c)
    BY <1>0, <1>3, <1>4, SeqEqual
<1> QED
    BY <1>0, <1>1, <1>2, <1>5

\* Appending to the second of two sequences.
LEMMA ConcatAppend ==
    ASSUME NEW S, NEW s \in Seq(S), NEW t \in Seq(S), NEW c \in S
    PROVE  s \o Append(t, c) = Append(s \o t, c)
<1>1. Append(t, c) = t \o <<c>> /\ Append(s \o t, c) = (s \o t) \o <<c>> /\ <<c>> \in Seq(S)
    BY AppendIsConcat, ConcatProperties
<1> QED
    BY <1>1, ConcatAssociative

\* A sequence is what is before a place, what is there, and what is after it.
LEMMA SplitAt ==
    ASSUME NEW S, NEW s \in Seq(S), NEW k \in 1 .. Len(s)
    PROVE  /\ SubSeq(s, 1, k - 1) \in Seq(S) /\ SubSeq(s, k + 1, Len(s)) \in Seq(S)
           /\ s = SubSeq(s, 1, k - 1) \o <<s[k]>> \o SubSeq(s, k + 1, Len(s))
<1>1. k \in Int /\ Len(s) \in Nat /\ s[k] \in S /\ \A n \in 1 .. Len(s) : s[n] \in S
    OBVIOUS
<1>2. SubSeq(s, 1, k - 1) \in Seq(S) /\ SubSeq(s, k + 1, Len(s)) \in Seq(S) /\ <<s[k]>> \in Seq(S)
    BY <1>1
<1>3. s = SubSeq(s, 1, k) \o SubSeq(s, k + 1, Len(s))
    <2>1. 1 \in 1 .. Len(s) + 1 /\ k \in 1 - 1 .. Len(s) /\ Len(s) \in k .. Len(s)
        BY <1>1
    <2>2. SubSeq(s, 1, k) \o SubSeq(s, k + 1, Len(s)) = SubSeq(s, 1, Len(s))
        BY <2>1, ConcatAdjacentSubSeq
    <2> QED
        BY <2>2, SubSeqFull
<1>4. SubSeq(s, 1, k) = SubSeq(s, 1, k - 1) \o <<s[k]>>
    <2>1. 1 \in 1 .. Len(s) /\ k \in 1 .. Len(s)
        BY <1>1
    <2> QED
        BY <2>1, SubSeqRecursiveSecond
<1> QED
    BY <1>2, <1>3, <1>4

-----------------------------------------------------------------------------
(* FlattenSeq.                                                             *)

\* What FlattenSeq does with one more sequence: f is the function it takes
\* its value from, for a sequence of n sequences.
Flattens(f, seqs, n) ==
    f = [i \in 1 .. n |-> IF i = 1 THEN seqs[i] ELSE f[i - 1] \o seqs[i]]

\* There is such a function.
LEMMA FlattenSolution ==
    ASSUME NEW S, NEW n \in Nat, NEW seqs, \A i \in 1 .. n : seqs[i] \in Seq(S)
    PROVE  \E f : Flattens(f, seqs, n)
<1> DEFINE T == {k \in Nat : \E f : Flattens(f, seqs, k)}
<1>1. 0 \in T
    <2> DEFINE g == [i \in 1 .. 0 |-> <<>>]
    <2>1. g = [i \in 1 .. 0 |-> IF i = 1 THEN seqs[i] ELSE g[i - 1] \o seqs[i]]
        OBVIOUS
    <2>2. Flattens(g, seqs, 0)
        BY <2>1 DEF Flattens
    <2> HIDE DEF g
    <2> QED
        BY <2>2
<1>2. ASSUME NEW k \in T PROVE k + 1 \in T
    <2>1. PICK f : Flattens(f, seqs, k)
        OBVIOUS
    <2> DEFINE g == [i \in 1 .. k + 1 |->
                        IF i = 1 THEN seqs[i] ELSE f[i - 1] \o seqs[i]]
    <2>2. \A i \in 1 .. k : g[i] = f[i]
        <3>1. f = [i \in 1 .. k |-> IF i = 1 THEN seqs[i] ELSE f[i - 1] \o seqs[i]]
            BY <2>1 DEF Flattens
        <3>2. \A i \in 1 .. k : f[i] = IF i = 1 THEN seqs[i] ELSE f[i - 1] \o seqs[i]
            BY <3>1
        <3>3. \A i \in 1 .. k : i \in 1 .. k + 1
            OBVIOUS
        <3>4. \A i \in 1 .. k : g[i] = IF i = 1 THEN seqs[i] ELSE f[i - 1] \o seqs[i]
            BY <3>3
        <3> QED
            BY ONLY <3>2, <3>4
    <2>3. \A i \in 1 .. k + 1 : i # 1 => g[i - 1] = f[i - 1]
        <3>1. \A i \in 1 .. k + 1 : i # 1 => i - 1 \in 1 .. k
            OBVIOUS
        <3> HIDE DEF g
        <3> QED
            BY <2>2, <3>1
    <2>4. g = [i \in 1 .. k + 1 |-> IF i = 1 THEN seqs[i] ELSE g[i - 1] \o seqs[i]]
        <3> DEFINE h == [i \in 1 .. k + 1 |-> IF i = 1 THEN seqs[i] ELSE g[i - 1] \o seqs[i]]
        <3>1. \A i \in 1 .. k + 1 : g[i] = h[i]
            BY <2>3
        <3> QED
            BY <3>1
    <2>5. Flattens(g, seqs, k + 1)
        <3> HIDE DEF g
        <3> QED
            BY <2>4 DEF Flattens
    <2> HIDE DEF g
    <2> QED
        BY <2>5
<1>3. T = Nat
    <2> HIDE DEF T
    <2>1. T \subseteq Nat
        BY DEF T
    <2> QED
        BY <1>1, <1>2, <2>1, SetInduction
<1> QED
    BY <1>3

\* It is the only one, and its values are sequences.
LEMMA FlattenUnique ==
    ASSUME NEW S, NEW m \in Nat, NEW n \in Nat, m <= n,
           NEW a, NEW b, \A i \in 1 .. m : a[i] = b[i] /\ a[i] \in Seq(S),
           NEW f, NEW g, Flattens(f, a, m), Flattens(g, b, n)
    PROVE  \A i \in 1 .. m : f[i] = g[i] /\ f[i] \in Seq(S)
<1> DEFINE T == {k \in Nat : k >= 1 /\ k <= m => f[k] = g[k] /\ f[k] \in Seq(S)}
<1>1. 0 \in T
    OBVIOUS
<1>2. ASSUME NEW k \in T PROVE k + 1 \in T
    <2>1. SUFFICES ASSUME k + 1 <= m PROVE f[k + 1] = g[k + 1] /\ f[k + 1] \in Seq(S)
        OBVIOUS
    <2>2. /\ f[k + 1] = IF k + 1 = 1 THEN a[k + 1] ELSE f[(k + 1) - 1] \o a[k + 1]
          /\ g[k + 1] = IF k + 1 = 1 THEN b[k + 1] ELSE g[(k + 1) - 1] \o b[k + 1]
        <3>1. k + 1 \in 1 .. m /\ k + 1 \in 1 .. n
            BY <2>1
        <3> QED
            BY <3>1 DEF Flattens
    <2>3. a[k + 1] = b[k + 1] /\ a[k + 1] \in Seq(S)
        BY <2>1
    <2>4. CASE k = 0
        BY <2>2, <2>3, <2>4
    <2>5. CASE k # 0
        <3>1. (k + 1) - 1 = k /\ f[k] = g[k] /\ f[k] \in Seq(S)
            BY <2>1, <2>5
        <3>2. f[k] \o a[k + 1] \in Seq(S)
            BY <2>3, <3>1
        <3> QED
            BY <2>2, <2>3, <2>5, <3>1, <3>2
    <2> QED
        BY <2>4, <2>5
<1>3. T = Nat
    <2> HIDE DEF T
    <2>1. T \subseteq Nat
        BY DEF T
    <2> QED
        BY <1>1, <1>2, <2>1, SetInduction
<1> QED
    BY <1>3

\* FlattenSeq of a sequence with at least one element takes the last value of
\* such a function.
LEMMA FlattenValue ==
    ASSUME NEW S, NEW seqs \in Seq(Seq(S)), seqs # <<>>
    PROVE  \E f : Flattens(f, seqs, Len(seqs)) /\ FlattenSeq(seqs) = f[Len(seqs)]
<1> DEFINE iter == CHOOSE f : f = [i \in 1 .. Len(seqs) |->
                                     IF i = 1 THEN seqs[i] ELSE f[i - 1] \o seqs[i]]
<1>1. Len(seqs) # 0 /\ Len(seqs) \in Nat /\ \A i \in 1 .. Len(seqs) : seqs[i] \in Seq(S)
    OBVIOUS
<1>2. FlattenSeq(seqs) = iter[Len(seqs)]
    BY <1>1 DEF FlattenSeq
<1>3. \E f : f = [i \in 1 .. Len(seqs) |-> IF i = 1 THEN seqs[i] ELSE f[i - 1] \o seqs[i]]
    <2>1. \E f : Flattens(f, seqs, Len(seqs))
        BY <1>1, FlattenSolution
    <2> QED
        BY <2>1 DEF Flattens
<1>4. iter = [i \in 1 .. Len(seqs) |-> IF i = 1 THEN seqs[i] ELSE iter[i - 1] \o seqs[i]]
    BY <1>3
<1>5. Flattens(iter, seqs, Len(seqs))
    <2> HIDE DEF iter
    <2> QED
        BY <1>4 DEF Flattens
<1> HIDE DEF iter
<1> QED
    BY <1>2, <1>5

\* FlattenSeq of no sequence, of one, and of a sequence with one more.
LEMMA FlattenNone == FlattenSeq(<<>>) = <<>>
BY DEF FlattenSeq

\* What is flattened from sequences is a sequence.
LEMMA FlattenSeqType ==
    ASSUME NEW S, NEW seqs \in Seq(Seq(S))
    PROVE  FlattenSeq(seqs) \in Seq(S)
<1>1. CASE seqs = <<>>
    <2>1. FlattenSeq(seqs) = <<>> /\ <<>> \in Seq(S)
        BY <1>1, FlattenNone
    <2> QED
        BY <2>1
<1>2. CASE seqs # <<>>
    <2>1. PICK f : Flattens(f, seqs, Len(seqs)) /\ FlattenSeq(seqs) = f[Len(seqs)]
        BY <1>2, FlattenValue
    <2>2. /\ Len(seqs) \in Nat /\ Len(seqs) \in 1 .. Len(seqs)
          /\ \A i \in 1 .. Len(seqs) : seqs[i] \in Seq(S)
        BY <1>2
    <2>3. \A i \in 1 .. Len(seqs) : f[i] = f[i] /\ f[i] \in Seq(S)
        <3>1. Len(seqs) <= Len(seqs)
            BY <2>2
        <3>2. \A i \in 1 .. Len(seqs) : seqs[i] = seqs[i] /\ seqs[i] \in Seq(S)
            BY <2>2
        <3>3. Flattens(f, seqs, Len(seqs))
            BY <2>1
        <3> QED
            BY ONLY <2>2, <3>1, <3>2, <3>3, FlattenUnique
    <2> QED
        BY <2>1, <2>2, <2>3
<1> QED
    BY <1>1, <1>2

\* One sequence is itself.
LEMMA FlattenOne ==
    ASSUME NEW S, NEW s \in Seq(S)
    PROVE  FlattenSeq(<<s>>) = s
<1>1. <<s>> \in Seq(Seq(S)) /\ <<s>> # <<>> /\ Len(<<s>>) = 1
    OBVIOUS
<1>2. PICK f : Flattens(f, <<s>>, 1) /\ FlattenSeq(<<s>>) = f[1]
    BY <1>1, FlattenValue
<1> QED
    BY <1>2 DEF Flattens

\* One more sequence is put at the end.
LEMMA FlattenAppend ==
    ASSUME NEW S, NEW seqs \in Seq(Seq(S)), seqs # <<>>, NEW s \in Seq(S)
    PROVE  FlattenSeq(Append(seqs, s)) = FlattenSeq(seqs) \o s
<1> DEFINE more == Append(seqs, s)
           n == Len(seqs)
<1>1. /\ more \in Seq(Seq(S)) /\ more # <<>> /\ Len(more) = n + 1 /\ n \in Nat /\ n >= 1
      /\ \A i \in 1 .. n : seqs[i] = more[i] /\ seqs[i] \in Seq(S)
      /\ more[n + 1] = s
    <2>1. s \in Seq(S) /\ seqs \in Seq(Seq(S)) /\ seqs # <<>>
        OBVIOUS
    <2> DEFINE W == Seq(S)
    <2>2. s \in W /\ seqs \in Seq(W)
        OBVIOUS
    <2> HIDE DEF W
    <2>3. /\ more \in Seq(W) /\ more # <<>> /\ Len(more) = n + 1 /\ n \in Nat /\ n >= 1
          /\ \A i \in 1 .. n : seqs[i] = more[i] /\ seqs[i] \in W
          /\ more[n + 1] = s
        BY <2>1, <2>2
    <2> QED
        BY <2>3 DEF W
<1> HIDE DEF more, n
<1>2. PICK f : Flattens(f, seqs, n) /\ FlattenSeq(seqs) = f[n]
    BY FlattenValue DEF n
<1>3. PICK g : Flattens(g, more, n + 1) /\ FlattenSeq(more) = g[n + 1]
    BY <1>1, FlattenValue
<1>4. \A i \in 1 .. n : f[i] = g[i]
    <2>1. n <= n + 1 /\ n + 1 \in Nat
        BY <1>1
    <2>2. \A i \in 1 .. n : seqs[i] = more[i] /\ seqs[i] \in Seq(S)
        BY <1>1
    <2> QED
        <3>1. \A i \in 1 .. n : f[i] = g[i] /\ f[i] \in Seq(S)
            BY ONLY <1>1, <1>2, <1>3, <2>1, <2>2, FlattenUnique
        <3> QED
            BY <3>1
<1>5. g[n + 1] = g[(n + 1) - 1] \o more[n + 1]
    <2>1. n + 1 \in 1 .. n + 1 /\ n + 1 # 1
        BY <1>1
    <2> QED
        BY <1>3, <2>1 DEF Flattens
<1>6. (n + 1) - 1 = n /\ g[n] = f[n]
    BY <1>1, <1>4
<1> QED
    BY <1>1, <1>2, <1>3, <1>5, <1>6 DEF more

-----------------------------------------------------------------------------
(* The first place of an element.                                          *)

\* k is the first place of e in s.
IsFirst(k, s, e) == k \in 1 .. Len(s) /\ s[k] = e /\ \A n \in 1 .. k - 1 : s[n] # e

\* The least of the places of e is the first one.
LEMMA FirstPlace ==
    ASSUME NEW s, NEW e, Contains(s, e)
    PROVE  IsFirst(Min({n \in 1 .. Len(s) : s[n] = e}), s, e)
<1> DEFINE I == {n \in 1 .. Len(s) : s[n] = e}
<1>1. I # {} /\ I \subseteq Nat
    BY DEF Contains
<1>2. Min(I) \in I /\ \A y \in I : Min(I) <= y
    <2> HIDE DEF I
    <2> QED
        BY <1>1, LeastNat
<1>3. \A n \in 1 .. Min(I) - 1 : n \in 1 .. Len(s) /\ n \notin I
    <2> DEFINE m == Min(I)
    <2>1. m \in 1 .. Len(s) /\ \A y \in I : m <= y
        BY <1>2
    <2> HIDE DEF I, m
    <2>2. \A n \in 1 .. m - 1 : n \in 1 .. Len(s) /\ ~(m <= n)
        BY <2>1
    <2> QED
        BY <2>1, <2>2 DEF m
<1> QED
    BY <1>2, <1>3 DEF IsFirst

\* RemoveFirst leaves a sequence as it is, or takes the first place out.
LEMMA RemoveFirstFacts ==
    ASSUME NEW s, NEW e
    PROVE  /\ ~Contains(s, e) => RemoveFirst(s, e) = s
           /\ Contains(s, e) => \E k : IsFirst(k, s, e) /\ RemoveFirst(s, e) = RemoveAt(s, k)
<1>1. ~Contains(s, e) => RemoveFirst(s, e) = s
    BY DEF Contains, RemoveFirst
<1>2. ASSUME Contains(s, e) PROVE RemoveFirst(s, e) = RemoveAt(s, Min({n \in 1 .. Len(s) : s[n] = e}))
    <2>1. \E i \in 1 .. Len(s) : s[i] = e
        BY <1>2 DEF Contains
    <2>2. {n \in 1 .. Len(s) : s[n] = e} # {}
        BY <2>1
    <2> QED
        BY <2>1, <2>2 DEF RemoveFirst, SelectInSeq
<1> QED
    BY <1>1, <1>2, FirstPlace

-----------------------------------------------------------------------------
(* Sequences that are joined with another one, c, between two.             *)

\* What is flattened, for n sequences.
With(t, c, n) == [k \in 1 .. n |-> IF k = 1 THEN t[k] ELSE c \o t[k]]

JoinedWith(t, c) == FlattenSeq(With(t, c, Len(t)))

\* The sequences that are flattened.
LEMMA WithType ==
    ASSUME NEW S, NEW c \in Seq(S), NEW t \in Seq(Seq(S))
    PROVE  /\ With(t, c, Len(t)) \in Seq(Seq(S)) /\ Len(With(t, c, Len(t))) = Len(t)
           /\ \A k \in 1 .. Len(t) :
                 With(t, c, Len(t))[k] = IF k = 1 THEN t[k] ELSE c \o t[k]
<1> DEFINE W == Seq(S)
           n == Len(t)
<1>1. n \in Nat /\ \A k \in 1 .. n : t[k] \in Seq(S)
    OBVIOUS
<1>2. \A k \in 1 .. n : (IF k = 1 THEN t[k] ELSE c \o t[k]) \in W
    BY <1>1, ConcatProperties
<1> HIDE DEF W, n
<1>3. With(t, c, n) \in [1 .. n -> W]
    BY <1>2 DEF With
<1>4. With(t, c, n) \in Seq(W)
    BY <1>1, <1>3, SeqDef
<1>5. Len(With(t, c, n)) = n
    BY <1>1, <1>3, <1>4
<1>6. \A k \in 1 .. n : With(t, c, n)[k] = IF k = 1 THEN t[k] ELSE c \o t[k]
    BY DEF With
<1> QED
    BY <1>4, <1>5, <1>6 DEF W, n

\* No token, one, and one more.
LEMMA JoinedNone ==
    ASSUME NEW c
    PROVE  JoinedWith(<<>>, c) = <<>>
<1>1. Len(<<>>) = 0 /\ With(<<>>, c, 0) = <<>>
    BY DEF With
<1> QED
    BY <1>1, FlattenNone DEF JoinedWith

\* One sequence has no joint.
LEMMA JoinedOne ==
    ASSUME NEW S, NEW c, NEW x \in Seq(S)
    PROVE  JoinedWith(<<x>>, c) = x
<1>1. Len(<<x>>) = 1
    OBVIOUS
<1>2. With(<<x>>, c, 1) = <<x>>
    <2>1. With(<<x>>, c, 1) = [k \in 1 .. 1 |-> IF k = 1 THEN <<x>>[k] ELSE c \o <<x>>[k]]
        BY DEF With
    <2>2. \A k \in 1 .. 1 : k = 1
        OBVIOUS
    <2>3. With(<<x>>, c, 1) = [k \in 1 .. 1 |-> x]
        BY <2>1, <2>2
    <2> QED
        BY <2>3
<1> QED
    BY <1>1, <1>2, FlattenOne DEF JoinedWith

\* What is joined is a sequence.
LEMMA JoinedType ==
    ASSUME NEW S, NEW c \in Seq(S), NEW t \in Seq(Seq(S))
    PROVE  JoinedWith(t, c) \in Seq(S)
BY WithType, FlattenSeqType DEF JoinedWith

\* One more sequence is put at the end, after the joint.
LEMMA JoinedAppend ==
    ASSUME NEW S, NEW c \in Seq(S), NEW t \in Seq(Seq(S)), t # <<>>, NEW x \in Seq(S)
    PROVE  JoinedWith(Append(t, x), c) = JoinedWith(t, c) \o (c \o x)
<1> DEFINE W == Seq(S)
           y == c \o x
           more == Append(t, x)
           n == Len(t)
           a == With(t, c, n)
           b == Append(a, y)
           d == With(more, c, n + 1)
<1>1. y \in W /\ x \in W /\ t \in Seq(W)
    BY ConcatProperties
<1>2. /\ a \in Seq(W) /\ Len(a) = n
      /\ \A k \in 1 .. n : a[k] = IF k = 1 THEN t[k] ELSE c \o t[k]
    BY WithType
<1> HIDE DEF W
<1>3. /\ more \in Seq(W) /\ Len(more) = n + 1 /\ n \in Nat /\ n # 0
      /\ \A i \in 1 .. n : more[i] = t[i]
      /\ more[n + 1] = x
    BY <1>1
<1>4. /\ d \in Seq(W) /\ Len(d) = n + 1
      /\ \A k \in 1 .. n + 1 : d[k] = IF k = 1 THEN more[k] ELSE c \o more[k]
    <2> HIDE DEF more, n
    <2>1. more \in Seq(Seq(S))
        BY <1>3 DEF W
    <2>2. /\ With(more, c, Len(more)) \in Seq(Seq(S)) /\ Len(With(more, c, Len(more))) = Len(more)
          /\ \A k \in 1 .. Len(more) :
                With(more, c, Len(more))[k] = IF k = 1 THEN more[k] ELSE c \o more[k]
        BY <2>1, WithType
    <2>3. Len(more) = n + 1
        BY <1>3
    <2> QED
        BY <2>2, <2>3 DEF W
<1> HIDE DEF more, n, a, d
<1>5. b \in Seq(W) /\ Len(b) = n + 1 /\ b[n + 1] = y /\ \A k \in 1 .. n : b[k] = a[k]
    <2> HIDE DEF y
    <2> QED
        BY <1>1, <1>2, <1>3
<1> HIDE DEF b
<1>6. ASSUME NEW k \in 1 .. Len(d) PROVE d[k] = b[k]
    <2>1. CASE k \in 1 .. n
        <3>1. b[k] = IF k = 1 THEN t[k] ELSE c \o t[k]
            BY <1>2, <1>5, <2>1
        <3>2. d[k] = IF k = 1 THEN more[k] ELSE c \o more[k]
            BY <1>4
        <3>3. more[k] = t[k]
            BY <1>3, <2>1
        <3> QED
            BY <3>1, <3>2, <3>3
    <2>2. CASE k = n + 1
        <3>1. k # 1 /\ more[k] = x /\ b[k] = y
            BY <1>3, <1>5, <2>2
        <3> QED
            BY <1>4, <3>1
    <2> QED
        BY <1>3, <1>4, <2>1, <2>2
<1>7. d = b
    BY <1>4, <1>5, <1>6, SeqEqual
<1>8. a # <<>>
    BY <1>2, <1>3
<1>9. FlattenSeq(b) = FlattenSeq(a) \o y
    <2> HIDE DEF y
    <2> QED
        BY <1>1, <1>2, <1>8, FlattenAppend DEF b, W
<1> QED
    BY <1>3, <1>7, <1>9 DEF JoinedWith, n, a, d, more
-----------------------------------------------------------------------------
(* Powers.                                                                 *)

\* p has the powers of r up to m.
PowersUpTo(p, r, m) ==
    /\ p \in [0 .. m -> Nat]
    /\ \A k \in 0 .. m : p[k] = IF k = 0 THEN 1 ELSE r * p[k - 1]

\* They exist, and only one has them.
LEMMA PowersExist ==
    ASSUME NEW r \in Nat
    PROVE  \E p \in [Nat -> Nat] : \A k \in Nat : p[k] = IF k = 0 THEN 1 ELSE r * p[k - 1]
<1> DEFINE T == {m \in Nat : \E p : PowersUpTo(p, r, m)}
<1>1. 0 \in T
    <2> DEFINE p == [k \in 0 .. 0 |-> 1]
    <2>1. PowersUpTo(p, r, 0)
        BY DEF PowersUpTo
    <2> QED
        BY <2>1
<1>2. ASSUME NEW m \in T PROVE m + 1 \in T
    <2>1. PICK p : PowersUpTo(p, r, m)
        OBVIOUS
    <2> DEFINE q == [k \in 0 .. m + 1 |-> IF k = m + 1 THEN r * p[m] ELSE p[k]]
    <2>2. m \in Nat /\ p[m] \in Nat /\ r * p[m] \in Nat
        BY <2>1 DEF PowersUpTo
    <2>3. \A k \in 0 .. m : p[k] \in Nat
        BY <2>1 DEF PowersUpTo
    <2>4. q \in [0 .. m + 1 -> Nat]
        <3>1. ASSUME NEW k \in 0 .. m + 1 PROVE (IF k = m + 1 THEN r * p[m] ELSE p[k]) \in Nat
            BY <2>2, <2>3
        <3> QED
            BY <3>1
    <2>5. ASSUME NEW k \in 0 .. m + 1 PROVE q[k] = IF k = 0 THEN 1 ELSE r * q[k - 1]
        <3>1. CASE k \in 0 .. m
            <4>1. q[k] = p[k] /\ (k # 0 => q[k - 1] = p[k - 1])
                BY <2>2, <3>1
            <4> QED
                BY <2>1, <3>1, <4>1 DEF PowersUpTo
        <3>2. CASE k = m + 1
            <4>1. q[k] = r * p[m] /\ q[k - 1] = p[m] /\ k # 0
                BY <2>2, <3>2
            <4> QED
                BY <4>1
        <3>3. k \in 0 .. m \/ k = m + 1
            BY <2>2
        <3> QED
            BY <3>1, <3>2, <3>3
    <2>6. PowersUpTo(q, r, m + 1)
        BY <2>4, <2>5 DEF PowersUpTo
    <2> QED
        BY <2>2, <2>6
<1>3. T = Nat
    <2>1. T \subseteq Nat
        OBVIOUS
    <2> HIDE DEF T
    <2> QED
        BY <1>1, <1>2, <2>1, SetInduction
<1>4. ASSUME NEW m \in Nat, NEW l \in Nat, m <= l, NEW p, NEW q, PowersUpTo(p, r, m), PowersUpTo(q, r, l)
      PROVE  \A k \in 0 .. m : p[k] = q[k]
    <2> DEFINE U == {k \in Nat : k <= m => p[k] = q[k]}
    <2>1. 0 \in U
        BY <1>4 DEF PowersUpTo
    <2>2. ASSUME NEW k \in U PROVE k + 1 \in U
        <3>1. CASE k + 1 <= m
            <4>1. k \in Nat /\ k + 1 \in 0 .. m /\ k + 1 \in 0 .. l /\ (k + 1) - 1 = k /\ p[k] = q[k] /\ k + 1 # 0
                BY <1>4, <3>1
            <4>2. p[k + 1] = r * p[k] /\ q[k + 1] = r * q[k]
                BY <1>4, <4>1 DEF PowersUpTo
            <4> QED
                BY <4>1, <4>2
        <3>2. CASE ~(k + 1 <= m)
            BY <3>2
        <3> QED
            BY <3>1, <3>2
    <2>3. U = Nat
        <3>1. U \subseteq Nat
            OBVIOUS
        <3> HIDE DEF U
        <3> QED
            BY <2>1, <2>2, <3>1, SetInduction
    <2>4. \A k \in 0 .. m : k \in U /\ k <= m
        BY <2>3
    <2> QED
        BY <2>4
<1> DEFINE f == [m \in Nat |-> (CHOOSE p : PowersUpTo(p, r, m))[m]]
<1>5. \A m \in Nat : PowersUpTo(CHOOSE p : PowersUpTo(p, r, m), r, m)
    BY <1>3
<1>6. f \in [Nat -> Nat]
    <2>1. ASSUME NEW m \in Nat PROVE (CHOOSE p : PowersUpTo(p, r, m))[m] \in Nat
        <3> DEFINE p == CHOOSE p : PowersUpTo(p, r, m)
        <3>1. PowersUpTo(p, r, m) /\ m \in 0 .. m
            BY <1>5
        <3> HIDE DEF p
        <3>2. p[m] \in Nat
            BY <3>1 DEF PowersUpTo
        <3> QED
            BY <3>2 DEF p
    <2> QED
        BY <2>1
<1>7. ASSUME NEW k \in Nat PROVE f[k] = IF k = 0 THEN 1 ELSE r * f[k - 1]
    <2> DEFINE p(m) == CHOOSE q : PowersUpTo(q, r, m)
    <2>1. PowersUpTo(p(k), r, k) /\ f[k] = p(k)[k]
        BY <1>5
    <2>2. CASE k = 0
        BY <2>1, <2>2 DEF PowersUpTo
    <2>3. CASE k # 0
        <3>1. k - 1 \in Nat /\ k - 1 <= k /\ k - 1 \in 0 .. k - 1
            BY <2>3
        <3>2. PowersUpTo(p(k - 1), r, k - 1) /\ f[k - 1] = p(k - 1)[k - 1]
            BY <1>5, <3>1
        <3> HIDE DEF f, p
        <3>3. p(k - 1)[k - 1] = p(k)[k - 1]
            BY <1>4, <2>1, <3>1, <3>2
        <3>4. p(k)[k] = r * p(k)[k - 1]
            BY <2>1, <2>3 DEF PowersUpTo
        <3> QED
            BY <2>1, <2>3, <3>2, <3>3, <3>4
    <2> QED
        BY <2>2, <2>3
<1> QED
    BY <1>6, <1>7

\* The powers of r.
LEMMA PowerFacts ==
    ASSUME NEW r \in Nat
    PROVE  /\ Power(r, 0) = 1
           /\ \A n \in Nat : Power(r, n) \in Nat /\ Power(r, n + 1) = r * Power(r, n)
<1> DEFINE p == CHOOSE p : p = [k \in Nat |-> IF k = 0 THEN 1 ELSE r * p[k - 1]]
<1>1. PICK f \in [Nat -> Nat] : \A k \in Nat : f[k] = IF k = 0 THEN 1 ELSE r * f[k - 1]
    BY PowersExist
<1>2. f = [k \in Nat |-> IF k = 0 THEN 1 ELSE r * f[k - 1]]
    BY <1>1
<1>3. p = [k \in Nat |-> IF k = 0 THEN 1 ELSE r * p[k - 1]]
    BY <1>2
<1>4. \A n : Power(r, n) = p[n]
    BY DEF Power
<1> HIDE DEF p
<1> DEFINE T == {n \in Nat : p[n] \in Nat}
<1>5. p[0] = 1 /\ \A k \in Nat : k # 0 => p[k] = r * p[k - 1]
    BY <1>3
<1>6. \A k \in Nat : p[k + 1] = r * p[k]
    BY <1>5
<1>7. T = Nat
    <2>1. 0 \in T /\ T \subseteq Nat
        BY <1>5
    <2>2. ASSUME NEW n \in T PROVE n + 1 \in T
        BY <1>6
    <2> HIDE DEF T
    <2> QED
        BY <2>1, <2>2, SetInduction
<1>8. \A n \in Nat : p[n] \in Nat
    BY <1>7
<1> QED
    BY <1>4, <1>5, <1>6, <1>8

\* The remainder is the one number below the divisor that leaves a multiple.
LEMMA OneRemainder ==
    ASSUME NEW m \in Nat \ {0}, NEW a \in Int, NEW q \in Int, NEW r \in 0 .. m - 1, a = m * q + r
    PROVE  a % m = r
OBVIOUS
=============================================================================
