---------------------------- MODULE ParserProofs ----------------------------
(***************************************************************************)
(* Parser, for every set of texts and every answer of the callback: the    *)
(* types, NothingLost, SseOrString, StringAddressSize, JumpKeepsCondition, *)
(* NumberMeans and SelectorMeans.  They follow from IInv, which says of    *)
(* each phase what has been read and what is still in the text: AllThere   *)
(* puts the two together again, MnemonicThere follows the mnemonic to its  *)
(* place in the text, SseSoFar counts the operands the special cases have  *)
(* passed, and OperandsRead has each operand be one its token can become.  *)
(***************************************************************************)
EXTENDS Parser, SequenceFacts, FiniteSetTheorems

\* What a text, or what the parser puts between two of its parts, is made of.
Pieces == STRING \union {",", " "}

-----------------------------------------------------------------------------
(* NoBlanks.                                                               *)

\* The function NoBlanks takes its value from, for a sequence of length n.
Skips(f, s, n) ==
    f = [x \in SUBSET (1 .. n) |->
            IF x = {} THEN <<>>
            ELSE IF s[Max(x)] \in Blanks THEN f[x \ {Max(x)}]
                 ELSE Append(f[x \ {Max(x)}], s[Max(x)])]

\* There is such a function.
LEMMA SkipsSolution ==
    ASSUME NEW S, NEW n \in Nat, NEW s, \A k \in 1 .. n : s[k] \in S
    PROVE  \E f : Skips(f, s, n) /\ \A x \in SUBSET (1 .. n) : f[x] \in Seq(S)
<1> DEFINE op == [p \in Seq(S) \X S |-> IF p[2] \in Blanks THEN p[1] ELSE Append(p[1], p[2])]
<1>1. op \in [Seq(S) \X S -> Seq(S)]
    OBVIOUS
<1>2. \A t \in Seq(S), c \in S : op[<<t, c>>] = IF c \in Blanks THEN t ELSE Append(t, c)
    OBVIOUS
<1>3. <<>> \in Seq(S)
    OBVIOUS
<1> HIDE DEF op
<1>4. PICK f \in [SUBSET (1 .. n) -> Seq(S)] :
          \A x \in SUBSET (1 .. n) :
              f[x] = IF x = {} THEN <<>> ELSE op[<<f[x \ {Max(x)}], s[Max(x)]>>]
    <2> DEFINE V == Seq(S)
    <2>1. op \in [V \X S -> V] /\ <<>> \in V /\ n \in Nat /\ \A k \in 1 .. n : s[k] \in S
        BY <1>1, <1>3
    <2> HIDE DEF V
    <2>2. \E f \in [SUBSET (1 .. n) -> V] : Folds(f, op, <<>>, s, n)
        BY ONLY <2>1, FoldSolution
    <2> QED
        BY <2>2 DEF V, Folds
<1>5. ASSUME NEW x \in SUBSET (1 .. n), x # {}
      PROVE  f[x \ {Max(x)}] \in Seq(S) /\ s[Max(x)] \in S
    <2>1. Max(x) \in x
        BY <1>5, GreatestUpTo
    <2> QED
        BY <2>1
<1> DEFINE g == [x \in SUBSET (1 .. n) |->
                    IF x = {} THEN <<>>
                    ELSE IF s[Max(x)] \in Blanks THEN f[x \ {Max(x)}]
                         ELSE Append(f[x \ {Max(x)}], s[Max(x)])]
<1>6. \A x \in SUBSET (1 .. n) : f[x] = g[x]
    <2>1. ASSUME NEW x \in SUBSET (1 .. n), x # {} PROVE f[x] = g[x]
        BY <1>2, <1>4, <1>5, <2>1
    <2>2. f[{}] = g[{}]
        BY <1>4
    <2> QED
        BY <2>1, <2>2
<1>7. f = g
    BY <1>6
<1>8. Skips(f, s, n)
    BY <1>7 DEF Skips
<1> QED
    BY <1>8

\* Two such functions, for a sequence and the start of another, agree.
LEMMA SkipsUnique ==
    ASSUME NEW m \in Nat, NEW n \in Nat, m <= n,
           NEW a, NEW b, \A k \in 1 .. m : a[k] = b[k],
           NEW f, NEW g, Skips(f, a, m), Skips(g, b, n)
    PROVE  Agree(f, g, m)
<1>1. {} \in SUBSET (1 .. m) /\ \A x \in SUBSET (1 .. m) : x \in SUBSET (1 .. n)
    OBVIOUS
<1>2. f[{}] = g[{}]
    BY <1>1 DEF Skips
<1>3. ASSUME NEW x \in SUBSET (1 .. m), x # {}, f[x \ {Max(x)}] = g[x \ {Max(x)}]
      PROVE  f[x] = g[x]
    <2>1. Max(x) \in 1 .. m
        BY <1>3, GreatestUpTo
    <2>2. a[Max(x)] = b[Max(x)]
        BY <2>1
    <2>3. f[x] = IF a[Max(x)] \in Blanks THEN f[x \ {Max(x)}]
                 ELSE Append(f[x \ {Max(x)}], a[Max(x)])
        BY <1>3 DEF Skips
    <2>4. g[x] = IF b[Max(x)] \in Blanks THEN g[x \ {Max(x)}]
                 ELSE Append(g[x \ {Max(x)}], b[Max(x)])
        BY <1>1, <1>3 DEF Skips
    <2> QED
        BY <1>3, <2>2, <2>3, <2>4
<1>4. \A x \in SUBSET (1 .. m) :
          x # {} /\ f[x \ {Max(x)}] = g[x \ {Max(x)}] => f[x] = g[x]
    BY <1>3
<1>5. m \in Nat
    OBVIOUS
<1> QED
    BY ONLY <1>2, <1>4, <1>5, FoldSame

\* NoBlanks takes its value from such a function, whose values are texts.
LEMMA NoBlanksValue ==
    ASSUME NEW S, NEW s \in Seq(S)
    PROVE  \E f : /\ Skips(f, s, Len(s)) /\ NoBlanks(s) = f[1 .. Len(s)]
                  /\ \A x \in SUBSET (1 .. Len(s)) : f[x] \in Seq(S)
<1> DEFINE iter == CHOOSE f : f = [x \in SUBSET (DOMAIN s) |->
                        IF x = {} THEN <<>>
                        ELSE IF s[Max(x)] \in Blanks THEN f[x \ {Max(x)}]
                             ELSE Append(f[x \ {Max(x)}], s[Max(x)])]
<1>1. Len(s) \in Nat /\ DOMAIN s = 1 .. Len(s) /\ \A k \in 1 .. Len(s) : s[k] \in S
    OBVIOUS
<1>2. NoBlanks(s) = iter[DOMAIN s]
    BY DEF NoBlanks, FoldLeft, MapThenFoldSet
<1>3. PICK h : Skips(h, s, Len(s)) /\ \A x \in SUBSET (1 .. Len(s)) : h[x] \in Seq(S)
    BY <1>1, SkipsSolution
<1>4. \E f : f = [x \in SUBSET (DOMAIN s) |->
                        IF x = {} THEN <<>>
                        ELSE IF s[Max(x)] \in Blanks THEN f[x \ {Max(x)}]
                             ELSE Append(f[x \ {Max(x)}], s[Max(x)])]
    BY <1>1, <1>3 DEF Skips
<1>5. Skips(iter, s, Len(s))
    BY <1>1, <1>4 DEF Skips
<1> HIDE DEF iter
<1>6. \A x \in SUBSET (1 .. Len(s)) : h[x] = iter[x]
    <2>1. Len(s) <= Len(s) /\ \A k \in 1 .. Len(s) : s[k] = s[k]
        BY <1>1
    <2>2. Agree(h, iter, Len(s))
        BY ONLY <1>1, <1>3, <1>5, <2>1, SkipsUnique
    <2> QED
        BY <2>2 DEF Agree
<1> QED
    BY <1>1, <1>2, <1>3, <1>5, <1>6

\* A sequence without its blanks is a sequence.
LEMMA NoBlanksType ==
    ASSUME NEW S, NEW s \in Seq(S)
    PROVE  NoBlanks(s) \in Seq(S)
<1>1. 1 .. Len(s) \in SUBSET (1 .. Len(s))
    OBVIOUS
<1> QED
    BY <1>1, NoBlanksValue

\* Nothing is left of nothing.
LEMMA NoBlanksEmpty == NoBlanks(<<>>) = <<>>
<1>1. <<>> \in Seq({}) /\ Len(<<>>) = 0 /\ 1 .. 0 = {}
    OBVIOUS
<1>2. PICK f : Skips(f, <<>>, 0) /\ NoBlanks(<<>>) = f[{}]
    BY <1>1, NoBlanksValue
<1> QED
    BY <1>1, <1>2 DEF Skips

\* One more piece is skipped if it is a blank, and kept if it is none.
LEMMA NoBlanksAppend ==
    ASSUME NEW S, NEW s \in Seq(S), NEW c \in S
    PROVE  NoBlanks(Append(s, c)) = IF c \in Blanks THEN NoBlanks(s) ELSE Append(NoBlanks(s), c)
<1> DEFINE t == Append(s, c)
           n == Len(s)
<1>1. /\ t \in Seq(S) /\ Len(t) = n + 1 /\ n \in Nat /\ t[n + 1] = c
      /\ \A k \in 1 .. n : s[k] = t[k]
    OBVIOUS
<1> HIDE DEF t
<1>2. PICK f : Skips(f, s, n) /\ NoBlanks(s) = f[1 .. n]
    BY NoBlanksValue
<1>3. PICK g : Skips(g, t, n + 1) /\ NoBlanks(t) = g[1 .. n + 1]
    BY <1>1, NoBlanksValue
<1> HIDE DEF n
<1>4. \A x \in SUBSET (1 .. n) : f[x] = g[x]
    <2>1. n <= n + 1 /\ n + 1 \in Nat
        BY <1>1
    <2>2. n \in Nat /\ \A k \in 1 .. n : s[k] = t[k]
        BY <1>1
    <2>3. Agree(f, g, n)
        BY ONLY <1>2, <1>3, <2>1, <2>2, SkipsUnique
    <2> QED
        BY <2>3 DEF Agree
<1>5. Max(1 .. n + 1) = n + 1
    <2>1. n + 1 \in 1 .. n + 1 /\ 1 .. n + 1 # {}
        <3>1. n + 1 \in 1 .. n + 1
            BY <1>1
        <3> QED
            BY <3>1
    <2>2. n + 1 \in Nat /\ 1 .. n + 1 \subseteq 1 .. n + 1
        BY <1>1
    <2>3. Max(1 .. n + 1) \in 1 .. n + 1 /\ \A y \in 1 .. n + 1 : y <= Max(1 .. n + 1)
        BY ONLY <2>1, <2>2, GreatestUpTo
    <2>4. n + 1 <= Max(1 .. n + 1)
        BY <2>1, <2>3
    <2> QED
        BY ONLY <1>1, <2>3, <2>4
<1>6. (1 .. n + 1) \ {n + 1} = 1 .. n
    BY <1>1
<1>7. g[1 .. n + 1] = IF t[n + 1] \in Blanks THEN g[1 .. n] ELSE Append(g[1 .. n], t[n + 1])
    <2>1. 1 .. n + 1 \in SUBSET (1 .. n + 1) /\ 1 .. n + 1 # {}
        <3>1. n + 1 \in 1 .. n + 1
            BY <1>1
        <3> QED
            BY <3>1
    <2>2. g[1 .. n + 1] = IF t[Max(1 .. n + 1)] \in Blanks THEN g[(1 .. n + 1) \ {Max(1 .. n + 1)}]
                          ELSE Append(g[(1 .. n + 1) \ {Max(1 .. n + 1)}], t[Max(1 .. n + 1)])
        BY <1>3, <2>1 DEF Skips
    <2> QED
        BY <1>5, <1>6, <2>2
<1>8. g[1 .. n] = f[1 .. n]
    BY <1>4
<1> QED
    BY <1>1, <1>2, <1>3, <1>7, <1>8 DEF t

\* Blanks go from both of two sequences.
LEMMA NoBlanksConcat ==
    ASSUME NEW S, NEW s \in Seq(S), NEW t \in Seq(S)
    PROVE  NoBlanks(s \o t) = NoBlanks(s) \o NoBlanks(t)
<1> DEFINE T == {k \in Nat : \A u \in Seq(S) :
                    Len(u) = k => NoBlanks(s \o u) = NoBlanks(s) \o NoBlanks(u)}
<1>1. 0 \in T
    <2>1. SUFFICES ASSUME NEW u \in Seq(S), Len(u) = 0
                   PROVE  NoBlanks(s \o u) = NoBlanks(s) \o NoBlanks(u)
        OBVIOUS
    <2>2. u = <<>>
        BY <2>1, EmptySeq
    <2>3. s \o <<>> = s /\ NoBlanks(s) \o <<>> = NoBlanks(s)
        BY ConcatEmptySeq, NoBlanksType
    <2> QED
        BY <2>2, <2>3, NoBlanksEmpty
<1>2. ASSUME NEW k \in T PROVE k + 1 \in T
    <2>1. SUFFICES ASSUME NEW u \in Seq(S), Len(u) = k + 1
                   PROVE  NoBlanks(s \o u) = NoBlanks(s) \o NoBlanks(u)
        OBVIOUS
    <2>2. PICK v \in Seq(S), c \in S : Len(v) = k /\ u = Append(v, c)
        <3>1. u \in Seq(S) /\ u # <<>>
            BY <2>1
        <3>2. PICK v \in Seq(S), c \in S : Len(u) = Len(v) + 1 /\ u = Append(v, c)
            BY <3>1, SplitLast
        <3>3. Len(v) = k
            BY <2>1, <3>2
        <3> QED
            BY <3>2, <3>3
    <2>3. NoBlanks(s \o v) = NoBlanks(s) \o NoBlanks(v)
        BY <2>2
    <2> HIDE DEF T
    <2>4. s \o v \in Seq(S) /\ NoBlanks(s) \in Seq(S) /\ NoBlanks(v) \in Seq(S)
        BY ConcatProperties, NoBlanksType
    <2>5. s \o u = Append(s \o v, c)
        BY <2>2, ConcatAppend
    <2>6. NoBlanks(s \o u) = IF c \in Blanks THEN NoBlanks(s \o v) ELSE Append(NoBlanks(s \o v), c)
        BY <2>4, <2>5, NoBlanksAppend
    <2>7. NoBlanks(u) = IF c \in Blanks THEN NoBlanks(v) ELSE Append(NoBlanks(v), c)
        BY <2>2, NoBlanksAppend
    <2>8. NoBlanks(s) \o Append(NoBlanks(v), c) = Append(NoBlanks(s) \o NoBlanks(v), c)
        BY <2>4, ConcatAppend
    <2> QED
        BY <2>3, <2>6, <2>7, <2>8
<1>3. T = Nat
    <2> HIDE DEF T
    <2>1. T \subseteq Nat
        BY DEF T
    <2> QED
        BY <1>1, <1>2, <2>1, SetInduction
<1> QED
    BY <1>3

\* One piece.
LEMMA NoBlanksOne ==
    ASSUME NEW S, NEW c \in S
    PROVE  NoBlanks(<<c>>) = IF c \in Blanks THEN <<>> ELSE <<c>>
<1>1. <<>> \in Seq(S) /\ Append(<<>>, c) = <<c>>
    OBVIOUS
<1> QED
    BY <1>1, NoBlanksAppend, NoBlanksEmpty

\* Nothing is left of blanks.
LEMMA NoBlanksOfBlanks ==
    ASSUME NEW S, NEW s \in Seq(S), \A n \in 1 .. Len(s) : s[n] \in Blanks
    PROVE  NoBlanks(s) = <<>>
<1> DEFINE T == {k \in Nat : \A u \in Seq(S) :
                    Len(u) = k /\ (\A n \in 1 .. k : u[n] \in Blanks) => NoBlanks(u) = <<>>}
<1>1. 0 \in T
    <2>1. SUFFICES ASSUME NEW u \in Seq(S), Len(u) = 0
                   PROVE  NoBlanks(u) = <<>>
        OBVIOUS
    <2>2. u = <<>>
        BY <2>1, EmptySeq
    <2> QED
        BY <2>2, NoBlanksEmpty
<1>2. ASSUME NEW k \in T PROVE k + 1 \in T
    <2>1. SUFFICES ASSUME NEW u \in Seq(S), Len(u) = k + 1, \A n \in 1 .. k + 1 : u[n] \in Blanks
                   PROVE  NoBlanks(u) = <<>>
        OBVIOUS
    <2>2. PICK v \in Seq(S), c \in S : Len(v) = k /\ u = Append(v, c)
        <3>1. u \in Seq(S) /\ u # <<>>
            BY <2>1
        <3>2. PICK v \in Seq(S), c \in S : Len(u) = Len(v) + 1 /\ u = Append(v, c)
            BY <3>1, SplitLast
        <3>3. Len(v) = k
            BY <2>1, <3>2
        <3> QED
            BY <3>2, <3>3
    <2>3. c \in Blanks /\ \A n \in 1 .. k : v[n] \in Blanks
        <3>1. k + 1 \in 1 .. k + 1 /\ \A n \in 1 .. k : n \in 1 .. k + 1
            OBVIOUS
        <3>2. u[k + 1] = c /\ \A n \in 1 .. k : u[n] = v[n]
            BY <2>2
        <3> QED
            BY <2>1, <3>1, <3>2
    <2>4. NoBlanks(v) = <<>>
        BY <2>2, <2>3
    <2> QED
        BY <2>2, <2>3, <2>4, NoBlanksAppend
<1>3. T = Nat
    <2> HIDE DEF T
    <2>1. T \subseteq Nat
        BY DEF T
    <2> QED
        BY <1>1, <1>2, <2>1, SetInduction
<1> QED
    BY <1>3

-----------------------------------------------------------------------------
(* The parts a text is cut into.                                           *)

\* The sequence s is a part of t.
Occurs(s, t) ==
    \E k \in 0 .. Len(t) : k + Len(s) <= Len(t) /\ \A n \in 1 .. Len(s) : s[n] = t[k + n]

\* The second and the third of three parts, and the first.
LEMMA OccursInConcat ==
    ASSUME NEW S, NEW a \in Seq(S), NEW b \in Seq(S)
    PROVE  Occurs(a, a \o b) /\ Occurs(b, a \o b)
<1>1. /\ Len(a \o b) = Len(a) + Len(b) /\ Len(a) \in Nat /\ Len(b) \in Nat
      /\ \A n \in 1 .. Len(a) + Len(b) :
             (a \o b)[n] = IF n <= Len(a) THEN a[n] ELSE b[n - Len(a)]
    BY ConcatProperties
<1>2. Occurs(a, a \o b)
    <2>1. 0 \in 0 .. Len(a \o b) /\ 0 + Len(a) <= Len(a \o b)
        BY <1>1
    <2>2. \A n \in 1 .. Len(a) : a[n] = (a \o b)[0 + n]
        <3>1. \A n \in 1 .. Len(a) : 0 + n = n /\ n \in 1 .. Len(a) + Len(b) /\ n <= Len(a)
            BY <1>1
        <3> QED
            BY <1>1, <3>1
    <2> QED
        BY <2>1, <2>2 DEF Occurs
<1>3. Occurs(b, a \o b)
    <2>1. Len(a) \in 0 .. Len(a \o b) /\ Len(a) + Len(b) <= Len(a \o b)
        BY <1>1
    <2>2. \A n \in 1 .. Len(b) : b[n] = (a \o b)[Len(a) + n]
        <3>1. \A n \in 1 .. Len(b) : /\ Len(a) + n \in 1 .. Len(a) + Len(b)
                                     /\ ~(Len(a) + n <= Len(a)) /\ (Len(a) + n) - Len(a) = n
            BY <1>1
        <3> QED
            BY <1>1, <3>1
    <2> QED
        BY <2>1, <2>2 DEF Occurs
<1> QED
    BY <1>2, <1>3

\* A part of a part is a part.
LEMMA OccursTransitive ==
    ASSUME NEW S, NEW a \in Seq(S), NEW b \in Seq(S), NEW c \in Seq(S), Occurs(a, b), Occurs(b, c)
    PROVE  Occurs(a, c)
<1>1. PICK j \in 0 .. Len(b) : j + Len(a) <= Len(b) /\ \A n \in 1 .. Len(a) : a[n] = b[j + n]
    BY DEF Occurs
<1>2. PICK k \in 0 .. Len(c) : k + Len(b) <= Len(c) /\ \A n \in 1 .. Len(b) : b[n] = c[k + n]
    BY DEF Occurs
<1>3. Len(a) \in Nat /\ Len(b) \in Nat /\ Len(c) \in Nat
    OBVIOUS
<1>4. k + j \in 0 .. Len(c) /\ (k + j) + Len(a) <= Len(c)
    BY <1>1, <1>2, <1>3
<1>5. \A n \in 1 .. Len(a) : a[n] = c[(k + j) + n]
    <2>1. \A n \in 1 .. Len(a) : j + n \in 1 .. Len(b) /\ k + (j + n) = (k + j) + n
        BY <1>1, <1>2, <1>3
    <2> QED
        BY <1>1, <1>2, <2>1
<1> QED
    BY <1>4, <1>5 DEF Occurs

\* Before and After are the two sides of the first separator.
LEMMA BeforeAfter ==
    ASSUME NEW S, NEW s \in Seq(S), NEW c
    PROVE  /\ Before(s, c) \in Seq(S) /\ After(s, c) \in Seq(S)
           /\ Contains(s, c) => s = Before(s, c) \o <<c>> \o After(s, c) /\ c \in S
           /\ ~Contains(s, c) => Before(s, c) = s /\ After(s, c) = <<>>
           /\ ~Contains(Before(s, c), c)
<1>1. CASE Contains(s, c)
    <2> DEFINE k == Min({n \in 1 .. Len(s) : s[n] = c})
    <2>1. IsFirst(k, s, c)
        BY <1>1, FirstPlace
    <2>2. Before(s, c) = SubSeq(s, 1, k - 1) /\ After(s, c) = SubSeq(s, k + 1, Len(s))
        <3>1. {n \in 1 .. Len(s) : s[n] = c} # {}
            BY <1>1 DEF Contains
        <3> QED
            BY <1>1, <3>1 DEF Before, After, SelectInSeq
    <2> HIDE DEF k
    <2>3. k \in 1 .. Len(s) /\ s[k] = c /\ \A n \in 1 .. k - 1 : s[n] # c
        BY <2>1 DEF IsFirst
    <2>4. /\ SubSeq(s, 1, k - 1) \in Seq(S) /\ SubSeq(s, k + 1, Len(s)) \in Seq(S)
          /\ s = SubSeq(s, 1, k - 1) \o <<s[k]>> \o SubSeq(s, k + 1, Len(s))
        BY <2>3, SplitAt
    <2>5. ~Contains(SubSeq(s, 1, k - 1), c)
        <3>1. Len(SubSeq(s, 1, k - 1)) = k - 1 /\ \A n \in 1 .. k - 1 : SubSeq(s, 1, k - 1)[n] = s[n]
            BY <2>3
        <3> QED
            BY <2>3, <3>1 DEF Contains
    <2>6. c \in S
        BY <2>3
    <2> QED
        BY <1>1, <2>2, <2>3, <2>4, <2>5, <2>6
<1>2. CASE ~Contains(s, c)
    BY <1>2 DEF Before, After
<1> QED
    BY <1>1, <1>2

\* The text before the first separator is a part, and so is the text after it.
LEMMA BeforeAfterOccur ==
    ASSUME NEW S, NEW s \in Seq(S), NEW c
    PROVE  Occurs(Before(s, c), s) /\ Occurs(After(s, c), s)
<1>1. CASE Contains(s, c)
    <2>1. /\ Before(s, c) \in Seq(S) /\ After(s, c) \in Seq(S) /\ <<c>> \in Seq(S)
          /\ s = (Before(s, c) \o <<c>>) \o After(s, c)
        <3>1. /\ Before(s, c) \in Seq(S) /\ After(s, c) \in Seq(S) /\ c \in S
              /\ s = Before(s, c) \o <<c>> \o After(s, c)
            BY <1>1, BeforeAfter
        <3>2. <<c>> \in Seq(S)
            BY <3>1
        <3> QED
            BY ONLY <3>1, <3>2
    <2>2. (Before(s, c) \o <<c>>) \in Seq(S)
        BY <2>1, ConcatProperties
    <2>3. Occurs(Before(s, c) \o <<c>>, s) /\ Occurs(After(s, c), s)
        BY <2>1, <2>2, OccursInConcat
    <2>4. Occurs(Before(s, c), Before(s, c) \o <<c>>)
        BY <2>1, OccursInConcat
    <2> QED
        BY <2>1, <2>2, <2>3, <2>4, OccursTransitive
<1>2. CASE ~Contains(s, c)
    <2>1. Before(s, c) = s /\ After(s, c) = <<>>
        BY <1>2, BeforeAfter
    <2>2. s \o <<>> = s /\ <<>> \in Seq(S)
        BY ConcatEmptySeq, EmptySeq
    <2>3. Occurs(s, s \o <<>>) /\ Occurs(<<>>, s \o <<>>)
        BY <2>2, OccursInConcat
    <2> QED
        BY <2>1, <2>2, <2>3
<1> QED
    BY <1>1, <1>2

\* SkipBlanks leaves a part of the text, before which there are only blanks.
LEMMA SkipBlanksSplits ==
    ASSUME NEW S, NEW s \in Seq(S)
    PROVE  /\ SkipBlanks(s) \in Seq(S)
           /\ \E a \in Seq(S) : s = a \o SkipBlanks(s) /\ \A n \in 1 .. Len(a) : a[n] \in Blanks
<1> DEFINE I == {n \in 1 .. Len(s) : s[n] \notin Blanks}
<1>1. SkipBlanks(s) = LET k == IF I # {} THEN Min(I) ELSE 0
                      IN  IF k = 0 THEN <<>> ELSE SubSeq(s, k, Len(s))
    BY DEF SkipBlanks, SelectInSeq
<1>2. CASE I = {}
    <2>1. SkipBlanks(s) = <<>> /\ \A n \in 1 .. Len(s) : s[n] \in Blanks
        BY <1>1, <1>2
    <2>2. s \o <<>> = s /\ <<>> \in Seq(S)
        BY ConcatEmptySeq, EmptySeq
    <2> QED
        BY <2>1, <2>2
<1>3. CASE I # {}
    <2> DEFINE k == Min(I)
    <2>1. k \in I /\ \A y \in I : k <= y
        <3>1. I \subseteq Nat
            OBVIOUS
        <3> HIDE DEF I
        <3> QED
            BY <1>3, <3>1, LeastNat
    <2>2. SkipBlanks(s) = SubSeq(s, k, Len(s))
        <3>1. k # 0
            BY <2>1
        <3> QED
            BY <1>1, <1>3, <3>1
    <2>3. k \in 1 .. Len(s) /\ \A n \in 1 .. k - 1 : s[n] \in Blanks
        <3>1. k \in 1 .. Len(s) /\ Len(s) \in Nat
            BY <2>1
        <3> HIDE DEF k
        <3>2. \A n \in 1 .. k - 1 : n \in 1 .. Len(s) /\ ~(k <= n)
            BY <3>1
        <3> QED
            BY <2>1, <3>1, <3>2
    <2> HIDE DEF k, I
    <2>4. /\ SubSeq(s, 1, k - 1) \in Seq(S) /\ SubSeq(s, k, Len(s)) \in Seq(S)
          /\ Len(SubSeq(s, 1, k - 1)) = k - 1
          /\ \A n \in 1 .. k - 1 : SubSeq(s, 1, k - 1)[n] = s[n]
        BY <2>3
    <2>5. s = SubSeq(s, 1, k - 1) \o SubSeq(s, k, Len(s))
        <3>1. /\ 1 \in 1 .. Len(s) + 1 /\ k - 1 \in 1 - 1 .. Len(s) /\ Len(s) \in k - 1 .. Len(s)
              /\ (k - 1) + 1 = k
            BY <2>3
        <3>2. SubSeq(s, 1, k - 1) \o SubSeq(s, (k - 1) + 1, Len(s)) = SubSeq(s, 1, Len(s))
            BY <3>1, ConcatAdjacentSubSeq
        <3> QED
            BY <3>1, <3>2, SubSeqFull
    <2> QED
        BY <2>2, <2>3, <2>4, <2>5
<1> QED
    BY <1>2, <1>3

\* SkipBlanks loses blanks only.
LEMMA SkipBlanksFacts ==
    ASSUME NEW S, NEW s \in Seq(S)
    PROVE  /\ SkipBlanks(s) \in Seq(S) /\ Occurs(SkipBlanks(s), s)
           /\ NoBlanks(SkipBlanks(s)) = NoBlanks(s)
<1>1. PICK a \in Seq(S) : s = a \o SkipBlanks(s) /\ \A n \in 1 .. Len(a) : a[n] \in Blanks
    BY SkipBlanksSplits
<1>2. SkipBlanks(s) \in Seq(S)
    BY SkipBlanksSplits
<1>3. NoBlanks(s) = <<>> \o NoBlanks(SkipBlanks(s))
    <2>1. NoBlanks(a) = <<>>
        BY <1>1, NoBlanksOfBlanks
    <2>2. NoBlanks(a \o SkipBlanks(s)) = NoBlanks(a) \o NoBlanks(SkipBlanks(s))
        BY <1>2, NoBlanksConcat
    <2> QED
        BY <1>1, <2>1, <2>2
<1>4. NoBlanks(SkipBlanks(s)) \in Seq(S)
    BY <1>2, NoBlanksType
<1>5. Occurs(SkipBlanks(s), a \o SkipBlanks(s))
    BY <1>2, OccursInConcat
<1>6. <<>> \o NoBlanks(SkipBlanks(s)) = NoBlanks(SkipBlanks(s))
    BY <1>4, ConcatEmptySeq
<1> QED
    BY <1>1, <1>2, <1>3, <1>5, <1>6

-----------------------------------------------------------------------------
(* The modifiers.                                                          *)

\* A text without one of its pieces is a text with no piece it had not.
LEMMA RemoveAtFacts ==
    ASSUME NEW S, NEW s \in Seq(S), NEW k \in 1 .. Len(s)
    PROVE  /\ RemoveAt(s, k) \in Seq(S)
           /\ \A e : Contains(RemoveAt(s, k), e) => Contains(s, e)
<1> DEFINE a == SubSeq(s, 1, k - 1)
           b == SubSeq(s, k + 1, Len(s))
<1>1. a \in Seq(S) /\ b \in Seq(S)
    BY SplitAt
<1>2. /\ Len(a) = k - 1 /\ \A n \in 1 .. Len(a) : a[n] = s[n] /\ n \in 1 .. Len(s)
      /\ Len(b) = Len(s) - k /\ \A n \in 1 .. Len(b) : b[n] = s[k + n] /\ k + n \in 1 .. Len(s)
    OBVIOUS
<1>3. RemoveAt(s, k) = a \o b
    BY DEF RemoveAt
<1> HIDE DEF a, b
<1>4. /\ a \o b \in Seq(S) /\ Len(a \o b) = Len(a) + Len(b) /\ Len(a) \in Nat /\ Len(b) \in Nat
      /\ \A n \in 1 .. Len(a) + Len(b) :
             (a \o b)[n] = IF n <= Len(a) THEN a[n] ELSE b[n - Len(a)]
    BY <1>1, ConcatProperties
<1>5. ASSUME NEW e, Contains(a \o b, e) PROVE Contains(s, e)
    <2>1. PICK n \in 1 .. Len(a) + Len(b) : (a \o b)[n] = e
        BY <1>4, <1>5 DEF Contains
    <2>2. CASE n <= Len(a)
        <3>1. n \in 1 .. Len(a) /\ a[n] = e
            BY <1>4, <2>1, <2>2
        <3> QED
            BY <1>2, <3>1 DEF Contains
    <2>3. CASE ~(n <= Len(a))
        <3>1. n - Len(a) \in 1 .. Len(b) /\ b[n - Len(a)] = e
            BY <1>4, <2>1, <2>3
        <3>2. s[k + (n - Len(a))] = e /\ k + (n - Len(a)) \in 1 .. Len(s)
            BY <1>2, <3>1
        <3> QED
            BY <3>2 DEF Contains
    <2> QED
        BY <2>2, <2>3
<1> QED
    BY <1>3, <1>4, <1>5

\* StrDel takes one place of the word out, or nothing; what it leaves has no
\* other words than before.
LEMMA StrDelFacts ==
    ASSUME NEW S, NEW s \in Seq(S), NEW w
    PROVE  /\ StrDel(s, w) \in Seq(S)
           /\ ~Contains(s, w) => StrDel(s, w) = s
           /\ Contains(s, w) => \E k \in 1 .. Len(s) : s[k] = w /\ StrDel(s, w) = RemoveAt(s, k)
           /\ \A e : Contains(StrDel(s, w), e) => Contains(s, e)
<1>1. CASE Contains(s, w)
    <2>1. PICK k : IsFirst(k, s, w) /\ RemoveFirst(s, w) = RemoveAt(s, k)
        BY <1>1, RemoveFirstFacts
    <2>2. k \in 1 .. Len(s) /\ s[k] = w /\ StrDel(s, w) = RemoveAt(s, k)
        BY <2>1 DEF IsFirst, StrDel
    <2>3. RemoveAt(s, k) \in Seq(S) /\ \A e : Contains(RemoveAt(s, k), e) => Contains(s, e)
        BY <2>2, RemoveAtFacts
    <2> QED
        BY <1>1, <2>2, <2>3
<1>2. CASE ~Contains(s, w)
    <2>1. StrDel(s, w) = s
        BY <1>2, RemoveFirstFacts DEF StrDel
    <2> QED
        BY <1>2, <2>1
<1> QED
    BY <1>1, <1>2

\* Of three words at most one of which is in the text, at most one place goes.
LEMMA OneDeleted ==
    ASSUME NEW S, NEW s \in Seq(S), NEW u, NEW v, NEW w,
           ~(Contains(s, u) /\ Contains(s, v)), ~(Contains(s, u) /\ Contains(s, w)),
           ~(Contains(s, v) /\ Contains(s, w))
    PROVE  LET t == StrDel(StrDel(StrDel(s, u), v), w)
           IN  \/ t = s /\ ~Contains(s, u) /\ ~Contains(s, v) /\ ~Contains(s, w)
               \/ \E x \in {u, v, w}, k \in 1 .. Len(s) :
                      Contains(s, x) /\ s[k] = x /\ t = RemoveAt(s, k)
<1> DEFINE a == StrDel(s, u)
           b == StrDel(a, v)
           t == StrDel(b, w)
<1>1. /\ a \in Seq(S)
      /\ ~Contains(s, u) => a = s
      /\ Contains(s, u) => \E k \in 1 .. Len(s) : s[k] = u /\ a = RemoveAt(s, k)
      /\ \A e : Contains(a, e) => Contains(s, e)
    BY StrDelFacts
<1> HIDE DEF a
<1>2. /\ b \in Seq(S)
      /\ ~Contains(a, v) => b = a
      /\ Contains(a, v) => \E k \in 1 .. Len(a) : a[k] = v /\ b = RemoveAt(a, k)
      /\ \A e : Contains(b, e) => Contains(a, e)
    BY <1>1, StrDelFacts
<1> HIDE DEF b
<1>3. /\ ~Contains(b, w) => t = b
      /\ Contains(b, w) => \E k \in 1 .. Len(b) : b[k] = w /\ t = RemoveAt(b, k)
    BY <1>2, StrDelFacts
<1> HIDE DEF t
<1>4. \/ t = s /\ ~Contains(s, u) /\ ~Contains(s, v) /\ ~Contains(s, w)
      \/ \E x \in {u, v, w}, k \in 1 .. Len(s) :
             Contains(s, x) /\ s[k] = x /\ t = RemoveAt(s, k)
    <2>1. CASE Contains(s, u)
        <3>1. t = a
            BY <1>1, <1>2, <1>3, <2>1
        <3> QED
            BY <1>1, <2>1, <3>1
    <2>2. CASE ~Contains(s, u) /\ Contains(s, v)
        <3>1. a = s /\ t = b
            BY <1>1, <1>2, <1>3, <2>2
        <3> QED
            BY <1>2, <2>2, <3>1
    <2>3. CASE ~Contains(s, u) /\ ~Contains(s, v)
        <3>1. a = s /\ b = s
            BY <1>1, <1>2, <2>3
        <3> QED
            BY <1>3, <2>3, <3>1
    <2> QED
        BY <2>1, <2>2, <2>3
<1> QED
    BY <1>4 DEF a, b, t

\* Two elements of a finite set are two.
LEMMA AtMostOne ==
    ASSUME NEW X, IsFiniteSet(X), Cardinality(X) <= 1, NEW x \in X, NEW y \in X
    PROVE  x = y
<1>1. SUFFICES ASSUME x # y PROVE FALSE
    OBVIOUS
<1>2. Cardinality({x}) = 1 /\ IsFiniteSet({x})
    BY FS_Singleton
<1>3. Cardinality({x} \union {y}) = 2 /\ IsFiniteSet({x} \union {y})
    BY <1>1, <1>2, FS_AddElement
<1>4. {x} \union {y} \subseteq X
    OBVIOUS
<1>5. Cardinality({x} \union {y}) <= Cardinality(X)
    BY <1>4, FS_Subset
<1>6. Cardinality(X) \in Nat
    BY FS_CardinalityType
<1> QED
    BY <1>3, <1>5, <1>6

\* One piece is a text.
LEMMA OnePiece ==
    ASSUME NEW S, NEW c \in S
    PROVE  <<c>> \in Seq(S)
OBVIOUS

\* What the parser cuts at are texts of one piece.
LEMMA SeparatorsAreTexts == <<",">> \in Seq(Pieces) /\ <<" ">> \in Seq(Pieces)
<1>1. "," \in Pieces /\ " " \in Pieces
    BY DEF Pieces
<1> QED
    BY <1>1, OnePiece

\* What the caller passes is a text.
LEMMA TextsAreTexts == Texts \subseteq Seq(Pieces)
<1>1. STRING \subseteq Pieces
    BY DEF Pieces
<1>2. \A s \in Texts : s \in Seq(STRING)
    BY ParserAssumption
<1> QED
    BY <1>1, <1>2, SeqMonotonic

\* Cutting a text at its first blank loses a blank only.
LEMMA CutAtBlank ==
    ASSUME NEW s \in Seq(Pieces)
    PROVE  NoBlanks(s) = NoBlanks(Before(s, " ")) \o NoBlanks(After(s, " "))
<1> DEFINE a == Before(s, " ")
           b == After(s, " ")
<1>1. /\ a \in Seq(Pieces) /\ b \in Seq(Pieces)
      /\ Contains(s, " ") => s = (a \o <<" ">>) \o b
      /\ ~Contains(s, " ") => a = s /\ b = <<>>
    BY BeforeAfter
<1> HIDE DEF a, b
<1>2. NoBlanks(a) \in Seq(Pieces) /\ NoBlanks(b) \in Seq(Pieces)
    BY <1>1, NoBlanksType
<1>3. NoBlanks(a) \o <<>> = NoBlanks(a)
    BY <1>2, ConcatEmptySeq
<1>4. CASE Contains(s, " ")
    <2>1. <<" ">> \in Seq(Pieces)
        BY SeparatorsAreTexts
    <2>2. NoBlanks(<<" ">>) = <<>>
        <3>1. " " \in Pieces /\ " " \in Blanks
            BY DEF Pieces, Blanks
        <3> QED
            BY <3>1, NoBlanksOne
    <2>3. a \o <<" ">> \in Seq(Pieces)
        BY <1>1, <2>1, ConcatProperties
    <2>4. NoBlanks(s) = NoBlanks(a \o <<" ">>) \o NoBlanks(b)
        BY <1>1, <1>4, <2>3, NoBlanksConcat
    <2>5. NoBlanks(a \o <<" ">>) = NoBlanks(a) \o NoBlanks(<<" ">>)
        BY <1>1, <2>1, NoBlanksConcat
    <2>6. NoBlanks(s) = NoBlanks(a) \o NoBlanks(b)
        BY ONLY <1>3, <2>2, <2>4, <2>5
    <2> QED
        BY <2>6 DEF a, b
<1>5. CASE ~Contains(s, " ")
    <2>1. a = s /\ NoBlanks(b) = <<>>
        BY <1>1, <1>5, NoBlanksEmpty
    <2>2. NoBlanks(s) = NoBlanks(a) \o NoBlanks(b)
        BY ONLY <1>3, <2>1
    <2> QED
        BY <2>2 DEF a, b
<1> QED
    BY <1>4, <1>5

\* A prefix is a word of the table, in which no piece is a blank.
LEMMA PrefixFacts ==
    ASSUME NEW token
    PROVE  /\ PrefixFromString(token) \in {"NONE", "LOCK", "REP", "REPNEZ"}
           /\ PrefixFromString(<<>>) = "NONE"
           /\ PrefixFromString(token) # "NONE" => token \in PrefixWords
<1>1. PrefixFromString(token) \in {"NONE", "LOCK", "REP", "REPNEZ"}
    BY DEF PrefixFromString
<1>2. PrefixFromString(<<>>) = "NONE"
    BY DEF PrefixFromString
<1>3. PrefixFromString(token) # "NONE" => token \in PrefixWords
    BY DEF PrefixFromString, PrefixWords
<1> QED
    BY <1>1, <1>2, <1>3

\* A prefix has no blanks to lose.
LEMMA NoBlanksPrefix ==
    ASSUME NEW p \in PrefixWords
    PROVE  NoBlanks(p) = p
<1>1. CASE p = <<>>
    BY <1>1, NoBlanksEmpty
<1>2. ASSUME NEW w \in {"lock", "rep", "repe", "repz", "repne", "repnz"}, p = <<w>>
      PROVE  NoBlanks(p) = p
    <2>1. w \notin Blanks
        BY <1>2 DEF Blanks
    <2>2. w \in {w}
        OBVIOUS
    <2>3. NoBlanks(<<w>>) = <<w>>
        BY <2>1, <2>2, NoBlanksOne
    <2> QED
        BY <1>2, <2>3
<1> QED
    BY <1>1, <1>2 DEF PrefixWords

-----------------------------------------------------------------------------
(* The numbers.                                                            *)

\* The function Number takes its value from, for n digits.
Evaluates(f, s, radix, n) ==
    f = [x \in SUBSET (1 .. n) |->
            IF x = {} THEN 0 ELSE f[x \ {Max(x)}] * radix + Digits[s[Max(x)]]]

\* A digit has a value.
LEMMA DigitsAreNat ==
    ASSUME NEW c \in DOMAIN Digits
    PROVE  Digits[c] \in Nat
BY DEF Digits

\* There is such a function.
LEMMA EvaluatesSolution ==
    ASSUME NEW n \in Nat, NEW s, NEW radix \in Nat, \A k \in 1 .. n : s[k] \in DOMAIN Digits
    PROVE  \E f : Evaluates(f, s, radix, n) /\ \A x \in SUBSET (1 .. n) : f[x] \in Nat
<1> DEFINE D == DOMAIN Digits
           op == [p \in Nat \X D |-> p[1] * radix + Digits[p[2]]]
<1>1. \A v \in Nat, c \in D : v * radix + Digits[c] \in Nat
    BY DigitsAreNat
<1> HIDE DEF D
<1>2. op \in [Nat \X D -> Nat] /\ \A v \in Nat, c \in D : op[<<v, c>>] = v * radix + Digits[c]
    BY <1>1
<1> HIDE DEF op
<1>3. PICK f \in [SUBSET (1 .. n) -> Nat] : Folds(f, op, 0, s, n)
    <2>1. 0 \in Nat /\ n \in Nat /\ \A k \in 1 .. n : s[k] \in D
        BY DEF D
    <2> QED
        BY ONLY <1>2, <2>1, FoldSolution
<1>4. \A x \in SUBSET (1 .. n) : f[x] = IF x = {} THEN 0 ELSE op[<<f[x \ {Max(x)}], s[Max(x)]>>]
    BY <1>3 DEF Folds
<1>5. ASSUME NEW x \in SUBSET (1 .. n), x # {}
      PROVE  f[x \ {Max(x)}] \in Nat /\ s[Max(x)] \in D
    <2>1. Max(x) \in x
        BY <1>5, GreatestUpTo
    <2> QED
        BY <2>1 DEF D
<1> DEFINE g == [x \in SUBSET (1 .. n) |->
                    IF x = {} THEN 0 ELSE f[x \ {Max(x)}] * radix + Digits[s[Max(x)]]]
<1>6. \A x \in SUBSET (1 .. n) : f[x] = g[x]
    <2>1. ASSUME NEW x \in SUBSET (1 .. n), x # {} PROVE f[x] = g[x]
        BY <1>2, <1>4, <1>5, <2>1
    <2>2. f[{}] = g[{}]
        BY <1>4
    <2> QED
        BY <2>1, <2>2
<1>7. f = g
    BY <1>6
<1>8. Evaluates(f, s, radix, n)
    BY <1>7 DEF Evaluates
<1> QED
    BY <1>8

\* Two such functions, for a number and the start of another, agree.
LEMMA EvaluatesUnique ==
    ASSUME NEW m \in Nat, NEW n \in Nat, m <= n, NEW radix,
           NEW a, NEW b, \A k \in 1 .. m : a[k] = b[k],
           NEW f, NEW g, Evaluates(f, a, radix, m), Evaluates(g, b, radix, n)
    PROVE  Agree(f, g, m)
<1>1. {} \in SUBSET (1 .. m) /\ \A x \in SUBSET (1 .. m) : x \in SUBSET (1 .. n)
    OBVIOUS
<1>2. f[{}] = g[{}]
    BY <1>1 DEF Evaluates
<1>3. ASSUME NEW x \in SUBSET (1 .. m), x # {}, f[x \ {Max(x)}] = g[x \ {Max(x)}]
      PROVE  f[x] = g[x]
    <2>1. Max(x) \in 1 .. m
        BY <1>3, GreatestUpTo
    <2>2. a[Max(x)] = b[Max(x)]
        BY <2>1
    <2>3. f[x] = f[x \ {Max(x)}] * radix + Digits[a[Max(x)]]
        BY <1>3 DEF Evaluates
    <2>4. g[x] = g[x \ {Max(x)}] * radix + Digits[b[Max(x)]]
        BY <1>1, <1>3 DEF Evaluates
    <2> QED
        BY <1>3, <2>2, <2>3, <2>4
<1>4. \A x \in SUBSET (1 .. m) :
          x # {} /\ f[x \ {Max(x)}] = g[x \ {Max(x)}] => f[x] = g[x]
    BY <1>3
<1>5. m \in Nat
    OBVIOUS
<1> QED
    BY ONLY <1>2, <1>4, <1>5, FoldSame

\* Number takes its value from such a function.
LEMMA NumberValue ==
    ASSUME NEW s \in Seq(DOMAIN Digits), NEW radix \in Nat
    PROVE  \E f : /\ Evaluates(f, s, radix, Len(s)) /\ Number(s, radix) = f[1 .. Len(s)]
                  /\ \A x \in SUBSET (1 .. Len(s)) : f[x] \in Nat
<1> DEFINE iter == CHOOSE f : f = [x \in SUBSET (DOMAIN s) |->
                        IF x = {} THEN 0 ELSE f[x \ {Max(x)}] * radix + Digits[s[Max(x)]]]
<1>1. Len(s) \in Nat /\ DOMAIN s = 1 .. Len(s) /\ \A k \in 1 .. Len(s) : s[k] \in DOMAIN Digits
    OBVIOUS
<1>2. Number(s, radix) = iter[DOMAIN s]
    BY DEF Number, FoldLeft, MapThenFoldSet
<1>3. PICK h : Evaluates(h, s, radix, Len(s)) /\ \A x \in SUBSET (1 .. Len(s)) : h[x] \in Nat
    BY <1>1, EvaluatesSolution
<1>4. \E f : f = [x \in SUBSET (DOMAIN s) |->
                        IF x = {} THEN 0 ELSE f[x \ {Max(x)}] * radix + Digits[s[Max(x)]]]
    BY <1>1, <1>3 DEF Evaluates
<1>5. Evaluates(iter, s, radix, Len(s))
    BY <1>1, <1>4 DEF Evaluates
<1> HIDE DEF iter
<1>6. \A x \in SUBSET (1 .. Len(s)) : h[x] = iter[x]
    <2>1. Len(s) <= Len(s) /\ \A k \in 1 .. Len(s) : s[k] = s[k]
        BY <1>1
    <2>2. Agree(h, iter, Len(s))
        BY ONLY <1>1, <1>3, <1>5, <2>1, EvaluatesUnique
    <2> QED
        BY <2>2 DEF Agree
<1> QED
    BY <1>1, <1>2, <1>3, <1>5, <1>6

\* The number of some digits is a natural number.
LEMMA NumberType ==
    ASSUME NEW s \in Seq(DOMAIN Digits), NEW radix \in Nat
    PROVE  Number(s, radix) \in Nat
<1>1. 1 .. Len(s) \in SUBSET (1 .. Len(s))
    OBVIOUS
<1> QED
    BY <1>1, NumberValue

\* The steps past a sign, a marker and a zero leave the end of the token.
LEMMA EndsOfTokens ==
    ASSUME NEW S, NEW s \in Seq(S), NEW radix
    PROVE  /\ AfterSign(s) \in Seq(S) /\ AfterMarker(s, radix) \in Seq(S) /\ AfterZero(s) \in Seq(S)
           /\ s # <<>> => Tail(s) \in Seq(S)
           /\ Len(s) >= 2 => SubSeq(s, 3, Len(s)) \in Seq(S)
<1>1. s # <<>> => Tail(s) \in Seq(S)
    OBVIOUS
<1>2. Len(s) >= 2 => SubSeq(s, 3, Len(s)) \in Seq(S) /\ s # <<>>
    OBVIOUS
<1>3. AfterSign(s) \in Seq(S)
    BY <1>1 DEF AfterSign
<1>4. AfterMarker(s, radix) \in Seq(S)
    <2>1. Len(s) >= 3 => Len(s) >= 2
        OBVIOUS
    <2> QED
        BY <1>2, <2>1 DEF AfterMarker
<1>5. AfterZero(s) \in Seq(S)
    BY <1>1, <1>2 DEF AfterZero
<1> QED
    BY <1>1, <1>2, <1>3, <1>4, <1>5

\* A number of 64 bits, or none.
Value64(r) == r.ok => r.value \in 0 .. QwordModulus - 1

\* The complement of a number of 64 bits is one.
LEMMA NegateType ==
    ASSUME NEW v \in 0 .. QwordModulus - 1
    PROVE  Negate(v) \in 0 .. QwordModulus - 1
<1>1. QwordModulus \in Nat /\ QwordModulus # 0
    BY NumbersAssumption
<1> QED
    BY <1>1 DEF Negate

\* convertNumber gives a number of 64 bits.
LEMMA ConvertFacts ==
    ASSUME NEW S, NEW s \in Seq(S), NEW radix \in Nat
    PROVE  Value64(convertNumber(s, radix))
<1>1. CASE ~IsNumber(s, radix)
    BY <1>1 DEF convertNumber, None, Value64
<1>2. CASE IsNumber(s, radix)
    <2> DEFINE digits == AfterMarker(AfterSign(s), radix)
               n == Number(digits, radix)
    <2>1. digits \in Seq(S)
        BY EndsOfTokens
    <2>2. \A k \in 1 .. Len(digits) : digits[k] \in DOMAIN Digits
        BY <1>2 DEF IsNumber, IsDigit
    <2>3. digits \in Seq(DOMAIN Digits)
        <3> HIDE DEF digits
        <3> QED
            BY <2>1, <2>2
    <2>4. n \in Nat
        BY <2>3, NumberType
    <2>5. QwordModulus \in Nat /\ QwordModulus # 0
        BY NumbersAssumption
    <2>6. strtoull(s, radix).value = IF n >= QwordModulus THEN QwordModulus - 1
                                     ELSE IF AfterSign(s) = s THEN n ELSE Negate(n)
        BY DEF strtoull
    <2> HIDE DEF n
    <2>7. strtoull(s, radix).value \in 0 .. QwordModulus - 1
        BY <2>4, <2>5, <2>6, NegateType
    <2> QED
        BY <1>2, <2>7 DEF convertNumber, None, Some, Value64
<1> QED
    BY <1>1, <1>2

\* valfromstring does too.
LEMMA ValueFacts ==
    ASSUME NEW S, NEW text \in Seq(S)
    PROVE  Value64(valfromstring(text))
<1>1. ASSUME NEW s \in Seq(S) PROVE Value64(Unsigned(s))
    <2>1. 2 \in Nat /\ 8 \in Nat /\ 10 \in Nat /\ 16 \in Nat
        OBVIOUS
    <2>2. \A t \in Seq(S), radix \in Nat : Value64(convertNumber(t, radix))
        BY ConvertFacts
    <2>3. CASE s = <<>>
        <3>1. Unsigned(s) = convertNumber(s, 16)
            BY <2>3 DEF Unsigned, Marked
        <3> QED
            BY <2>1, <2>2, <3>1
    <2>4. CASE s # <<>>
        <3>1. Tail(s) \in Seq(S) /\ (Len(s) >= 2 => SubSeq(s, 3, Len(s)) \in Seq(S))
            BY <2>4, EndsOfTokens
        <3>2. \/ Unsigned(s) = convertNumber(Tail(s), 8) \/ Unsigned(s) = convertNumber(Tail(s), 10)
              \/ Unsigned(s) = convertNumber(Tail(s), 16) \/ Unsigned(s) = convertNumber(s, 16)
              \/ Len(s) >= 2 /\ Unsigned(s) = convertNumber(SubSeq(s, 3, Len(s)), 2)
            BY <2>4 DEF Unsigned, Marked
        <3> QED
            BY <2>1, <2>2, <3>1, <3>2
    <2> QED
        BY <2>3, <2>4
<1>2. CASE text = <<>>
    BY <1>2 DEF valfromstring, None, Value64
<1>3. CASE text # <<>>
    <2> DEFINE s == AfterZero(IF text[1] = "-" THEN Tail(text) ELSE text)
    <2>1. s \in Seq(S)
        BY <1>3, EndsOfTokens
    <2>2. Value64(Unsigned(s))
        BY <1>1, <2>1
    <2>3. valfromstring(text) = IF Unsigned(s).ok /\ text[1] = "-" THEN Some(Negate(Unsigned(s).value))
                                ELSE Unsigned(s)
        BY <1>3 DEF valfromstring
    <2> HIDE DEF s
    <2> QED
        BY <2>2, <2>3, NegateType DEF Value64, Some
<1> QED
    BY <1>2, <1>3

\* The two parts of a selector pair.
LEMMA SelectorParts ==
    ASSUME NEW S, NEW s \in Seq(S)
    PROVE  SelectorText(s) \in Seq(S) /\ OffsetText(s) \in Seq(S)
<1>1. Len(s) \in Nat /\ \A k \in 1 .. Len(s) : s[k] \in S
    OBVIOUS
<1>2. SelectInSeq(s, LAMBDA c : c = ":") \in 0 .. Len(s)
    <2> DEFINE I == {m \in 1 .. Len(s) : s[m] = ":"}
    <2>1. I # {} => Min(I) \in I
        <3>1. I \subseteq Nat
            OBVIOUS
        <3> HIDE DEF I
        <3> QED
            BY <3>1, LeastNat
    <2> QED
        BY <1>1, <2>1 DEF SelectInSeq
<1>3. SelectLastInSeq(s, LAMBDA c : c = ":") \in 0 .. Len(s)
    <2> DEFINE I == {m \in 1 .. Len(s) : s[m] = ":"}
    <2>1. I # {} => Max(I) \in I
        BY <1>1, GreatestUpTo
    <2> QED
        BY <1>1, <2>1 DEF SelectLastInSeq
<1> QED
    BY <1>1, <1>2, <1>3 DEF SelectorText, OffsetText

-----------------------------------------------------------------------------
(* The names.                                                              *)

StringD == {<<"movs", "d">>, <<"cmps", "d">>}
SseD == {<<"movs", "d", "_xmm">>, <<"cmps", "d", "_xmm">>}

\* A special case of an operand takes nothing to the string instructions, and
\* them away if the operand is an XMM register; it takes to their SSE names
\* with such a register alone; and no name with j is made.
LEMMA RegisterAliasFacts ==
    ASSUME NEW m, NEW kind
    PROVE  /\ RegisterAlias(m, kind) \in StringD => RegisterAlias(m, kind) = m /\ kind # "xmm"
           /\ RegisterAlias(m, kind) \in SseD => m \in SseD \/ kind = "xmm"
           /\ Len(RegisterAlias(m, kind)) = 2 /\ RegisterAlias(m, kind)[1] = "j" => RegisterAlias(m, kind) = m
<1>1. \/ RegisterAlias(m, kind) = m
      \/ RegisterAlias(m, kind) \in {<<"mov", "_cr">>, <<"mov", "_dr">>}
      \/ kind = "xmm" /\ RegisterAlias(m, kind) \in SseD \union {<<"pextrw", "_sse4">>}
    BY DEF RegisterAlias, XmmAlias, SseD
<1>2. kind = "xmm" => RegisterAlias(m, kind) \notin StringD
    BY DEF RegisterAlias, XmmAlias, StringD
<1>3. RegisterAlias(m, kind) \in StringD => RegisterAlias(m, kind) = m /\ kind # "xmm"
    BY <1>1, <1>2 DEF StringD, SseD
<1>4. RegisterAlias(m, kind) \in SseD => m \in SseD \/ kind = "xmm"
    BY <1>1 DEF SseD
<1>5. Len(RegisterAlias(m, kind)) = 2 /\ RegisterAlias(m, kind)[1] = "j" => RegisterAlias(m, kind) = m
    BY <1>1 DEF SseD
<1> QED
    BY <1>3, <1>4, <1>5

\* What is named as a string instruction is one in the text already, and a jump
\* on a condition is a jump in the text, whose condition is the alias.
LEMMA NamesFacts ==
    ASSUME NEW m, NEW is64, NEW isFar
    PROVE  LET named == SaveFlags(IF isFar THEN FarAlias(m) ELSE m, is64)
               xed == MnemonicToXed(named)
           IN  /\ xed # <<>> /\ xed[1] \in StringStems => xed = named /\ xed = m
               /\ /\ xed \in XedClasses
                  /\ xed[1] = "j" /\ xed[2] \in Conditions
                  => /\ Len(m) = 2 /\ m[1] = "j"
                     /\ xed[2] = JumpCondition(m[2])
<1> DEFINE far == IF isFar THEN FarAlias(m) ELSE m
           named == SaveFlags(far, is64)
           xed == MnemonicToXed(named)
<1>0. ASSUME NEW x, NEW y PROVE Append(<<x>>, y) = <<x, y>>
    <2> DEFINE s == <<x>>
    <2>1. s \in Seq({x, y}) /\ Len(s) = 1 /\ s[1] = x /\ y \in {x, y}
        OBVIOUS
    <2>2. <<x, y>> \in Seq({x, y}) /\ Len(<<x, y>>) = 2
        OBVIOUS
    <2> HIDE DEF s
    <2>3. Append(s, y) \in Seq({x, y}) /\ Len(Append(s, y)) = 2 /\ Append(s, y)[1] = x /\ Append(s, y)[2] = y
        <3> DEFINE S == {x, y}
        <3>1. s \in Seq(S) /\ y \in S
            BY <2>1
        <3> HIDE DEF S
        <3>2. Append(s, y) \in Seq(S) /\ Len(Append(s, y)) = Len(s) + 1
              /\ (\A k \in 1 .. Len(s) : Append(s, y)[k] = s[k]) /\ Append(s, y)[Len(s) + 1] = y
            BY <3>1, AppendProperties
        <3> QED
            BY <2>1, <3>2 DEF S
    <2>4. \A k \in 1 .. 2 : k = 1 \/ k = 2
        OBVIOUS
    <2>5. \A k \in 1 .. Len(Append(s, y)) : Append(s, y)[k] = <<x, y>>[k]
        BY <2>3, <2>4
    <2>6. Append(s, y) = <<x, y>>
        BY <2>2, <2>3, <2>5, SeqEqual
    <2> QED
        BY <2>6 DEF s
<1>1. far = m \/ far \in {<<"call", "_far">>, <<"jmp", "_far">>, <<"ret", "_far">>}
    BY <1>0 DEF FarAlias
<1> HIDE DEF far
<1>2. named = far \/ named \in {<<"pushf", "q">>, <<"popf", "q">>, <<"pushf", "d">>, <<"popf", "d">>}
    BY <1>0 DEF SaveFlags
<1> HIDE DEF named
<1>3. \A n : \/ OtherAlias(n) = n
             \/ OtherAlias(n) # <<>> /\ OtherAlias(n)[1] \notin StringStems \union {"j"}
             \/ OtherAlias(n) = <<"j", "rcxz">>
    <2> TAKE n
    <2>1. CASE n \in {<<"f", s>> : s \in {"stenv", "stcw", "clex", "init", "save", "stsw"}}
        <3>1. OtherAlias(n) = <<"f", "n", n[2]>>
            BY <2>1 DEF OtherAlias
        <3> QED
            BY <3>1 DEF StringStems
    <2>2. CASE n \notin {<<"f", s>> : s \in {"stenv", "stcw", "clex", "init", "save", "stsw"}}
        <3>0. /\ Append(<<"pushf">>, "d") = <<"pushf", "d">> /\ Append(<<"popf">>, "d") = <<"popf", "d">>
              /\ Append(<<"pusha">>, "d") = <<"pusha", "d">> /\ Append(<<"popa">>, "d") = <<"popa", "d">>
            BY <1>0
        <3>1. CASE n \in {<<"pushf">>, <<"popf">>, <<"pusha">>, <<"popa">>}
            <4>1. OtherAlias(n) = Append(n, "d")
                BY <3>1 DEF OtherAlias
            <4> QED
                BY <3>0, <3>1, <4>1 DEF StringStems
        <3>2. CASE n \notin {<<"pushf">>, <<"popf">>, <<"pusha">>, <<"popa">>}
            <4>1. \/ OtherAlias(n) = n \/ OtherAlias(n) = <<"j", "rcxz">>
                  \/ OtherAlias(n) = <<"shl">> \/ OtherAlias(n) = <<"ret", "_far">>
                  \/ OtherAlias(n) = <<"ret", "_near">> \/ OtherAlias(n) = <<"call", "_near">>
                  \/ OtherAlias(n) = <<"call", "_far">> \/ OtherAlias(n) = <<"jmp", "_far">>
                  \/ OtherAlias(n) = <<"loope">> \/ OtherAlias(n) = <<"loopne">>
                  \/ OtherAlias(n) = <<"mov">> \/ OtherAlias(n) = <<"mwait">>
                  \/ OtherAlias(n) = <<"xlat">> \/ OtherAlias(n) = <<"int1">>
                BY <2>2, <3>2 DEF OtherAlias
            <4> QED
                BY <4>1 DEF StringStems
        <3> QED
            BY <3>1, <3>2
    <2> QED
        BY <2>1, <2>2
<1>4. CASE Len(named) = 2 /\ named[1] = "j"
    <2>1. xed = OtherAlias(<<"j", JumpCondition(named[2])>>)
        BY <1>4 DEF MnemonicToXed
    <2>2. \/ xed = <<"j", JumpCondition(named[2])>>
          \/ xed # <<>> /\ xed[1] \notin StringStems \union {"j"}
          \/ xed = <<"j", "rcxz">>
        BY <1>3, <2>1
    <2>3. named = m
        BY <1>1, <1>2, <1>4
    <2> HIDE DEF xed
    <2>4. ~(xed # <<>> /\ xed[1] \in StringStems)
        BY <2>2 DEF StringStems
    <2>5. xed[1] = "j" /\ xed[2] \in Conditions => xed = <<"j", JumpCondition(named[2])>>
        BY <2>2 DEF Conditions
    <2>6. xed[1] = "j" /\ xed[2] \in Conditions => xed[2] = JumpCondition(m[2])
        BY <2>3, <2>5
    <2> QED
        BY <1>4, <2>3, <2>4, <2>6 DEF xed, named, far
<1>5. CASE ~(Len(named) = 2 /\ named[1] = "j")
    <2>1. \/ xed = OtherAlias(named)
          \/ Len(named) = 2 /\ xed \in {<<"cmov", MoveCondition(named[2])>>, <<"set", SetCondition(named[2])>>}
        BY <1>5 DEF MnemonicToXed
    <2>2. \/ xed = named
          \/ xed # <<>> /\ xed[1] \notin StringStems \union {"j"}
          \/ xed = <<"j", "rcxz">>
        BY <1>3, <2>1 DEF StringStems
    <2> HIDE DEF xed
    <2>3. xed # <<>> /\ xed[1] \in StringStems => xed = named /\ xed = m
        <3>1. SUFFICES ASSUME xed # <<>>, xed[1] \in StringStems PROVE xed = named /\ xed = m
            OBVIOUS
        <3>2. xed = named
            BY <2>2, <3>1 DEF StringStems
        <3> QED
            BY <1>1, <1>2, <3>1, <3>2 DEF StringStems
    <2>4. xed \in XedClasses /\ xed[1] = "j" => Len(xed) = 2
        BY DEF XedClasses
    <2>5. ~(xed \in XedClasses /\ xed[1] = "j" /\ xed[2] \in Conditions)
        <3>1. "rcxz" \notin Conditions
            BY DEF Conditions
        <3> QED
            BY <1>5, <2>2, <2>4, <3>1
    <2> QED
        BY <2>3, <2>5 DEF xed, named, far
<1> QED
    BY <1>4, <1>5

\* A condition of XED and each of its other names hold for the same flags.
LEMMA SameFlags ==
    ASSUME NEW cc, JumpCondition(cc) \in Conditions, NEW f \in Flags
    PROVE  Holds(cc, f) = Holds(JumpCondition(cc), f)
<1>1. CASE JumpCondition(cc) = cc
    BY <1>1
<1>2. CASE JumpCondition(cc) # cc
    <2>1. cc \in {"nae", "c", "ae", "nc", "e", "ne", "na", "a", "pe", "po", "nge", "ge", "ng", "g"}
        BY <1>2 DEF JumpCondition, Jumps
    <2>2. cc \in {"nae", "c"} => JumpCondition(cc) = "b" /\ Holds(cc, f) = Holds("b", f)
        BY DEF JumpCondition, Jumps, Holds
    <2>3. cc \in {"ae", "nc"} => JumpCondition(cc) = "nb" /\ Holds(cc, f) = Holds("nb", f)
        BY DEF JumpCondition, Jumps, Holds
    <2>4. cc = "e" => JumpCondition(cc) = "z" /\ Holds(cc, f) = Holds("z", f)
        BY DEF JumpCondition, Jumps, Holds
    <2>5. cc = "ne" => JumpCondition(cc) = "nz" /\ Holds(cc, f) = Holds("nz", f)
        BY DEF JumpCondition, Jumps, Holds
    <2>6. cc = "na" => JumpCondition(cc) = "be" /\ Holds(cc, f) = Holds("be", f)
        BY DEF JumpCondition, Jumps, Holds
    <2>7. cc = "a" => JumpCondition(cc) = "nbe" /\ Holds(cc, f) = Holds("nbe", f)
        BY DEF JumpCondition, Jumps, Holds
    <2>8. cc = "pe" => JumpCondition(cc) = "p" /\ Holds(cc, f) = Holds("p", f)
        BY DEF JumpCondition, Jumps, Holds
    <2>9. cc = "po" => JumpCondition(cc) = "np" /\ Holds(cc, f) = Holds("np", f)
        BY DEF JumpCondition, Jumps, Holds
    <2>10. cc = "nge" => JumpCondition(cc) = "l" /\ Holds(cc, f) = Holds("l", f)
        BY DEF JumpCondition, Jumps, Holds
    <2>11. cc = "ge" => JumpCondition(cc) = "nl" /\ Holds(cc, f) = Holds("nl", f)
        BY DEF JumpCondition, Jumps, Holds
    <2>12. cc = "ng" => JumpCondition(cc) = "le" /\ Holds(cc, f) = Holds("le", f)
        BY DEF JumpCondition, Jumps, Holds
    <2>13. cc = "g" => JumpCondition(cc) = "nle" /\ Holds(cc, f) = Holds("nle", f)
        BY DEF JumpCondition, Jumps, Holds
    <2> QED
        BY <2>1, <2>2, <2>3, <2>4, <2>5, <2>6, <2>7, <2>8, <2>9, <2>10, <2>11, <2>12, <2>13
<1> QED
    BY <1>1, <1>2

-----------------------------------------------------------------------------
(* The inductive invariant.                                                *)

Comma == <<",">>

USE DEF MaxOperands

Going == result \in {"none", "true"}

\* The variables have their types; a mnemonic that has been cut is a text until
\* an operand changes it.
Typed ==
    /\ instr \in Texts /\ x64 \in BOOLEAN
    /\ Near \in BOOLEAN /\ Far \in BOOLEAN /\ Short \in BOOLEAN /\ more \in BOOLEAN
    /\ buf \in Seq(Pieces) /\ rest \in Seq(Pieces) /\ tokens \in Seq(Seq(Pieces))
    /\ Operands \in Seq(Operand) /\ OperandCount \in Nat /\ i \in Nat \ {0}
    /\ Prefix \in {"NONE", "LOCK", "REP", "REPNEZ"}
    /\ Class \in XedClasses \union {<<>>} /\ AddressSizeOverride \in {0, 16, 32, 64, Overwritten}
    /\ phase \in {"modifiers", "prefix", "mnemonic", "operands", "grab", "analyze", "special", "done"}
    /\ phase \in {"operands", "grab", "analyze"} \/ (phase = "special" /\ i = 1) =>
           Mnemonic \in Seq(Pieces)

\* After the modifiers at most one of them is named, and the text has lost
\* one piece that spells it, or nothing.
OneModifier ==
    /\ phase = "modifiers" => buf = instr
    /\ phase # "modifiers" /\ Going => Cardinality(Deleted) <= 1 /\ buf \in Remainders

\* What a phase has not yet touched.
Untouched ==
    /\ phase # "done" => /\ result = "none" /\ Class = <<>>
                         /\ OperandCount <= MaxOperands => AddressSizeOverride = 0
    /\ phase \in {"modifiers", "prefix", "mnemonic", "operands"} => tokens = <<>>
    /\ phase \in {"modifiers", "prefix", "mnemonic", "operands", "grab"} =>
           Operands = <<>> /\ OperandCount = 0
    /\ phase \notin {"special", "done"} => i = 1

\* How many tokens, operands and turns there are.
Counts ==
    /\ Len(tokens) <= MaxTokens /\ Len(Operands) <= Len(tokens) /\ OperandCount <= Len(tokens)
    /\ Len(Operands) <= MaxOperands
    /\ phase = "grab" => Len(tokens) < MaxTokens /\ more
    /\ phase = "analyze" => IF OperandCount <= MaxOperands THEN OperandCount = Len(Operands)
                            ELSE Len(Operands) = MaxOperands
    /\ phase = "special" => /\ OperandCount = Len(tokens) /\ OperandCount = Len(Operands)
                            /\ OperandCount <= MaxOperands /\ i <= OperandCount + 1
    /\ phase = "done" => i <= 5 /\ (result = "true" => OperandCount <= MaxOperands)

\* Every operand is what its token can be read as, and no token has a comma.
OperandsRead ==
    /\ \A k \in 1 .. Len(Operands) : Operands[k] \in Analyzed(tokens[k])
    /\ \A k \in 1 .. Len(tokens) : ~Contains(tokens[k], ",")

\* What follows the prefix: the mnemonic, what has been cut, and the rest.
Ahead ==
    CASE phase = "mnemonic" -> NoBlanks(rest)
      [] phase = "operands" -> NoBlanks(Mnemonic) \o NoBlanks(rest)
      [] phase = "grab"     -> NoBlanks(Mnemonic) \o
             (IF tokens = <<>> THEN rest ELSE JoinedWith(tokens, Comma) \o (Comma \o rest))
      [] OTHER              -> NoBlanks(Mnemonic) \o JoinedWith(tokens, Comma)

AllThere ==
    /\ phase \in {"mnemonic", "operands", "grab", "analyze"} \/ (phase = "special" /\ i = 1) =>
          \E p \in PrefixWords : /\ p \in Seq(Pieces) /\ PrefixFromString(p) = Prefix
                                 /\ NoBlanks(buf) = p \o Ahead
    /\ phase = "operands" /\ ~more => rest = <<>>

\* The mnemonic is a part of the text, and a name with j remains one.
MnemonicThere ==
    /\ phase = "mnemonic" => Occurs(rest, buf)
    /\ phase \in {"operands", "grab", "analyze"} => Occurs(Mnemonic, buf)
    /\ phase = "special" /\ Len(Mnemonic) = 2 /\ Mnemonic[1] = "j" => Occurs(Mnemonic, buf)

\* An XMM register among the operands that have been looked at has taken the
\* string instruction away, and only it or the text has brought its SSE name.
SseSoFar ==
    phase = "special" =>
        /\ (\E k \in 1 .. i - 1 : IsXmm(Operands[k])) => Mnemonic \notin StringD
        /\ Mnemonic \in SseD => (\E k \in 1 .. i - 1 : IsXmm(Operands[k])) \/ Contains(instr, "_xmm")

Outcome == SseOrString /\ StringAddressSize /\ JumpKeepsCondition

IInv == /\ Typed /\ OneModifier /\ Untouched /\ Counts /\ OperandsRead
        /\ AllThere /\ MnemonicThere /\ SseSoFar /\ Outcome

\* What the values of a number and of an address of a token may come from.
Callbacks == {None} \union {Some(v) : v \in Answers}

\* What an operand of a token is, as a register, as a memory operand, as a
\* selector with its offset and as a number.
RegisterOf(token, op) == op = [Blank EXCEPT !.Type = "REG", !.reg = Registers[token[1]]]
MemoryOf(token, op) ==
    \E b \in BracketsOf(token) : op = [Blank EXCEPT !.Type = "MEM", !.base = Brackets[b]]
SelectorOf(token, op) ==
    \E c \in Callbacks :
        /\ SegSel(token, c).ok
        /\ op = [Blank EXCEPT !.Type = "SEGSEL", !.Selector = SegSel(token, c).Selector,
                              !.Offset = SegSel(token, c).Offset]
NumberOf(token, op) ==
    \E r : /\ r.ok /\ op = [Blank EXCEPT !.imm = r.value]
           /\ IF valfromstring(token).ok THEN r = valfromstring(token) ELSE r \in Callbacks

\* An operand is the first of these that its token is.
LEMMA AnalyzedCases ==
    ASSUME NEW token, NEW op \in Analyzed(token)
    PROVE  /\ token # <<>>
           /\ IsRegister(token) => RegisterOf(token, op)
           /\ ~IsRegister(token) /\ BracketsOf(token) # {} => MemoryOf(token, op)
           /\ ~IsRegister(token) /\ BracketsOf(token) = {} /\ Contains(token, ":") =>
                 SelectorOf(token, op)
           /\ ~IsRegister(token) /\ BracketsOf(token) = {} /\ ~Contains(token, ":") =>
                 NumberOf(token, op)
<1> DEFINE callbacks == {None} \union {Some(v) : v \in Answers}
           unknown == IF valfromstring(token).ok THEN {valfromstring(token)} ELSE callbacks
<1> DEFINE register == {[Blank EXCEPT !.Type = "REG", !.reg = Registers[token[1]]]}
           memory == {[Blank EXCEPT !.Type = "MEM", !.base = Brackets[b]] : b \in BracketsOf(token)}
           selected == {[Blank EXCEPT !.Type = "SEGSEL", !.Selector = s.Selector, !.Offset = s.Offset] :
                            s \in {t \in {SegSel(token, c) : c \in callbacks} : t.ok}}
           number == {[Blank EXCEPT !.imm = r.value] : r \in {u \in unknown : u.ok}}
<1>0. op \in CASE token = <<>> -> {}
                [] IsRegister(token) -> register
                [] token # <<>> /\ ~IsRegister(token) /\ BracketsOf(token) # {} -> memory
                [] BracketsOf(token) = {} /\ Contains(token, ":") -> selected
                [] OTHER -> number
    BY DEF Analyzed
<1> HIDE DEF register, memory, selected, number
<1>2. /\ token # <<>>
      /\ IsRegister(token) => op \in register
      /\ ~IsRegister(token) /\ BracketsOf(token) # {} => op \in memory
      /\ ~IsRegister(token) /\ BracketsOf(token) = {} /\ Contains(token, ":") => op \in selected
      /\ ~IsRegister(token) /\ BracketsOf(token) = {} /\ ~Contains(token, ":") => op \in number
    <2> DEFINE none == token = <<>>
               isRegister == IsRegister(token)
               noBracket == BracketsOf(token) = {}
               colon == Contains(token, ":")
    <2>1. (isRegister => ~none /\ ~colon) /\ (none => ~colon)
        BY DEF IsRegister, Contains, Registers
    <2>2. op \in CASE none -> {}
                   [] isRegister -> register
                   [] ~none /\ ~isRegister /\ ~noBracket -> memory
                   [] noBracket /\ colon -> selected
                   [] OTHER -> number
        BY <1>0
    <2>3. /\ none \in BOOLEAN /\ isRegister \in BOOLEAN
          /\ noBracket \in BOOLEAN /\ colon \in BOOLEAN
        BY DEF IsRegister, Contains
    <2> HIDE DEF none, isRegister, noBracket, colon
    <2>4. /\ ~none
          /\ isRegister => op \in register
          /\ ~isRegister /\ ~noBracket => op \in memory
          /\ ~isRegister /\ noBracket /\ colon => op \in selected
          /\ ~isRegister /\ noBracket /\ ~colon => op \in number
        BY <2>1, <2>2, <2>3
    <2> QED
        BY <2>4 DEF none, isRegister, noBracket, colon
<1>3. op \in register => RegisterOf(token, op)
    BY DEF register, RegisterOf
<1>4. op \in memory => MemoryOf(token, op)
    BY DEF memory, MemoryOf
<1>5. op \in selected => SelectorOf(token, op)
    BY DEF selected, SelectorOf, Callbacks
<1>6. op \in number => NumberOf(token, op)
    <2> SUFFICES ASSUME op \in number PROVE NumberOf(token, op)
        OBVIOUS
    <2>1. PICK r \in unknown : r.ok /\ op = [Blank EXCEPT !.imm = r.value]
        BY DEF number
    <2> QED
        BY <2>1 DEF Callbacks, NumberOf
<1> HIDE DEF callbacks, unknown
<1> QED
    BY <1>2, <1>3, <1>4, <1>5, <1>6

\* AnalyzeOperand makes operands of texts that are not empty; one that names an
\* XMM register is a register.
LEMMA AnalyzedFacts ==
    ASSUME NEW token \in Seq(Pieces), NEW op \in Analyzed(token)
    PROVE  op \in Operand /\ token # <<>> /\ (op.reg = "xmm" => IsXmm(op))
<1>0. Callbacks = {None} \union {Some(v) : v \in Answers}
    BY DEF Callbacks
<1>1. Blank \in Operand /\ Blank.reg = "none"
    <2>1. 0 \in 0 .. QwordModulus - 1 /\ 0 \in 0 .. WordModulus - 1 /\ 0 \in 0 .. DwordModulus - 1
        BY NumbersAssumption
    <2> QED
        BY <2>1 DEF Blank, Operand
<1>3. ASSUME NEW c \in Callbacks PROVE Value64(c)
    <2>1. CASE c = None
        BY <2>1 DEF None, Value64
    <2>2. ASSUME NEW v \in Answers, c = Some(v) PROVE Value64(c)
        <3>1. v \in 0 .. QwordModulus - 1
            BY ParserAssumption
        <3> QED
            BY <2>2, <3>1 DEF Some, Value64
    <2> QED
        BY <1>0, <2>1, <2>2
<1>4. CASE IsRegister(token)
    <2>1. op = [Blank EXCEPT !.Type = "REG", !.reg = Registers[token[1]]]
        BY <1>4, AnalyzedCases DEF RegisterOf
    <2>2. Registers[token[1]] \in {"none", "plain", "control", "debug", "xmm"}
        BY <1>4 DEF IsRegister, Registers
    <2> QED
        BY <1>1, AnalyzedCases, <2>1, <2>2 DEF Operand, Blank, IsXmm
<1>5. CASE ~IsRegister(token) /\ BracketsOf(token) # {}
    <2>1. PICK b \in BracketsOf(token) : op = [Blank EXCEPT !.Type = "MEM", !.base = Brackets[b]]
        <3>1. MemoryOf(token, op)
            BY <1>5, AnalyzedCases
        <3> QED
            BY <3>1 DEF MemoryOf
    <2>2. Brackets[b] \in {0, 16, 32, 64}
        BY DEF BracketsOf, Brackets
    <2> QED
        BY <1>1, AnalyzedCases, <2>1, <2>2 DEF Operand, Blank
<1>6. CASE ~IsRegister(token) /\ BracketsOf(token) = {} /\ Contains(token, ":")
    <2>1. PICK c \in Callbacks : /\ SegSel(token, c).ok
                                 /\ op = [Blank EXCEPT !.Type = "SEGSEL", !.Selector = SegSel(token, c).Selector,
                                                       !.Offset = SegSel(token, c).Offset]
        <3>1. SelectorOf(token, op)
            BY <1>6, AnalyzedCases
        <3> QED
            BY <3>1 DEF SelectorOf
    <2> DEFINE selector == valfromstring(SelectorText(token))
               offsetNumber == valfromstring(OffsetText(token))
               offset == IF offsetNumber.ok THEN offsetNumber ELSE c
    <2>2. Value64(selector) /\ Value64(offsetNumber)
        <3>1. SelectorText(token) \in Seq(Pieces) /\ OffsetText(token) \in Seq(Pieces)
            BY SelectorParts
        <3> QED
            BY <3>1, ValueFacts
    <2>3. /\ selector.ok /\ offset.ok
          /\ op = [Blank EXCEPT !.Type = "SEGSEL", !.Selector = selector.value % WordModulus,
                                !.Offset = offset.value % DwordModulus]
        BY <2>1 DEF SegSel
    <2> HIDE DEF selector, offsetNumber
    <2>4. selector.value \in Nat /\ offset.value \in Nat
        BY <1>3, <2>2, <2>3, NumbersAssumption DEF Value64
    <2>5. /\ selector.value % WordModulus \in 0 .. WordModulus - 1
          /\ offset.value % DwordModulus \in 0 .. DwordModulus - 1
        <3> HIDE DEF offset
        <3>1. WordModulus \in Nat \ {0} /\ DwordModulus \in Nat \ {0}
            BY NumbersAssumption
        <3> QED
            BY <2>4, <3>1
    <2> HIDE DEF offset
    <2> QED
        BY <1>1, AnalyzedCases, <2>3, <2>5 DEF Operand, Blank
<1>7. CASE ~IsRegister(token) /\ BracketsOf(token) = {} /\ ~Contains(token, ":")
    <2>1. PICK r : /\ r.ok /\ op = [Blank EXCEPT !.imm = r.value]
                    /\ IF valfromstring(token).ok THEN r = valfromstring(token) ELSE r \in Callbacks
        <3>1. NumberOf(token, op)
            BY <1>7, AnalyzedCases
        <3> QED
            BY <3>1 DEF NumberOf
    <2>2. Value64(r)
        BY <1>3, <2>1, ValueFacts
    <2>3. r.value \in 0 .. QwordModulus - 1
        BY <2>1, <2>2 DEF Value64
    <2> QED
        BY <1>1, AnalyzedCases, <2>1, <2>3 DEF Operand, Blank
<1> QED
    BY <1>4, <1>5, <1>6, <1>7

-----------------------------------------------------------------------------
(* The steps.                                                              *)

\* A call begins with the invariant.
LEMMA InitIInv ==
    ASSUME Init
    PROVE  IInv
<1> USE DEF Init
<1>1. Typed
    <2>1. instr \in Seq(Pieces)
        BY TextsAreTexts
    <2>2. <<>> \in Seq(Pieces) /\ <<>> \in Seq(Seq(Pieces)) /\ <<>> \in Seq(Operand)
        BY EmptySeq
    <2>3. Class \in XedClasses \union {<<>>}
        OBVIOUS
    <2>4. instr \in Texts /\ x64 \in BOOLEAN /\ AddressSizeOverride \in {0, 16, 32, 64, Overwritten}
        OBVIOUS
    <2>5. Near \in BOOLEAN /\ Far \in BOOLEAN /\ Short \in BOOLEAN /\ more \in BOOLEAN
        BY Zenon
    <2>6. /\ OperandCount \in Nat /\ i \in Nat \ {0} /\ Prefix = "NONE" /\ phase = "modifiers"
        OBVIOUS
    <2>7. /\ buf \in Seq(Pieces) /\ rest \in Seq(Pieces) /\ tokens \in Seq(Seq(Pieces))
          /\ Operands \in Seq(Operand)
        BY <2>1, <2>2
    <2> QED
        BY ONLY <2>3, <2>4, <2>5, <2>6, <2>7 DEF Typed
<1>2. OneModifier /\ Untouched
    BY DEF OneModifier, Untouched
<1>3. Counts
    BY DEF Counts, MaxTokens
<1>4. OperandsRead
    BY DEF OperandsRead
<1>5. AllThere /\ MnemonicThere /\ SseSoFar
    BY DEF AllThere, MnemonicThere, SseSoFar
<1>6. Outcome
    BY DEF Outcome, SseOrString, StringAddressSize, JumpKeepsCondition, SameCondition, Accepted
<1> QED
    BY <1>1, <1>2, <1>3, <1>4, <1>5, <1>6 DEF IInv

\* Only an accepted call has an outcome.
LEMMA NoOutcome ==
    ASSUME result' # "true"
    PROVE  Outcome'
BY DEF Outcome, SseOrString, StringAddressSize, JumpKeepsCondition, SameCondition, Accepted

\* Before the first token is cut nothing has been read.
LEMMA NothingRead ==
    ASSUME tokens' = <<>>, Operands' = <<>>
    PROVE  OperandsRead'
BY DEF OperandsRead

\* Nor while they are cut.
LEMMA NothingReadYet ==
    ASSUME Operands' = <<>>, \A k \in 1 .. Len(tokens') : ~Contains(tokens'[k], ",")
    PROVE  OperandsRead'
<1>1. Len(Operands') = 0
    BY EmptySeq
<1>2. \A k \in 1 .. Len(Operands') : Operands'[k] \in Analyzed(tokens'[k])
    <2>1. 1 .. Len(Operands') = {}
        BY ONLY <1>1
    <2> QED
        BY ONLY <2>1
<1> QED
    BY <1>2 DEF OperandsRead

\* The flags stand for the modifiers that are in the text.
LEMMA ModifiersStep ==
    ASSUME IInv, Modifiers
    PROVE  IInv'
<1>1. buf \in Seq(Pieces) /\ buf = instr /\ phase = "modifiers"
    BY DEF IInv, Typed, OneModifier, Modifiers
<1> DEFINE words == {w \in {"near", "far", "short"} : Contains(buf, w)}
           cut == StrDel(StrDel(StrDel(buf, "near"), "far"), "short")
<1>2. Deleted' = words
    BY DEF Deleted, Modifiers
<1>3. buf' = cut /\ instr' = instr
    BY DEF Modifiers
<1>4. cut \in Seq(Pieces)
    BY <1>1, StrDelFacts
<1>5. Typed'
    <2> HIDE DEF cut
    <2>1. Near' \in BOOLEAN /\ Far' \in BOOLEAN /\ Short' \in BOOLEAN
        BY DEF Modifiers, Contains
    <2>2. phase' \in {"prefix", "done"}
        BY DEF Modifiers, Return
    <2>3. UNCHANGED <<instr, x64, inst, tokens, rest, more, i>>
        BY DEF Modifiers
    <2> QED
        BY <1>3, <1>4, <2>1, <2>2, <2>3 DEF IInv, Typed, inst
<1>6. OneModifier'
    <2>1. CASE Cardinality(words) > 1
        <3>1. phase' = "done" /\ result' \notin {"none", "true"}
            BY <1>1, <2>1 DEF Modifiers, Return
        <3> QED
            BY <3>1 DEF OneModifier, Going
    <2>2. CASE ~(Cardinality(words) > 1)
        <3>1. IsFiniteSet(words) /\ Cardinality(words) \in Nat
            <4>1. IsFiniteSet({"near", "far", "short"})
                <5>1. IsFiniteSet({"near"}) /\ IsFiniteSet({"far"}) /\ IsFiniteSet({"short"})
                    BY FS_Singleton
                <5>2. IsFiniteSet({"near"} \union {"far"})
                    BY <5>1, FS_Union
                <5>3. IsFiniteSet(({"near"} \union {"far"}) \union {"short"})
                    BY <5>1, <5>2, FS_Union
                <5>4. ({"near"} \union {"far"}) \union {"short"} = {"near", "far", "short"}
                    OBVIOUS
                <5> QED
                    BY <5>3, <5>4
            <4>2. words \subseteq {"near", "far", "short"}
                OBVIOUS
            <4> HIDE DEF words
            <4>3. IsFiniteSet(words)
                BY <4>1, <4>2, FS_Subset
            <4> QED
                BY <4>3, FS_CardinalityType
        <3>2. Cardinality(words) <= 1
            BY <2>2, <3>1
        <3>3. \A x \in words, y \in words : x = y
            <4> HIDE DEF words
            <4> QED
                BY <3>1, <3>2, AtMostOne
        <3>4. /\ ~(Contains(buf, "near") /\ Contains(buf, "far"))
              /\ ~(Contains(buf, "near") /\ Contains(buf, "short"))
              /\ ~(Contains(buf, "far") /\ Contains(buf, "short"))
            BY <3>3
        <3>5. \/ /\ cut = buf /\ ~Contains(buf, "near")
                 /\ ~Contains(buf, "far") /\ ~Contains(buf, "short")
              \/ \E x \in {"near", "far", "short"}, k \in 1 .. Len(buf) :
                     Contains(buf, x) /\ buf[k] = x /\ cut = RemoveAt(buf, k)
            BY <1>1, <3>4, OneDeleted
        <3>6. CASE cut = buf /\ ~Contains(buf, "near") /\ ~Contains(buf, "far") /\ ~Contains(buf, "short")
            <4>1. words = {}
                BY <3>6
            <4>2. buf' = instr /\ Deleted' = {}
                BY <1>1, <1>2, <1>3, <3>6, <4>1
            <4>3. buf' \in Remainders'
                BY <1>3, <4>2 DEF Remainders
            <4>4. phase' # "modifiers"
                BY DEF Modifiers, Return
            <4> QED
                BY <1>2, <3>2, <4>3, <4>4 DEF OneModifier
        <3>7. ASSUME NEW x \in {"near", "far", "short"}, NEW k \in 1 .. Len(buf),
                     Contains(buf, x), buf[k] = x, cut = RemoveAt(buf, k)
              PROVE  OneModifier'
            <4>1. x \in words
                BY <3>7
            <4> HIDE DEF words, cut
            <4>2. Deleted' # {} /\ instr'[k] \in Deleted' /\ k \in 1 .. Len(instr')
                BY <1>1, <1>2, <1>3, <3>7, <4>1
            <4>3. buf' = RemoveAt(instr', k)
                BY <1>1, <1>3, <3>7
            <4>4. buf' \in Remainders'
                BY <4>2, <4>3 DEF Remainders
            <4>5. phase' # "modifiers"
                BY DEF Modifiers, Return
            <4> QED
                BY <1>2, <3>2, <4>4, <4>5 DEF OneModifier
        <3> QED
            BY <3>5, <3>6, <3>7
    <2> QED
        BY <2>1, <2>2
<1>7. phase' \in {"prefix", "done"} /\ result' # "true" /\ UNCHANGED <<instr, x64, inst, tokens, rest, more, i>>
    BY <1>1 DEF Modifiers, Return, IInv, Untouched
<1>8. Untouched' /\ Counts' /\ OperandsRead'
    <2>1. Untouched'
        <3>1. phase' = "prefix" => result' = result
            BY DEF Modifiers, Return
        <3> QED
            BY <1>1, <1>7, <3>1 DEF IInv, Untouched, inst
    <2>2. Counts'
        BY <1>1, <1>7 DEF IInv, Untouched, Counts, inst
    <2>3. OperandsRead'
        <3>1. tokens = <<>> /\ Operands = <<>>
            BY <1>1 DEF IInv, Untouched
        <3>2. tokens' = <<>> /\ Operands' = <<>>
            BY <1>7, <3>1 DEF inst
        <3> QED
            BY <3>2, NothingRead
    <2> QED
        BY <2>1, <2>2, <2>3
<1>9. AllThere' /\ MnemonicThere' /\ SseSoFar'
    BY <1>7 DEF AllThere, MnemonicThere, SseSoFar
<1> QED
    BY <1>5, <1>6, <1>7, <1>8, <1>9, NoOutcome DEF IInv

\* The steps after the modifiers leave the text and the flags alone.
LEMMA TextStable ==
    ASSUME IInv, UNCHANGED <<instr, x64, buf, modifiers>>, phase \notin {"modifiers", "done"},
           phase' # "modifiers"
    PROVE  OneModifier'
<1>1. Deleted' = Deleted /\ Remainders' = Remainders
    BY DEF Deleted, Remainders, modifiers
<1>2. result = "none" /\ Going
    BY DEF IInv, Untouched, Going
<1> QED
    BY <1>1, <1>2 DEF IInv, OneModifier

\* The first word is the prefix or the mnemonic, and the rest of the text follows.
LEMMA GrabPrefixStep ==
    ASSUME IInv, GrabPrefix
    PROVE  IInv'
<1> DEFINE text == SkipBlanks(buf)
           token == Before(text, " ")
           after == After(text, " ")
           kind == PrefixFromString(token)
<1>1. /\ phase = "prefix" /\ buf \in Seq(Pieces) /\ result = "none" /\ tokens = <<>>
      /\ Operands = <<>> /\ OperandCount = 0 /\ i = 1
    BY DEF IInv, Typed, Untouched, GrabPrefix
<1>2. text \in Seq(Pieces) /\ Occurs(text, buf) /\ NoBlanks(text) = NoBlanks(buf)
    BY <1>1, SkipBlanksFacts
<1> HIDE DEF text
<1>3. token \in Seq(Pieces) /\ after \in Seq(Pieces) /\ Occurs(token, text) /\ Occurs(after, text)
    BY <1>2, BeforeAfter, BeforeAfterOccur
<1>4. NoBlanks(text) = NoBlanks(token) \o NoBlanks(after)
    BY <1>2, CutAtBlank
<1>5. /\ rest' = after /\ more' = Contains(text, " ") /\ Prefix' = kind
      /\ UNCHANGED <<instr, x64, buf, modifiers, Class, OperandCount, Operands,
                     AddressSizeOverride, tokens, i>>
      /\ \/ phase' = "done" /\ result' = "Malformed or invalid instruction" /\ Mnemonic' = Mnemonic
         \/ phase' = "operands" /\ kind = "NONE" /\ Mnemonic' = token /\ result' = result
         \/ phase' = "mnemonic" /\ kind # "NONE" /\ Mnemonic' = Mnemonic /\ result' = result
    BY DEF GrabPrefix, Return, text
<1>6. ~Contains(text, " ") => after = <<>>
    BY <1>2, BeforeAfter
<1> HIDE DEF token, after
<1>7. kind \in {"NONE", "LOCK", "REP", "REPNEZ"} /\ (kind # "NONE" => token \in PrefixWords)
    BY PrefixFacts
<1> HIDE DEF kind
<1>8. Typed'
    <2>1. more' \in BOOLEAN
        BY <1>5 DEF Contains
    <2> QED
        BY <1>1, <1>3, <1>5, <1>7, <2>1 DEF IInv, Typed, modifiers
<1>9. OneModifier'
    BY <1>1, <1>5, TextStable
<1>10. Untouched' /\ Counts'
    <2>1. /\ tokens' = <<>> /\ Operands' = <<>> /\ OperandCount' = 0 /\ i' = 1
          /\ AddressSizeOverride' = 0 /\ Class' = <<>> /\ phase' \in {"done", "operands", "mnemonic"}
          /\ (phase' = "done" => result' # "true") /\ (phase' # "done" => result' = "none")
        <3>1. OperandCount <= MaxOperands
            BY <1>1
        <3>2. AddressSizeOverride = 0 /\ Class = <<>>
            BY <1>1, <3>1 DEF IInv, Untouched
        <3> QED
            BY <1>1, <1>5, <3>2
    <2> QED
        BY <2>1 DEF Untouched, Counts, MaxTokens
<1>11. OperandsRead'
    BY <1>1, <1>5, NothingRead
<1>12. AllThere'
    <2>1. CASE phase' = "operands"
        <3>1. <<>> \in PrefixWords /\ <<>> \in Seq(Pieces) /\ PrefixFromString(<<>>) = Prefix'
            BY <1>5, <2>1, PrefixFacts, EmptySeq DEF PrefixWords
        <3>2. NoBlanks(token) \o NoBlanks(after) \in Seq(Pieces)
            BY <1>3, NoBlanksType, ConcatProperties
        <3>3. NoBlanks(buf') = <<>> \o (NoBlanks(Mnemonic') \o NoBlanks(rest'))
            BY <1>2, <1>4, <1>5, <2>1, <3>2, ConcatEmptySeq
        <3>4. Ahead' = NoBlanks(Mnemonic') \o NoBlanks(rest')
            BY <2>1 DEF Ahead
        <3>5. ~more' => rest' = <<>>
            BY <1>5, <1>6
        <3> QED
            BY <3>1, <3>3, <3>4, <3>5 DEF AllThere
    <2>2. CASE phase' = "mnemonic"
        <3>1. token \in PrefixWords /\ PrefixFromString(token) = Prefix'
            BY <1>5, <1>7, <2>2 DEF kind
        <3>2. NoBlanks(token) = token
            BY <3>1, NoBlanksPrefix
        <3>3. Ahead' = NoBlanks(rest')
            BY <2>2 DEF Ahead
        <3>4. NoBlanks(buf') = token \o Ahead'
            BY <1>2, <1>4, <1>5, <3>2, <3>3
        <3> QED
            BY <1>3, <2>2, <3>1, <3>4 DEF AllThere
    <2>3. CASE phase' = "done"
        BY <2>3 DEF AllThere
    <2> QED
        BY <1>5, <2>1, <2>2, <2>3
<1>13. MnemonicThere'
    <2>1. Occurs(token, buf) /\ Occurs(after, buf)
        BY <1>1, <1>2, <1>3, OccursTransitive
    <2> QED
        BY <1>5, <2>1 DEF MnemonicThere
<1>14. SseSoFar'
    BY <1>5 DEF SseSoFar
<1>15. Outcome'
    BY <1>1, <1>5, NoOutcome
<1> QED
    BY <1>8, <1>9, <1>10, <1>11, <1>12, <1>13, <1>14, <1>15 DEF IInv

\* The mnemonic after a prefix is the next word.
LEMMA GrabMnemonicStep ==
    ASSUME IInv, GrabMnemonic
    PROVE  IInv'
<1> DEFINE token == Before(rest, " ")
           after == After(rest, " ")
<1>1. /\ phase = "mnemonic" /\ buf \in Seq(Pieces) /\ rest \in Seq(Pieces) /\ result = "none"
      /\ tokens = <<>> /\ Operands = <<>> /\ OperandCount = 0 /\ i = 1
    BY DEF IInv, Typed, Untouched, GrabMnemonic
<1>2. token \in Seq(Pieces) /\ after \in Seq(Pieces) /\ Occurs(token, rest)
    BY <1>1, BeforeAfter, BeforeAfterOccur
<1>3. NoBlanks(rest) = NoBlanks(token) \o NoBlanks(after)
    BY <1>1, CutAtBlank
<1>4. ~Contains(rest, " ") => after = <<>>
    BY <1>1, BeforeAfter
<1>5. /\ Mnemonic' = token /\ rest' = after /\ more' = Contains(rest, " ") /\ phase' = "operands"
      /\ UNCHANGED <<instr, x64, buf, modifiers, Prefix, Class, OperandCount, Operands,
                     AddressSizeOverride, tokens, i, result>>
    BY DEF GrabMnemonic
<1> HIDE DEF token, after
<1>6. Typed'
    <2>1. more' \in BOOLEAN
        BY <1>5 DEF Contains
    <2> QED
        BY <1>1, <1>2, <1>5, <2>1 DEF IInv, Typed, modifiers
<1>7. OneModifier'
    BY <1>1, <1>5, TextStable
<1>8. Untouched' /\ Counts'
    BY <1>1, <1>5 DEF IInv, Untouched, Counts, MaxTokens
<1>9. OperandsRead'
    BY <1>1, <1>5, NothingRead
<1>10. AllThere'
    <2>1. Ahead = NoBlanks(rest) /\ Ahead' = NoBlanks(Mnemonic') \o NoBlanks(rest')
        BY <1>1, <1>5 DEF Ahead
    <2>2. Ahead' = Ahead
        BY <1>3, <1>5, <2>1
    <2>3. ~more' => rest' = <<>>
        BY <1>4, <1>5
    <2> QED
        BY <1>1, <1>5, <2>2, <2>3 DEF IInv, AllThere
<1>11. MnemonicThere'
    <2>1. Occurs(rest, buf)
        BY <1>1 DEF IInv, MnemonicThere
    <2>2. Occurs(token, buf)
        BY <1>1, <1>2, <2>1, OccursTransitive
    <2> QED
        BY <1>5, <2>2 DEF MnemonicThere
<1>12. SseSoFar'
    BY <1>5 DEF SseSoFar
<1>13. Outcome'
    BY <1>1, <1>5, NoOutcome
<1> QED
    BY <1>6, <1>7, <1>8, <1>9, <1>10, <1>11, <1>12, <1>13 DEF IInv

\* Without operands there is nothing but blanks left of the text.
LEMMA NoOperandsStep ==
    ASSUME IInv, NoOperands
    PROVE  IInv'
<1>1. /\ phase = "operands" /\ result = "none" /\ tokens = <<>> /\ Operands = <<>>
      /\ OperandCount = 0 /\ i = 1 /\ Mnemonic \in Seq(Pieces)
    BY DEF IInv, Typed, Untouched, NoOperands
<1>2. /\ phase' = "analyze" /\ (~more \/ NoBlanks(rest) = <<>>)
      /\ UNCHANGED <<instr, x64, buf, modifiers, inst, tokens, rest, more, i, result>>
    BY DEF NoOperands
<1>3. Typed'
    BY <1>1, <1>2 DEF IInv, Typed, modifiers, inst
<1>4. OneModifier'
    BY <1>1, <1>2, TextStable
<1>5. Untouched' /\ Counts'
    BY <1>1, <1>2 DEF IInv, Untouched, Counts, MaxTokens, inst
<1>6. OperandsRead'
    BY <1>1, <1>2, NothingRead DEF inst
<1>7. AllThere'
    <2>1. NoBlanks(rest) = <<>>
        BY <1>1, <1>2, NoBlanksEmpty DEF IInv, AllThere
    <2>2. Ahead = NoBlanks(Mnemonic) \o <<>>
        BY <1>1, <2>1 DEF Ahead
    <2>3. JoinedWith(<<>>, Comma) = <<>>
        BY JoinedNone
    <2>4. Ahead' = NoBlanks(Mnemonic) \o <<>>
        BY <1>1, <1>2, <2>3 DEF Ahead, inst
    <2>5. Ahead' = Ahead
        BY <2>2, <2>4
    <2> QED
        BY <1>1, <1>2, <2>5 DEF IInv, AllThere, inst
<1>8. MnemonicThere'
    BY <1>1, <1>2 DEF IInv, MnemonicThere, inst
<1>9. SseSoFar'
    BY <1>2 DEF SseSoFar
<1>10. Outcome'
    BY <1>1, <1>2, NoOutcome
<1> QED
    BY <1>3, <1>4, <1>5, <1>6, <1>7, <1>8, <1>9, <1>10 DEF IInv

\* The operands are read from the text without blanks.
LEMMA FirstOperandStep ==
    ASSUME IInv, FirstOperand
    PROVE  IInv'
<1>1. /\ phase = "operands" /\ result = "none" /\ tokens = <<>> /\ Operands = <<>>
      /\ OperandCount = 0 /\ i = 1 /\ Mnemonic \in Seq(Pieces) /\ rest \in Seq(Pieces)
    BY DEF IInv, Typed, Untouched, FirstOperand
<1>2. /\ phase' = "grab" /\ more /\ rest' = NoBlanks(rest)
      /\ UNCHANGED <<instr, x64, buf, modifiers, inst, tokens, more, i, result>>
    BY DEF FirstOperand
<1>3. rest' \in Seq(Pieces)
    BY <1>1, <1>2, NoBlanksType
<1>4. Typed'
    BY <1>1, <1>2, <1>3 DEF IInv, Typed, modifiers, inst
<1>5. OneModifier'
    BY <1>1, <1>2, TextStable
<1>6. Untouched' /\ Counts'
    BY <1>1, <1>2 DEF IInv, Untouched, Counts, MaxTokens, inst
<1>7. OperandsRead'
    BY <1>1, <1>2, NothingRead DEF inst
<1>8. AllThere'
    <2>1. Ahead = NoBlanks(Mnemonic) \o NoBlanks(rest)
        BY <1>1 DEF Ahead
    <2>2. Ahead' = NoBlanks(Mnemonic) \o NoBlanks(rest)
        BY <1>1, <1>2 DEF Ahead, inst
    <2>3. Ahead' = Ahead
        BY <2>1, <2>2
    <2> QED
        BY <1>1, <1>2, <2>3 DEF IInv, AllThere, inst
<1>9. MnemonicThere'
    BY <1>1, <1>2 DEF IInv, MnemonicThere, inst
<1>10. SseSoFar'
    BY <1>2 DEF SseSoFar
<1>11. Outcome'
    BY <1>1, <1>2, NoOutcome
<1> QED
    BY <1>4, <1>5, <1>6, <1>7, <1>8, <1>9, <1>10, <1>11 DEF IInv

\* Brackets move to the right, over three commas and texts.
LEMMA ConcatMoved ==
    ASSUME NEW S, NEW j \in Seq(S), NEW c \in Seq(S), NEW b \in Seq(S), NEW a \in Seq(S)
    PROVE  j \o (c \o ((b \o c) \o a)) = (j \o (c \o b)) \o (c \o a)
<1> DEFINE cb == c \o b
           ca == c \o a
<1>1. cb \in Seq(S) /\ ca \in Seq(S)
    BY ConcatProperties
<1>2. (b \o c) \o a = b \o ca
    BY ConcatAssociative
<1> HIDE DEF ca
<1>3. cb \o ca = c \o (b \o ca)
    BY <1>1, ConcatAssociative
<1> HIDE DEF cb
<1>4. (j \o cb) \o ca = j \o (cb \o ca)
    BY <1>1, ConcatAssociative
<1> USE DEF ca, cb
<1> QED
    BY ONLY <1>2, <1>3, <1>4

\* A token and its comma move from the rest of the text to the tokens.
LEMMA GrabOperandStep ==
    ASSUME IInv, GrabOperand
    PROVE  IInv'
<1> DEFINE token == Before(rest, ",")
           after == After(rest, ",")
           n == Len(tokens)
<1>1. /\ phase = "grab" /\ result = "none" /\ Operands = <<>>
      /\ OperandCount = 0 /\ i = 1 /\ Mnemonic \in Seq(Pieces) /\ rest \in Seq(Pieces)
      /\ tokens \in Seq(Seq(Pieces)) /\ n < MaxTokens
    BY DEF IInv, Typed, Untouched, Counts, GrabOperand
<1>2. /\ token \in Seq(Pieces) /\ after \in Seq(Pieces) /\ ~Contains(token, ",")
      /\ Contains(rest, ",") => rest = (token \o Comma) \o after
      /\ ~Contains(rest, ",") => token = rest
    BY <1>1, BeforeAfter DEF Comma
<1>3. /\ tokens' = Append(tokens, token) /\ rest' = after /\ more' = Contains(rest, ",")
      /\ UNCHANGED <<instr, x64, buf, modifiers, inst, i>>
    BY DEF GrabOperand
<1>4. more' \in BOOLEAN
    BY <1>3 DEF Contains
<1> HIDE DEF token, after
<1>5. tokens' \in Seq(Seq(Pieces)) /\ Len(tokens') = n + 1 /\ n \in Nat /\ Len(tokens') <= MaxTokens
    <2> DEFINE W == Seq(Pieces)
    <2>1. tokens \in Seq(W) /\ token \in W
        BY <1>1, <1>2
    <2> HIDE DEF W
    <2>2. Append(tokens, token) \in Seq(W) /\ Len(Append(tokens, token)) = n + 1 /\ n \in Nat
        BY <2>1
    <2>3. n + 1 <= MaxTokens
        BY <1>1, <2>2 DEF MaxTokens
    <2> QED
        BY <1>3, <2>2, <2>3 DEF W
<1>6. \/ ~more' /\ phase' = "analyze" /\ result' = result
      \/ more' /\ n + 1 < MaxTokens /\ phase' = phase /\ result' = result
      \/ more' /\ phase' = "done" /\ result' = "Malformed or invalid instruction"
    <2>1. \/ ~more' /\ phase' = "analyze" /\ result' = result
          \/ more' /\ Len(tokens') < MaxTokens /\ phase' = phase /\ result' = result
          \/ more' /\ phase' = "done" /\ result' = "Malformed or invalid instruction"
        BY DEF GrabOperand, Return
    <2> QED
        BY <1>5, <2>1
<1>7. Typed'
    BY <1>1, <1>2, <1>3, <1>4, <1>5, <1>6 DEF IInv, Typed, modifiers, inst
<1>8. OneModifier'
    BY <1>1, <1>3, <1>6, TextStable
<1>9. Untouched'
    BY <1>1, <1>3, <1>6 DEF IInv, Untouched, inst
<1>10. Counts'
    <2>1. Len(Operands') = 0 /\ OperandCount' = 0 /\ i' = 1
        BY <1>1, <1>3 DEF inst
    <2> QED
        <3>1. /\ Len(tokens') <= MaxTokens /\ Len(Operands') <= Len(tokens')
              /\ OperandCount' <= Len(tokens')
            BY <1>5, <2>1
        <3>2. phase' = "grab" => Len(tokens') < MaxTokens /\ more'
            BY <1>1, <1>5, <1>6
        <3>3. phase' \in {"grab", "analyze", "done"}
            BY <1>1, <1>6
        <3>4. OperandCount' = Len(Operands') /\ i' <= 5 /\ OperandCount' <= 4
            BY ONLY <2>1
        <3> QED
            BY <3>1, <3>2, <3>3, <3>4 DEF Counts
<1>11. OperandsRead'
    <2>1. Operands' = <<>>
        BY <1>1, <1>3 DEF inst
    <2>2. \A k \in 1 .. Len(tokens') : ~Contains(tokens'[k], ",")
        <3>1. \A k \in 1 .. n : tokens'[k] = tokens[k]
            BY <1>1, <1>3, AppendProperties, <1>2
        <3>2. tokens'[n + 1] = token
            BY <1>1, <1>2, <1>3, AppendProperties
        <3>3. \A k \in 1 .. n : ~Contains(tokens[k], ",")
            BY DEF IInv, OperandsRead
        <3>4. \A k \in 1 .. Len(tokens') : k \in 1 .. n \/ k = n + 1
            BY <1>5
        <3> QED
            BY <1>2, <3>1, <3>2, <3>3, <3>4
    <2> QED
        BY <2>1, <2>2, NothingReadYet
<1>12. AllThere'
    <2>1. CASE phase' = "done"
        BY <2>1 DEF AllThere
    <2>2. CASE phase' # "done"
        <3>1. Comma \in Seq(Pieces)
            BY SeparatorsAreTexts DEF Comma
        <3> DEFINE now == IF tokens = <<>> THEN rest ELSE JoinedWith(tokens, Comma) \o (Comma \o rest)
                   joined == JoinedWith(Append(tokens, token), Comma)
        <3>2. Ahead = NoBlanks(Mnemonic) \o now
            BY <1>1 DEF Ahead
        <3>3. tokens' # <<>> /\ Mnemonic' = Mnemonic
            <4>1. n + 1 # 0
                BY <1>5
            <4>2. tokens' # <<>>
                BY <1>5, <4>1
            <4> QED
                BY <1>3, <4>2 DEF inst
        <3>4. Ahead' = NoBlanks(Mnemonic) \o (IF more' THEN joined \o (Comma \o after) ELSE joined)
            <4>1. CASE more'
                BY <1>1, <1>3, <1>6, <2>2, <3>3, <4>1 DEF Ahead
            <4>2. CASE ~more'
                BY <1>1, <1>3, <1>6, <2>2, <3>3, <4>2 DEF Ahead
            <4> QED
                BY <4>1, <4>2
        <3>5. now = IF more' THEN joined \o (Comma \o after) ELSE joined
            <4>1. CASE tokens = <<>>
                <5>1. Append(tokens, token) = <<token>>
                    BY ONLY <4>1
                <5>2. joined = token
                    BY <1>2, <5>1, JoinedOne
                <5>3. (token \o Comma) \o after = token \o (Comma \o after)
                    <6> DEFINE W == Pieces
                    <6>1. token \in Seq(W) /\ Comma \in Seq(W) /\ after \in Seq(W)
                        BY <1>2, <3>1
                    <6> HIDE DEF W
                    <6> QED
                        BY ONLY <6>1, ConcatAssociative
                <5> QED
                    BY <1>2, <1>3, <4>1, <5>2, <5>3
            <4>2. CASE tokens # <<>>
                <5> DEFINE j == JoinedWith(tokens, Comma)
                <5>1. joined = j \o (Comma \o token)
                    BY <1>1, <1>2, <3>1, <4>2, JoinedAppend
                <5>2. j \in Seq(Pieces)
                    BY <1>1, <3>1, JoinedType
                <5>3. j \o (Comma \o ((token \o Comma) \o after)) = (j \o (Comma \o token)) \o (Comma \o after)
                    <6> DEFINE W == Pieces
                    <6>1. j \in Seq(W) /\ Comma \in Seq(W) /\ token \in Seq(W) /\ after \in Seq(W)
                        BY <1>2, <3>1, <5>2
                    <6> HIDE DEF j, W
                    <6> QED
                        BY ONLY <6>1, ConcatMoved, SMTT(25)
                <5> QED
                    BY <1>2, <1>3, <4>2, <5>1, <5>3
            <4> QED
                BY <4>1, <4>2
        <3> HIDE DEF now, joined
        <3>6. Ahead' = Ahead
            BY <3>2, <3>4, <3>5
        <3>7. phase' \in {"grab", "analyze"} /\ UNCHANGED <<buf, Prefix>>
            BY <1>1, <1>3, <1>6, <2>2 DEF inst
        <3> QED
            BY <1>1, <3>6, <3>7 DEF IInv, AllThere
    <2> QED
        BY <2>1, <2>2
<1>13. MnemonicThere'
    BY <1>1, <1>3, <1>6 DEF IInv, MnemonicThere, inst
<1>14. SseSoFar'
    BY <1>1, <1>6 DEF SseSoFar
<1>15. Outcome'
    BY <1>1, <1>6, NoOutcome
<1> QED
    BY <1>7, <1>8, <1>9, <1>10, <1>11, <1>12, <1>13, <1>14, <1>15 DEF IInv

\* A part of a text has no piece that the text has not, and the text no piece
\* that the caller's text has not.
LEMMA PieceOfText ==
    ASSUME IInv, phase \notin {"modifiers", "done"}, NEW s \in Seq(Pieces), Occurs(s, buf),
           NEW k \in 1 .. Len(s)
    PROVE  Contains(instr, s[k])
<1>1. buf \in Remainders /\ buf \in Seq(Pieces) /\ instr \in Seq(Pieces)
    <2>1. Going /\ instr \in Texts
        BY DEF IInv, Untouched, Going, Typed
    <2> QED
        BY <2>1, TextsAreTexts DEF IInv, OneModifier, Typed
<1>2. Contains(buf, s[k])
    <2>1. PICK j \in 0 .. Len(buf) : j + Len(s) <= Len(buf) /\ \A n \in 1 .. Len(s) : s[n] = buf[j + n]
        BY DEF Occurs
    <2>2. j + k \in 1 .. Len(buf) /\ buf[j + k] = s[k]
        BY <1>1, <2>1
    <2> QED
        BY <2>2 DEF Contains
<1>3. CASE Deleted = {}
    BY <1>1, <1>2, <1>3 DEF Remainders
<1>4. CASE Deleted # {}
    <2>1. PICK n \in 1 .. Len(instr) : buf = RemoveAt(instr, n)
        BY <1>1, <1>4 DEF Remainders
    <2> QED
        BY <1>1, <1>2, <2>1, RemoveAtFacts
<1> QED
    BY <1>3, <1>4

\* An operand is what its token can be read as.
LEMMA AnalyzeStep ==
    ASSUME IInv, Analyze
    PROVE  IInv'
<1> DEFINE k == OperandCount + 1
<1>1. /\ phase = "analyze" /\ result = "none" /\ OperandCount = Len(Operands) /\ i = 1
      /\ Len(tokens) <= MaxTokens /\ k \in 1 .. Len(tokens) /\ OperandCount \in Nat
      /\ AddressSizeOverride = 0 /\ k <= MaxOperands
      /\ tokens \in Seq(Seq(Pieces)) /\ Operands \in Seq(Operand) /\ Mnemonic \in Seq(Pieces)
    <2>1. tokens \in Seq(Seq(Pieces)) /\ OperandCount \in Nat /\ OperandCount < Len(tokens)
        BY DEF IInv, Typed, Analyze
    <2>2. Len(tokens) \in Nat
        BY <2>1
    <2>3. k \in 1 .. Len(tokens)
        BY <2>1, <2>2
    <2>4. OperandCount <= MaxOperands /\ k <= MaxOperands
        BY <2>1 DEF Analyze
    <2> QED
        BY <2>1, <2>3, <2>4 DEF IInv, Typed, Untouched, Counts, Analyze
<1>2. tokens[k] \in Seq(Pieces)
    BY <1>1, ElementOfSeq
<1>3. /\ OperandCount' = k
      /\ UNCHANGED <<instr, x64, buf, modifiers, Prefix, Mnemonic, Class, AddressSizeOverride,
                     tokens, rest, more, i>>
    BY DEF Analyze
<1>4. \/ \E op \in Analyzed(tokens[k]) :
             Operands' = Append(Operands, op) /\ phase' = phase /\ result' = result
      \/ phase' = "done" /\ result' = "operand" /\ Operands' = Operands
    BY DEF Analyze, Return
<1> HIDE DEF k
<1>5. /\ Operands' \in Seq(Operand)
      /\ \A n \in 1 .. Len(Operands') : Operands'[n] \in Analyzed(tokens[n])
      /\ Len(Operands') <= k
      /\ phase' = "analyze" => Len(Operands') = k
    <2>1. \A n \in 1 .. Len(Operands) : Operands[n] \in Analyzed(tokens[n])
        BY DEF IInv, OperandsRead
    <2>2. ASSUME NEW op \in Analyzed(tokens[k]), Operands' = Append(Operands, op)
          PROVE  /\ Operands' \in Seq(Operand) /\ Len(Operands') = k
                 /\ \A n \in 1 .. Len(Operands') : Operands'[n] \in Analyzed(tokens[n])
        <3>1. op \in Operand
            BY <1>2, AnalyzedFacts
        <3>2. /\ Append(Operands, op) \in Seq(Operand) /\ Len(Append(Operands, op)) = k
              /\ Append(Operands, op)[k] = op /\ \A n \in 1 .. Len(Operands) : Append(Operands, op)[n] = Operands[n]
            BY <1>1, <3>1 DEF k
        <3>3. \A n \in 1 .. k : n = k \/ n \in 1 .. Len(Operands)
            BY <1>1 DEF k
        <3> QED
            BY <2>1, <2>2, <3>2, <3>3
    <2>3. CASE \E op \in Analyzed(tokens[k]) : Operands' = Append(Operands, op)
        BY <1>1, <2>2, <2>3
    <2>4. CASE phase' = "done" /\ Operands' = Operands
        BY <1>1, <2>1, <2>4 DEF k
    <2> QED
        BY <1>4, <2>3, <2>4
<1>6. Typed'
    <2>1. k \in Nat /\ phase' \in {"analyze", "done"}
        BY <1>1, <1>4
    <2> QED
        BY <1>1, <1>3, <1>5, <2>1 DEF IInv, Typed, modifiers
<1>7. OneModifier'
    BY <1>1, <1>3, <1>4, TextStable
<1>8. Untouched' /\ Counts'
    <2>1. \/ phase' = "analyze" /\ result' = "none"
          \/ phase' = "done" /\ result' = "operand"
        BY <1>1, <1>4
    <2>2. Untouched'
        BY <1>1, <1>3, <2>1 DEF IInv, Untouched
    <2>3. Len(Operands') \in Nat /\ Len(tokens) \in Nat
        BY <1>1, <1>5
    <2>4. Counts'
        BY <1>1, <1>3, <1>5, <2>1, <2>3 DEF Counts, MaxTokens
    <2> QED
        BY <2>2, <2>4
<1>9. OperandsRead'
    <2>1. tokens' = tokens /\ \A n \in 1 .. Len(tokens) : ~Contains(tokens[n], ",")
        BY <1>3 DEF IInv, OperandsRead
    <2> QED
        BY <1>5, <2>1 DEF OperandsRead
<1>10. AllThere'
    <2>1. CASE phase' = "done"
        BY <2>1 DEF AllThere
    <2>2. CASE phase' = "analyze"
        <3>1. Ahead' = Ahead
            BY <1>1, <1>3, <2>2 DEF Ahead
        <3> QED
            BY <1>1, <1>3, <2>2, <3>1 DEF IInv, AllThere
    <2> QED
        BY <1>1, <1>4, <2>1, <2>2
<1>11. MnemonicThere' /\ SseSoFar'
    BY <1>1, <1>3, <1>4 DEF IInv, MnemonicThere, SseSoFar
<1>12. Outcome'
    BY <1>1, <1>4, NoOutcome
<1> QED
    BY <1>6, <1>7, <1>8, <1>9, <1>10, <1>11, <1>12 DEF IInv

\* An operand behind the array leaves the ones that are in it alone.
LEMMA OverrunStep ==
    ASSUME IInv, Overrun
    PROVE  IInv'
<1>1. /\ phase = "analyze" /\ result = "none" /\ i = 1 /\ Class = <<>>
      /\ Len(tokens) \in Nat /\ OperandCount \in Nat
      /\ OperandCount < Len(tokens) /\ OperandCount >= MaxOperands /\ Len(Operands) = MaxOperands
    <2>1. tokens \in Seq(Seq(Pieces)) /\ OperandCount \in Nat
        BY DEF IInv, Typed
    <2>2. phase = "analyze" /\ OperandCount < Len(tokens) /\ OperandCount >= MaxOperands
        BY DEF Overrun
    <2>3. Len(Operands) = MaxOperands
        <3>1. IF OperandCount <= MaxOperands THEN OperandCount = Len(Operands)
              ELSE Len(Operands) = MaxOperands
            BY <2>2 DEF IInv, Counts
        <3>2. OperandCount <= MaxOperands => OperandCount = MaxOperands
            BY <2>1, <2>2
        <3> QED
            BY <3>1, <3>2
    <2> QED
        BY <2>1, <2>2, <2>3 DEF IInv, Untouched
<1>2. /\ OperandCount' = OperandCount + 1 /\ AddressSizeOverride' = Overwritten
      /\ UNCHANGED <<instr, x64, buf, modifiers, Prefix, Mnemonic, Class, Operands,
                     tokens, rest, more, i>>
      /\ \/ phase' = "analyze" /\ result' = "none"
         \/ phase' = "done" /\ result' \in {"operand", "stopped"}
    BY <1>1 DEF Overrun, Return
<1>3. Typed'
    <2>1. OperandCount' \in Nat /\ phase' \in {"analyze", "done"}
        BY <1>1, <1>2
    <2> QED
        BY <1>1, <1>2, <2>1 DEF IInv, Typed, modifiers
<1>4. OneModifier'
    BY <1>1, <1>2, TextStable
<1>5. Untouched'
    <2>1. ~(OperandCount' <= MaxOperands)
        BY <1>1, <1>2
    <2> QED
        BY <1>1, <1>2, <2>1 DEF Untouched
<1>6. Counts'
    <2>1. Len(tokens) <= MaxTokens /\ Len(Operands) <= Len(tokens)
        BY DEF IInv, Counts
    <2>2. OperandCount + 1 <= Len(tokens) /\ ~(OperandCount + 1 <= MaxOperands)
        BY <1>1
    <2>3. /\ tokens' = tokens /\ Operands' = Operands /\ i' = 1
          /\ OperandCount' = OperandCount + 1
        BY <1>1, <1>2
    <2>4. phase' \notin {"grab", "special"} /\ result' # "true"
        BY <1>2
    <2>5. 4 <= 4 /\ 1 <= 5
        OBVIOUS
    <2> QED
        BY <1>1, <2>1, <2>2, <2>3, <2>4, <2>5 DEF Counts
<1>7. OperandsRead'
    BY <1>2 DEF IInv, OperandsRead
<1>8. AllThere'
    <2>1. CASE phase' = "done"
        BY <2>1 DEF AllThere
    <2>2. CASE phase' = "analyze"
        <3>1. Ahead' = Ahead
            BY <1>1, <1>2, <2>2 DEF Ahead
        <3> QED
            BY <1>1, <1>2, <2>2, <3>1 DEF IInv, AllThere
    <2> QED
        BY <1>2, <2>1, <2>2
<1>9. MnemonicThere' /\ SseSoFar'
    BY <1>1, <1>2 DEF IInv, MnemonicThere, SseSoFar
<1>10. Outcome'
    BY <1>2, NoOutcome
<1> QED
    BY <1>3, <1>4, <1>5, <1>6, <1>7, <1>8, <1>9, <1>10 DEF IInv

\* The mnemonic of the text goes to the special cases unchanged.
LEMMA AnalyzeEndsStep ==
    ASSUME IInv, AnalyzeEnds
    PROVE  IInv'
<1>1. /\ phase = "analyze" /\ result = "none" /\ i = 1
      /\ OperandCount <= MaxOperands => OperandCount = Len(Operands)
      /\ OperandCount = Len(tokens) /\ OperandCount \in Nat /\ Mnemonic \in Seq(Pieces)
    BY DEF IInv, Typed, Untouched, Counts, AnalyzeEnds
<1>2. /\ UNCHANGED <<instr, x64, buf, modifiers, inst, tokens, rest, more, i>>
      /\ \/ phase' = "done" /\ result' = "Instruction has more than 4 operands"
         \/ phase' = "special" /\ result' = result /\ OperandCount <= 4
    <2>1. /\ UNCHANGED <<instr, x64, buf, modifiers, inst, tokens, rest, more, i>>
          /\ \/ phase' = "done" /\ result' = "Instruction has more than 4 operands"
             \/ phase' = "special" /\ result' = result /\ ~(OperandCount > 4)
        BY DEF AnalyzeEnds, Return
    <2>2. ~(OperandCount > 4) => OperandCount <= 4
        BY <1>1
    <2> QED
        BY <2>1, <2>2
<1>3. Typed'
    BY <1>1, <1>2 DEF IInv, Typed, modifiers, inst
<1>4. OneModifier'
    BY <1>1, <1>2, TextStable
<1>5. Untouched' /\ Counts'
    <2>1. Untouched'
        BY <1>1, <1>2 DEF IInv, Untouched, inst
    <2>2. Counts'
        <3>1. UNCHANGED <<tokens, Operands, OperandCount, i>>
            BY <1>2 DEF inst
        <3>2. /\ Len(tokens) <= MaxTokens /\ Len(Operands) <= Len(tokens) /\ OperandCount <= Len(tokens)
              /\ Len(Operands) <= MaxOperands
            BY DEF IInv, Counts
        <3>3. i <= OperandCount + 1
            BY <1>1
        <3>4. /\ Len(tokens') <= MaxTokens /\ Len(Operands') <= Len(tokens')
              /\ OperandCount' <= Len(tokens') /\ Len(Operands') <= MaxOperands
            BY <3>1, <3>2
        <3>5. i' <= OperandCount' + 1 /\ OperandCount' = Len(tokens')
            BY <1>1, <3>1, <3>3
        <3>6. i' <= 5
            BY <1>1, <3>1
        <3>7. \/ phase' = "done" /\ result' # "true"
              \/ phase' = "special" /\ OperandCount' <= MaxOperands /\ OperandCount' = Len(Operands')
            BY <1>1, <1>2, <3>1
        <3> QED
            BY ONLY <3>4, <3>5, <3>6, <3>7 DEF Counts
    <2> QED
        BY <2>1, <2>2
<1>6. OperandsRead'
    BY <1>2 DEF IInv, OperandsRead, inst
<1>7. AllThere'
    <2>1. Ahead = NoBlanks(Mnemonic) \o JoinedWith(tokens, Comma)
        BY <1>1 DEF Ahead
    <2>2. Ahead' = NoBlanks(Mnemonic) \o JoinedWith(tokens, Comma)
        BY <1>2 DEF Ahead, inst
    <2>3. Ahead' = Ahead
        BY <2>1, <2>2
    <2> QED
        BY <1>1, <1>2, <2>3 DEF IInv, AllThere, inst
<1>8. Occurs(Mnemonic, buf)
    BY <1>1 DEF IInv, MnemonicThere
<1>9. MnemonicThere'
    BY <1>1, <1>2, <1>8 DEF MnemonicThere, inst
<1>10. SseSoFar'
    <2>1. ASSUME Mnemonic \in SseD PROVE Contains(instr, "_xmm")
        <3>1. 3 \in 1 .. Len(Mnemonic) /\ Mnemonic[3] = "_xmm"
            BY <2>1 DEF SseD
        <3> QED
            BY <1>1, <1>8, <3>1, PieceOfText
    <2>2. Mnemonic' = Mnemonic /\ instr' = instr /\ i' = 1
        BY <1>1, <1>2 DEF inst
    <2>3. 1 .. i' - 1 = {}
        BY <2>2
    <2> QED
        BY <2>1, <2>2, <2>3 DEF SseSoFar
<1>11. Outcome'
    BY <1>1, <1>2, NoOutcome
<1> QED
    BY <1>3, <1>4, <1>5, <1>6, <1>7, <1>9, <1>10, <1>11 DEF IInv

\* An operand that is an XMM register takes a string instruction away.
LEMMA SpecialCaseStep ==
    ASSUME IInv, SpecialCase
    PROVE  IInv'
<1> DEFINE kind == Operands[i].reg
<1>1. /\ phase = "special" /\ result = "none" /\ OperandCount = Len(Operands) /\ i \in Nat \ {0}
      /\ OperandCount = Len(tokens) /\ OperandCount \in Nat /\ i <= OperandCount
    BY DEF IInv, Typed, Untouched, Counts, SpecialCase
<1>2. /\ Mnemonic' = RegisterAlias(Mnemonic, kind) /\ i' = i + 1
      /\ UNCHANGED <<instr, x64, buf, modifiers, Prefix, Class, OperandCount, Operands,
                     AddressSizeOverride, tokens, rest, more, phase, result>>
    BY DEF SpecialCase
<1>3. i' # 1 /\ i' \in Nat \ {0} /\ i' - 1 = i
    BY <1>1, <1>2
<1>4. Typed'
    BY <1>1, <1>2, <1>3 DEF IInv, Typed, modifiers
<1>5. OneModifier'
    BY <1>1, <1>2, TextStable
<1>6. Untouched' /\ Counts'
    <2>1. Untouched'
        BY <1>1, <1>2 DEF IInv, Untouched
    <2>2. Counts'
        <3>1. i' <= OperandCount + 1
            BY <1>1, <1>2
        <3>2. OperandCount <= MaxOperands /\ Len(tokens) <= MaxTokens /\ Len(Operands) <= MaxOperands
            BY <1>1 DEF IInv, Counts
        <3>0. tokens' = tokens /\ Operands' = Operands /\ OperandCount' = OperandCount
            BY <1>2
        <3>3. /\ Len(tokens') <= MaxTokens /\ Len(Operands') <= Len(tokens')
              /\ OperandCount' <= Len(tokens') /\ Len(Operands') <= MaxOperands
            <4>1. OperandCount <= OperandCount
                BY <1>1
            <4> QED
                BY <1>1, <3>0, <3>2, <4>1
        <3>4. /\ phase' = "special" /\ OperandCount' = Len(tokens')
              /\ OperandCount' = Len(Operands') /\ OperandCount' <= MaxOperands
              /\ i' <= OperandCount' + 1
            BY <1>1, <1>2, <3>0, <3>1, <3>2
        <3> QED
            BY <3>3, <3>4 DEF Counts
    <2> QED
        BY <2>1, <2>2
<1>7. OperandsRead'
    BY <1>2 DEF IInv, OperandsRead
<1>8. AllThere'
    BY <1>1, <1>2, <1>3 DEF AllThere
<1>9. /\ Mnemonic' \in StringD => Mnemonic' = Mnemonic /\ kind # "xmm"
      /\ Mnemonic' \in SseD => Mnemonic \in SseD \/ kind = "xmm"
      /\ Len(Mnemonic') = 2 /\ Mnemonic'[1] = "j" => Mnemonic' = Mnemonic
    BY <1>2, RegisterAliasFacts
<1>10. MnemonicThere'
    <2>1. Len(Mnemonic') = 2 /\ Mnemonic'[1] = "j" => Occurs(Mnemonic', buf')
        BY <1>1, <1>2, <1>9 DEF IInv, MnemonicThere
    <2> QED
        BY <1>1, <1>2, <2>1 DEF MnemonicThere
<1>11. SseSoFar'
    <2>1. kind = "xmm" => IsXmm(Operands[i])
        <3>1. i \in 1 .. Len(Operands) /\ i \in 1 .. Len(tokens)
            BY <1>1
        <3>2. tokens[i] \in Seq(Pieces)
            BY <3>1, ElementOfSeq DEF IInv, Typed
        <3>3. Operands[i] \in Analyzed(tokens[i])
            BY <3>1 DEF IInv, OperandsRead
        <3> QED
            BY <3>2, <3>3, AnalyzedFacts
    <2>2. IsXmm(Operands[i]) => kind = "xmm"
        BY DEF IsXmm
    <2>3. /\ (\E k \in 1 .. i - 1 : IsXmm(Operands[k])) => Mnemonic \notin StringD
          /\ Mnemonic \in SseD => (\E k \in 1 .. i - 1 : IsXmm(Operands[k])) \/ Contains(instr, "_xmm")
        BY <1>1 DEF IInv, SseSoFar
    <2>4. \A k \in 1 .. i : k \in 1 .. i - 1 \/ k = i
        BY <1>1
    <2>5. \A k \in 1 .. i - 1 : k \in 1 .. i
        BY <1>1
    <2>6. i \in 1 .. i
        BY <1>1
    <2> HIDE DEF kind
    <2>7. (\E k \in 1 .. i : IsXmm(Operands[k])) => Mnemonic' \notin StringD
        BY <1>9, <2>2, <2>3, <2>4
    <2>8. Mnemonic' \in SseD => (\E k \in 1 .. i : IsXmm(Operands[k])) \/ Contains(instr, "_xmm")
        BY <1>9, <2>1, <2>3, <2>5, <2>6
    <2>9. Operands' = Operands /\ instr' = instr
        BY <1>2
    <2> QED
        BY <1>3, <2>7, <2>8, <2>9 DEF SseSoFar
<1>12. Outcome'
    BY <1>1, <1>2, NoOutcome
<1> QED
    BY <1>4, <1>5, <1>6, <1>7, <1>8, <1>10, <1>11, <1>12 DEF IInv

\* The class is the one of the name that the special cases have left.
LEMMA TranslateStep ==
    ASSUME IInv, Translate
    PROVE  IInv'
<1> DEFINE far == IF Far THEN FarAlias(Mnemonic) ELSE Mnemonic
           named == SaveFlags(far, x64)
           xed == MnemonicToXed(named)
           implicit == HasImplicitOperands(named)
<1>1. /\ phase = "special" /\ result = "none" /\ AddressSizeOverride = 0 /\ OperandCount \in Nat
      /\ OperandCount = Len(Operands) /\ OperandCount = Len(tokens) /\ OperandCount <= 4
      /\ i = OperandCount + 1 /\ Operands \in Seq(Operand) /\ Len(tokens) <= MaxTokens
    <2>1. /\ phase = "special" /\ result = "none" /\ AddressSizeOverride = 0 /\ OperandCount \in Nat
          /\ OperandCount = Len(Operands) /\ OperandCount = Len(tokens) /\ OperandCount <= 4
          /\ i \in Nat /\ i <= OperandCount + 1 /\ Operands \in Seq(Operand) /\ Len(tokens) <= MaxTokens
        BY DEF IInv, Typed, Untouched, Counts, Translate
    <2>2. i > OperandCount
        BY DEF Translate
    <2>3. i = OperandCount + 1
        BY <2>1, <2>2
    <2> QED
        BY <2>1, <2>3
<1>2. /\ Class' = IF IsClass(xed) THEN xed ELSE <<>>
      /\ AddressSizeOverride' = IF implicit THEN AddressSize ELSE AddressSizeOverride
      /\ OperandCount' = IF implicit THEN 0 ELSE OperandCount
      /\ phase' = "done"
      /\ result' = IF Class' = <<>> THEN "Unknown instruction mnemonic" ELSE "true"
      /\ UNCHANGED <<instr, x64, buf, modifiers, Prefix, Operands, tokens, rest, more, i>>
    BY DEF Translate, Return
<1>3. /\ xed # <<>> /\ xed[1] \in StringStems => xed = named /\ xed = Mnemonic
      /\ /\ xed \in XedClasses
         /\ xed[1] = "j" /\ xed[2] \in Conditions
         => /\ Len(Mnemonic) = 2 /\ Mnemonic[1] = "j"
            /\ xed[2] = JumpCondition(Mnemonic[2])
    BY NamesFacts
<1> HIDE DEF far, named, xed, implicit
<1>4. AddressSize \in {0, 16, 32, 64}
    <2>1. OperandCount >= 2 => Operands[1] \in Operand /\ Operands[2] \in Operand
        <3>1. OperandCount >= 2 => 1 \in 1 .. Len(Operands) /\ 2 \in 1 .. Len(Operands)
            BY <1>1
        <3> QED
            BY <1>1, <3>1, ElementOfSeq
    <2>2. \A op \in Operand : op.base \in {0, 16, 32, 64}
        BY DEF Operand
    <2>3. CASE OperandCount < 2
        BY <2>3 DEF AddressSize
    <2>4. CASE ~(OperandCount < 2)
        <3>1. Operands[1].base \in {0, 16, 32, 64} /\ Operands[2].base \in {0, 16, 32, 64}
            BY <1>1, <2>1, <2>2, <2>4
        <3> QED
            BY <2>4, <3>1 DEF AddressSize
    <2> QED
        BY <2>3, <2>4
<1>5. /\ OperandCount' \in Nat /\ OperandCount' <= OperandCount
      /\ OperandCount' > 0 => AddressSizeOverride' = 0
    <2>1. /\ implicit => OperandCount' = 0
          /\ ~implicit => OperandCount' = OperandCount /\ AddressSizeOverride' = AddressSizeOverride
        BY ONLY <1>2
    <2>2. OperandCount \in Nat /\ AddressSizeOverride = 0
        BY <1>1
    <2> QED
        BY ONLY <2>1, <2>2
<1>6. Typed'
    <2>1. Class' \in XedClasses \union {<<>>}
        BY <1>2 DEF IsClass
    <2>2. AddressSizeOverride' \in {0, 16, 32, 64}
        BY <1>1, <1>2, <1>4
    <2> QED
        BY <1>2, <1>5, <2>1, <2>2 DEF IInv, Typed, modifiers
<1>7. OneModifier'
    BY <1>1, <1>2, TextStable
<1>8. Untouched'
    BY <1>2 DEF Untouched
<1>9. Counts'
    <2>1. tokens' = tokens /\ Operands' = Operands /\ i' = i
        BY <1>2
    <2>2. /\ Len(tokens') <= MaxTokens /\ Len(Operands') <= Len(tokens')
          /\ Len(Operands') <= MaxOperands
        <3>1. OperandCount <= OperandCount
            BY <1>1
        <3> QED
            BY <1>1, <2>1, <3>1
    <2>3. OperandCount' <= Len(tokens') /\ OperandCount' <= MaxOperands /\ i' <= 5
        BY <1>1, <1>5, <2>1
    <2> QED
        BY <1>2, <2>2, <2>3 DEF Counts
<1>10. OperandsRead'
    BY <1>2 DEF IInv, OperandsRead
<1>11. AllThere' /\ MnemonicThere' /\ SseSoFar'
    BY <1>2 DEF AllThere, MnemonicThere, SseSoFar
<1>12. CASE Class' = <<>>
    BY <1>2, <1>6, <1>7, <1>8, <1>9, <1>10, <1>11, <1>12, NoOutcome DEF IInv
<1>13. CASE Class' # <<>>
    <2>1. Class' = xed /\ xed \in XedClasses /\ xed # <<>>
        BY <1>2, <1>13 DEF IsClass
    <2>2. Operands' = Operands /\ instr' = instr /\ Remainders' = Remainders
        BY <1>2 DEF Remainders, Deleted, modifiers
    <2>3. SseOrString'
        <3> DEFINE xmm == \E k \in 1 .. Len(Operands) : IsXmm(Operands[k])
        <3>1. /\ xmm => Mnemonic \notin StringD
              /\ Mnemonic \in SseD => xmm \/ Contains(instr, "_xmm")
            <4>1. i - 1 = Len(Operands)
                BY <1>1
            <4> QED
                BY <1>1, <4>1 DEF IInv, SseSoFar
        <3> HIDE DEF xmm
        <3>2. ASSUME xed \in StringD PROVE ~xmm /\ OperandCount' = 0
            <4>1. named = xed /\ Mnemonic = xed
                BY <1>3, <3>2 DEF StringD, StringStems
            <4>2. implicit
                BY <3>2, <4>1 DEF implicit, HasImplicitOperands, StringD, StringStems, Conflicting
            <4> QED
                BY <1>2, <3>1, <3>2, <4>1, <4>2
        <3>3. ASSUME xed \in SseD
              PROVE  (xmm \/ Contains(instr, "_xmm")) /\ OperandCount' = Len(Operands)
            <4>1. named = xed /\ Mnemonic = xed
                BY <1>3, <3>3 DEF SseD, StringStems
            <4>2. ~implicit
                <5>1. 3 \in 1 .. Len(named) /\ named[3] = "_xmm"
                    BY <3>3, <4>1 DEF SseD
                <5> QED
                    BY <5>1 DEF implicit, HasImplicitOperands, Conflicting
            <4> QED
                BY <1>1, <1>2, <3>1, <3>3, <4>1, <4>2
        <3> QED
            BY <2>1, <2>2, <3>2, <3>3 DEF SseOrString, StringD, SseD, xmm
    <2>4. StringAddressSize'
        <3>1. OperandCount' > 0 => AddressSizeOverride' = 0
            BY <1>5
        <3> DEFINE bases == {Operands[k].base : k \in {n \in 1 .. 2 : Operands[n].Type = "MEM"}}
        <3>2. ASSUME Len(Operands) >= 2, HasImplicitOperands(xed)
              PROVE  IF bases = {} THEN AddressSizeOverride' = 0 ELSE AddressSizeOverride' \in bases
            <4>1. xed = named
                BY <1>3, <3>2 DEF HasImplicitOperands
            <4>2. AddressSizeOverride' = AddressSize
                BY <1>2, <3>2, <4>1 DEF implicit
            <4>3. ~(OperandCount < 2)
                BY <1>1, <3>2
            <4>4. CASE Operands[1].Type = "MEM"
                <5>1. AddressSize = Operands[1].base
                    BY <4>3, <4>4 DEF AddressSize
                <5>2. 1 \in {n \in 1 .. 2 : Operands[n].Type = "MEM"}
                    BY <4>4
                <5>3. Operands[1].base \in bases
                    BY <5>2
                <5> QED
                    BY <4>2, <5>1, <5>3
            <4>5. CASE Operands[1].Type # "MEM" /\ Operands[2].Type = "MEM"
                <5>1. AddressSize = Operands[2].base
                    BY <4>3, <4>5 DEF AddressSize
                <5>2. 2 \in {n \in 1 .. 2 : Operands[n].Type = "MEM"}
                    BY <4>5
                <5>3. Operands[2].base \in bases
                    BY <5>2
                <5> QED
                    BY <4>2, <5>1, <5>3
            <4>6. CASE Operands[1].Type # "MEM" /\ Operands[2].Type # "MEM"
                <5>1. AddressSize = 0
                    BY <4>3, <4>6 DEF AddressSize
                <5>2. \A n \in 1 .. 2 : Operands[n].Type # "MEM"
                    <6>1. \A n \in 1 .. 2 : n = 1 \/ n = 2
                        OBVIOUS
                    <6> QED
                        BY <4>6, <6>1
                <5>3. bases = {}
                    BY <5>2
                <5> QED
                    BY <4>2, <5>1, <5>3
            <4> QED
                BY <4>4, <4>5, <4>6
        <3> HIDE DEF bases
        <3>3. Len(Operands) >= 2 /\ HasImplicitOperands(xed) =>
                  IF bases = {} THEN AddressSizeOverride' = 0 ELSE AddressSizeOverride' \in bases
            BY <3>2
        <3> QED
            BY <2>1, <2>2, <3>1, <3>3 DEF StringAddressSize, bases
    <2>5. JumpKeepsCondition'
        <3>1. ASSUME xed[1] = "j", xed[2] \in Conditions
              PROVE  \E r \in Remainders : \E k \in 1 .. Len(r) - 1 :
                         r[k] = "j" /\ \A f \in Flags : Holds(r[k + 1], f) = Holds(xed[2], f)
            <4>1. /\ Len(Mnemonic) = 2 /\ Mnemonic[1] = "j"
                  /\ xed[2] = JumpCondition(Mnemonic[2])
                BY <1>3, <2>1, <3>1
            <4>2. buf \in Remainders /\ buf \in Seq(Pieces) /\ Occurs(Mnemonic, buf)
                <5>1. Going
                    BY <1>1 DEF Going
                <5> QED
                    BY <1>1, <4>1, <5>1 DEF IInv, OneModifier, Typed, MnemonicThere
            <4>3. PICK n \in 0 .. Len(buf) : n + 2 <= Len(buf) /\ \A k \in 1 .. 2 : Mnemonic[k] = buf[n + k]
                BY <4>1, <4>2 DEF Occurs
            <4>4. n + 1 \in 1 .. Len(buf) - 1 /\ buf[n + 1] = "j" /\ buf[(n + 1) + 1] = Mnemonic[2]
                <5>1. Len(buf) \in Nat /\ 1 \in 1 .. 2 /\ 2 \in 1 .. 2 /\ n + 2 = (n + 1) + 1
                    BY <4>2
                <5> QED
                    BY <4>1, <4>3, <5>1
            <4>5. \A f \in Flags : Holds(Mnemonic[2], f) = Holds(xed[2], f)
                BY <3>1, <4>1, SameFlags
            <4> QED
                BY <4>2, <4>4, <4>5
        <3> QED
            BY <2>1, <2>2, <3>1 DEF JumpKeepsCondition, SameCondition
    <2> QED
        BY <1>6, <1>7, <1>8, <1>9, <1>10, <1>11, <2>3, <2>4, <2>5 DEF IInv, Outcome
<1> QED
    BY <1>12, <1>13

\* Every step of a call preserves the invariant.
LEMMA NextIInv ==
    ASSUME IInv, [Next]_vars
    PROVE  IInv'
<1>1. CASE UNCHANGED vars
    <2> USE <1>1 DEF vars, modifiers, inst
    <2>1. Typed'
        <3>1. UNCHANGED <<instr, x64, Near, Far, Short, more, buf, rest, tokens, Operands, OperandCount, i,
                          Prefix, Class, AddressSizeOverride, phase, Mnemonic>>
            OBVIOUS
        <3>2. Typed
            BY DEF IInv
        <3> QED
            BY ONLY <3>1, <3>2 DEF Typed
    <2>10. OperandsRead'
        BY DEF IInv, OperandsRead
    <2>8. Untouched'
        BY DEF IInv, Untouched
    <2>9. Counts'
        BY DEF IInv, Counts
    <2>2. Deleted' = Deleted /\ Remainders' = Remainders
        BY DEF Deleted, Remainders
    <2>3. OneModifier'
        BY <2>2 DEF IInv, OneModifier, Going
    <2>4. AllThere'
        <3>1. Ahead' = Ahead
            BY DEF Ahead
        <3> QED
            BY <3>1 DEF IInv, AllThere
    <2>5. MnemonicThere' /\ SseSoFar'
        BY DEF IInv, MnemonicThere, SseSoFar
    <2>6. SseOrString' /\ StringAddressSize'
        BY DEF IInv, Outcome, SseOrString, StringAddressSize, Accepted
    <2>7. JumpKeepsCondition'
        BY <2>2 DEF IInv, Outcome, JumpKeepsCondition, SameCondition, Accepted
    <2> QED
        BY <2>1, <2>3, <2>4, <2>5, <2>6, <2>7, <2>8, <2>9, <2>10 DEF IInv, Outcome
<1>2. CASE Next
    BY <1>2, ModifiersStep, GrabPrefixStep, GrabMnemonicStep, NoOperandsStep, FirstOperandStep,
       GrabOperandStep, AnalyzeStep, OverrunStep, AnalyzeEndsStep, SpecialCaseStep, TranslateStep DEF Next
<1> QED
    BY <1>1, <1>2

\* The strengthened invariant of a call holds in all its states.
THEOREM ParserInvariant == Spec => []IInv
<1>1. Init => IInv
    BY InitIInv
<1>2. IInv /\ [Next]_vars => IInv'
    BY NextIInv
<1> QED
    BY <1>1, <1>2, PTL DEF Spec

\* The variables of a call have their types; the operands that are in the array
\* are four at most, whatever is written behind it (Parser.cpp:210-274).
THEOREM TypeCorrect == Spec => []TypeOK
<1>1. IInv => TypeOK
    <2> SUFFICES ASSUME IInv PROVE TypeOK
        OBVIOUS
    <2>1. /\ instr \in Texts /\ x64 \in BOOLEAN
          /\ Near \in BOOLEAN /\ Far \in BOOLEAN /\ Short \in BOOLEAN
          /\ Prefix \in {"NONE", "LOCK", "REP", "REPNEZ"}
          /\ Class \in XedClasses \union {<<>>}
          /\ AddressSizeOverride \in {0, 16, 32, 64, Overwritten}
          /\ phase \in {"modifiers", "prefix", "mnemonic", "operands", "grab", "analyze", "special", "done"}
        BY Zenon DEF IInv, Typed
    <2>2. /\ Len(tokens) <= MaxTokens /\ Len(Operands) <= Len(tokens) /\ Len(Operands) <= MaxOperands
          /\ OperandCount \in Nat /\ OperandCount <= Len(tokens) /\ Len(tokens) \in Nat
          /\ i \in Nat \ {0} /\ Operands \in Seq(Operand)
        BY DEF IInv, Typed, Counts
    <2>3. \A k \in 1 .. Len(Operands) : Operands[k] \in Operand
        BY <2>2, ElementOfSeq
    <2>4. phase = "special" \/ result = "true" => OperandCount <= MaxOperands
        <3>1. phase # "done" => result = "none"
            BY DEF IInv, Untouched
        <3> QED
            BY <3>1 DEF IInv, Counts
    <2>5. i <= 5
        <3>1. phase = "special" => i <= OperandCount + 1 /\ OperandCount <= 4
            BY DEF IInv, Counts
        <3>2. phase = "done" => i <= 5
            BY DEF IInv, Counts
        <3>3. phase \notin {"special", "done"} => i = 1
            BY DEF IInv, Untouched
        <3> QED
            BY <2>2, <3>1, <3>2, <3>3
    <2>6. OperandCount \in 0 .. IF phase = "special" \/ result = "true" THEN MaxOperands ELSE MaxTokens
        BY <2>2, <2>4 DEF MaxTokens
    <2>7. i \in 1 .. 5
        BY <2>2, <2>5
    <2> QED
        BY <2>1, <2>2, <2>3, <2>6, <2>7 DEF TypeOK
<1> QED
    BY <1>1, ParserInvariant, PTL

\* Nothing but blanks and the one modifier is lost between the text and the
\* prefix, mnemonic and operands that are read from it (Parser.cpp:118-256).
THEOREM TextKept == Spec => []NothingLost
<1>1. IInv => NothingLost
    <2> SUFFICES ASSUME IInv, phase = "special", i = 1
                 PROVE  /\ Cardinality(Deleted) <= 1
                        /\ \E p \in PrefixWords, r \in Remainders :
                              /\ PrefixFromString(p) = Prefix
                              /\ NoBlanks(r) = p \o NoBlanks(Mnemonic) \o Joined
                        /\ \A k \in 1 .. Len(tokens) : tokens[k] # <<>> /\ ~Contains(tokens[k], ",")
                        /\ Len(Operands) = Len(tokens)
        BY DEF NothingLost
    <2>1. Cardinality(Deleted) <= 1 /\ buf \in Remainders
        BY DEF IInv, Untouched, OneModifier, Going
    <2>2. Len(Operands) = Len(tokens)
        BY DEF IInv, Counts
    <2>3. PICK p \in PrefixWords : /\ p \in Seq(Pieces) /\ PrefixFromString(p) = Prefix
                                   /\ NoBlanks(buf) = p \o Ahead
        BY DEF IInv, AllThere
    <2>4. Ahead = NoBlanks(Mnemonic) \o Joined
        <3>1. Joined = JoinedWith(tokens, Comma)
            BY DEF Joined, JoinedWith, With, Comma
        <3> QED
            BY <3>1 DEF Ahead
    <2>5. NoBlanks(buf) = p \o NoBlanks(Mnemonic) \o Joined
        <3> DEFINE m == NoBlanks(Mnemonic)
        <3>1. Comma \in Seq(Pieces)
            BY SeparatorsAreTexts DEF Comma
        <3>2. m \in Seq(Pieces)
            BY NoBlanksType DEF IInv, Typed
        <3>3. Joined \in Seq(Pieces)
            <4>1. Joined = JoinedWith(tokens, Comma)
                BY DEF Joined, JoinedWith, With, Comma
            <4>2. tokens \in Seq(Seq(Pieces))
                BY DEF IInv, Typed
            <4> QED
                BY <3>1, <4>1, <4>2, JoinedType
        <3> HIDE DEF m
        <3>4. (p \o m) \o Joined = p \o (m \o Joined)
            BY <2>3, <3>2, <3>3, ConcatAssociative
        <3> QED
            BY <2>3, <2>4, <3>4 DEF m
    <2>6. ASSUME NEW k \in 1 .. Len(tokens) PROVE tokens[k] # <<>> /\ ~Contains(tokens[k], ",")
        <3>1. tokens[k] \in Seq(Pieces)
            BY ElementOfSeq DEF IInv, Typed
        <3>2. Operands[k] \in Analyzed(tokens[k])
            BY <2>2 DEF IInv, OperandsRead
        <3>3. ~Contains(tokens[k], ",")
            BY DEF IInv, OperandsRead
        <3> QED
            BY <3>1, <3>2, <3>3, AnalyzedFacts
    <2> QED
        BY <2>1, <2>2, <2>3, <2>5, <2>6
<1> QED
    BY <1>1, ParserInvariant, PTL

\* An XMM register tells the SSE instruction MOVSD or CMPSD from the string
\* instruction, in every text (MnemonicTable.cpp:78-123).
THEOREM XmmTells == Spec => []SseOrString
<1>1. IInv => SseOrString
    BY DEF IInv, Outcome
<1> QED
    BY <1>1, ParserInvariant, PTL

\* A string instruction has the address size of its memory operand, and no
\* other instruction has one (MnemonicTable.cpp:110-119).
THEOREM StringSize == Spec => []StringAddressSize
<1>1. IInv => StringAddressSize
    BY DEF IInv, Outcome
<1> QED
    BY <1>1, ParserInvariant, PTL

\* A conditional jump is taken under the flags that its text names
\* (MnemonicTable.h:25-38).
THEOREM JumpCorrect == Spec => []JumpKeepsCondition
<1>1. IInv => JumpKeepsCondition
    BY DEF IInv, Outcome
<1> QED
    BY <1>1, ParserInvariant, PTL

-----------------------------------------------------------------------------
(* Numbers: a text read from its first digit on is the sum of its digits   *)
(* times the powers of the radix.                                          *)

-----------------------------------------------------------------------------
(* The number of digits is the sum of their values.                        *)

\* The number of the first k digits.
Leading(h, s, radix) ==
    /\ h \in [0 .. Len(s) -> Nat] /\ h[0] = 0
    /\ \A k \in 1 .. Len(s) : h[k] = h[k - 1] * radix + Digits[s[k]]

\* The fold takes the digits one by one.
LEMMA NumberByLeading ==
    ASSUME NEW s \in Seq(DOMAIN Digits), NEW radix \in Nat
    PROVE  \E h : Leading(h, s, radix) /\ Number(s, radix) = h[Len(s)]
<1>1. PICK f : /\ Evaluates(f, s, radix, Len(s)) /\ Number(s, radix) = f[1 .. Len(s)]
               /\ \A x \in SUBSET (1 .. Len(s)) : f[x] \in Nat
    BY NumberValue
<1> DEFINE h == [k \in 0 .. Len(s) |-> f[1 .. k]]
<1>2. Len(s) \in Nat
    OBVIOUS
<1>3. \A k \in 0 .. Len(s) : 1 .. k \in SUBSET (1 .. Len(s))
    BY <1>2
<1>4. h \in [0 .. Len(s) -> Nat] /\ h[Len(s)] = f[1 .. Len(s)]
    BY <1>1, <1>2, <1>3
<1>5. h[0] = 0
    <2>1. 1 .. 0 = {} /\ 0 \in 0 .. Len(s) /\ {} \in SUBSET (1 .. Len(s))
        BY <1>2
    <2> QED
        BY <1>1, <2>1 DEF Evaluates
<1>6. ASSUME NEW k \in 1 .. Len(s) PROVE h[k] = h[k - 1] * radix + Digits[s[k]]
    <2>1. k \in Nat /\ k \in 0 .. Len(s) /\ k - 1 \in 0 .. Len(s) /\ 1 .. k # {} /\ k \in 1 .. k
        BY <1>2, <1>6
    <2>2. Max(1 .. k) = k
        <3>1. 1 .. k \subseteq 1 .. Len(s) /\ 1 .. k # {}
            BY <1>3, <2>1
        <3>2. Max(1 .. k) \in 1 .. k /\ Max(1 .. k) >= k
            BY <1>2, <2>1, <3>1, GreatestUpTo
        <3> QED
            BY <2>1, <3>2
    <2>3. (1 .. k) \ {k} = 1 .. k - 1
        BY <2>1
    <2>4. f[1 .. k] = f[(1 .. k) \ {Max(1 .. k)}] * radix + Digits[s[Max(1 .. k)]]
        BY <1>1, <1>3, <2>1 DEF Evaluates
    <2> QED
        BY <2>1, <2>2, <2>3, <2>4
<1>7. Leading(h, s, radix)
    BY <1>4, <1>5, <1>6 DEF Leading
<1> QED
    BY <1>1, <1>4, <1>7

\* One more digit to the left of a sum.
LEMMA OneMoreDigit ==
    ASSUME NEW a \in Nat, NEW r \in Nat, NEW d \in Nat, NEW q \in Nat
    PROVE  (a * r + d) * q = a * (r * q) + d * q
<1>1. (a * r) * q = a * (r * q)
    OBVIOUS
<1>2. a * r \in Nat
    OBVIOUS
<1> DEFINE b == a * r
<1>3. (b + d) * q = b * q + d * q
    <2>1. b \in Nat
        BY <1>2
    <2> HIDE DEF b
    <2> QED
        BY <2>1
<1> QED
    BY <1>1, <1>3

\* The sum of the last k digits, each times the power for its place.
Sums(p, s, radix) ==
    p = [k \in 0 .. Len(s) |->
            IF k = 0 THEN 0 ELSE p[k - 1] + Digits[s[Len(s) - (k - 1)]] * Power(radix, k - 1)]

\* The number is the number of the digits before some last ones, times the
\* power for their count, and the sum of those.
LEMMA SumsAndLeading ==
    ASSUME NEW s \in Seq(DOMAIN Digits), NEW radix \in Nat, NEW h, Leading(h, s, radix)
    PROVE  /\ \E p : Sums(p, s, radix)
           /\ \A p : Sums(p, s, radix) => p[Len(s)] = h[Len(s)]
<1> DEFINE n == Len(s)
           Q(k) == Power(radix, k)
           d(k) == Digits[s[k]]
<1>1. n \in Nat /\ \A k \in 1 .. n : d(k) \in Nat
    BY DigitsAreNat
<1>2. Q(0) = 1 /\ \A k \in Nat : Q(k) \in Nat /\ Q(k + 1) = radix * Q(k)
    BY PowerFacts
<1>3. /\ \A k \in 0 .. n : h[k] \in Nat
      /\ h[0] = 0 /\ \A k \in 1 .. n : h[k] = h[k - 1] * radix + d(k)
    BY DEF Leading
<1> HIDE DEF n, Q, d
<1>4. ASSUME NEW k \in 0 .. n - 1
      PROVE  /\ n - k \in 1 .. n /\ n - (k + 1) = (n - k) - 1 /\ n - (k + 1) \in 0 .. n
             /\ h[n - k] * Q(k) = h[n - (k + 1)] * Q(k + 1) + d(n - k) * Q(k)
             /\ h[n - (k + 1)] * Q(k + 1) \in Nat /\ d(n - k) * Q(k) \in Nat
    <2>1. k \in Nat /\ n - k \in 1 .. n /\ n - (k + 1) = (n - k) - 1 /\ n - (k + 1) \in 0 .. n
        BY <1>1
    <2>2. h[n - k] = h[n - (k + 1)] * radix + d(n - k) /\ h[n - (k + 1)] \in Nat
          /\ d(n - k) \in Nat /\ Q(k) \in Nat /\ Q(k + 1) = radix * Q(k)
        BY <1>1, <1>2, <1>3, <2>1
    <2>3. h[n - k] * Q(k) = h[n - (k + 1)] * Q(k + 1) + d(n - k) * Q(k)
        BY <2>2, OneMoreDigit
    <2>4. /\ h[n - (k + 1)] * Q(k + 1) \in Nat /\ d(n - k) * Q(k) \in Nat
        BY <2>2
    <2> QED
        BY <2>1, <2>3, <2>4
<1> DEFINE g == [k \in 0 .. n |-> h[n] - h[n - k] * Q(k)]
<1>5. h[n] \in Nat /\ n \in 0 .. n /\ n - 0 = n
    BY <1>1, <1>3
<1>6. ASSUME NEW k \in 0 .. n
      PROVE  g[k] = IF k = 0 THEN 0 ELSE g[k - 1] + d(n - (k - 1)) * Q(k - 1)
    <2>1. CASE k = 0
        <3>1. h[n - k] = h[n] /\ Q(k) = 1
            BY <1>2, <1>5, <2>1
        <3>2. h[n] - h[n] * 1 = 0
            BY <1>5
        <3> QED
            BY <2>1, <3>1, <3>2
    <2>2. CASE k # 0
        <3> DEFINE j == k - 1
        <3>1. j \in 0 .. n - 1 /\ j \in 0 .. n /\ j + 1 = k
            BY <1>1, <2>2
        <3> HIDE DEF j
        <3>2. h[n - j] * Q(j) = h[n - k] * Q(k) + d(n - j) * Q(j)
              /\ h[n - k] * Q(k) \in Nat /\ d(n - j) * Q(j) \in Nat
            BY <1>4, <3>1
        <3>3. g[k] = h[n] - h[n - k] * Q(k) /\ g[j] = h[n] - h[n - j] * Q(j)
            BY <3>1
        <3>4. h[n] \in Nat
            BY <1>5
        <3> HIDE DEF g
        <3>5. g[k] = g[j] + d(n - j) * Q(j)
            BY ONLY <3>2, <3>3, <3>4
        <3> QED
            BY <2>2, <3>5 DEF j
    <2> QED
        BY <2>1, <2>2
<1>7. Sums(g, s, radix)
    <2> DEFINE next == [k \in 0 .. n |-> IF k = 0 THEN 0 ELSE g[k - 1] + d(n - (k - 1)) * Q(k - 1)]
    <2>1. g = next
        BY <1>6
    <2> HIDE DEF g
    <2> QED
        BY <2>1 DEF Sums, n, d, Q
<1>8. ASSUME NEW p, Sums(p, s, radix) PROVE p[n] = h[n]
    <2>1. /\ p[0] = 0
          /\ \A k \in 0 .. n - 1 : p[k + 1] = p[k] + d(n - k) * Q(k)
        <3>1. \A k \in 0 .. n : p[k] = IF k = 0 THEN 0 ELSE p[k - 1] + d(n - (k - 1)) * Q(k - 1)
            BY <1>8 DEF Sums, n, d, Q
        <3>2. \A k \in 0 .. n - 1 : k + 1 \in 0 .. n /\ k + 1 # 0 /\ (k + 1) - 1 = k
            BY <1>1
        <3> QED
            BY <1>1, <3>1, <3>2
    <2> DEFINE T == {k \in Nat : k <= n => p[k] \in Nat /\ h[n] = h[n - k] * Q(k) + p[k]}
    <2>2. 0 \in T /\ T \subseteq Nat
        <3>1. n - 0 = n /\ h[n] \in Nat /\ Q(0) = 1
            BY <1>2, <1>5
        <3>2. h[n] * 1 + 0 = h[n]
            BY <3>1
        <3> QED
            BY <2>1, <3>1, <3>2
    <2>3. ASSUME NEW k \in T PROVE k + 1 \in T
        <3>1. CASE k + 1 <= n
            <4>1. k \in 0 .. n - 1 /\ k <= n
                BY <1>1, <3>1
            <4>2. p[k] \in Nat /\ h[n] = h[n - k] * Q(k) + p[k]
                BY <4>1
            <4>3. p[k + 1] = p[k] + d(n - k) * Q(k)
                BY <2>1, <4>1
            <4>4. h[n - k] * Q(k) = h[n - (k + 1)] * Q(k + 1) + d(n - k) * Q(k)
                  /\ h[n - (k + 1)] * Q(k + 1) \in Nat /\ d(n - k) * Q(k) \in Nat
                BY <1>4, <4>1
            <4>5. p[k + 1] \in Nat /\ h[n] = h[n - (k + 1)] * Q(k + 1) + p[k + 1]
                BY ONLY <4>2, <4>3, <4>4
            <4> QED
                BY <4>5
        <3>2. CASE ~(k + 1 <= n)
            BY <3>2
        <3> QED
            BY <3>1, <3>2
    <2>4. T = Nat
        <3> HIDE DEF T
        <3> QED
            BY <2>2, <2>3, SetInduction
    <2>5. p[n] \in Nat /\ h[n] = h[n - n] * Q(n) + p[n]
        <3>1. n \in T /\ n <= n
            BY <1>1, <2>4
        <3> QED
            BY <3>1
    <2>6. h[n - n] * Q(n) = 0
        <3>1. n - n = 0
            BY <1>1
        <3>2. Q(n) \in Nat
            BY <1>1, <1>2
        <3>3. 0 * Q(n) = 0
            BY <3>2
        <3> QED
            BY <1>3, <3>1, <3>3
    <2>7. h[n] \in Nat
        BY <1>5, <1>1
    <2> QED
        BY ONLY <2>5, <2>6, <2>7
<1> QED
    BY <1>7, <1>8 DEF n

-----------------------------------------------------------------------------
(* What a number that is written is read as.                               *)

\* The digits behind sign and marker.
DigitsOf(token, f) == SubSeq(token, Len(Lead(f)) + 1, Len(token))

\* Which characters are digits.
LEMMA DigitChars ==
    /\ DOMAIN Digits = {"0", "1", "9", "b"}
    /\ Digits["b"] = 11
    /\ "-" \notin DOMAIN Digits /\ "x" \notin DOMAIN Digits
    /\ "." \notin DOMAIN Digits /\ "o" \notin DOMAIN Digits /\ ":" \notin DOMAIN Digits
BY DEF Digits

Markers == {<<>>, <<"x">>, <<"0", "x">>, <<".">>, <<".", "b">>, <<"o">>}

\* The radix of a marker.
LEMMA RadixFacts ==
    /\ DOMAIN Radix = Markers
    /\ Radix[<<>>] = 16 /\ Radix[<<"x">>] = 16 /\ Radix[<<"0", "x">>] = 16
    /\ Radix[<<".">>] = 10 /\ Radix[<<".", "b">>] = 2 /\ Radix[<<"o">>] = 8
    /\ \A m \in DOMAIN Radix : Radix[m] \in {2, 8, 10, 16}
<1>1. Len(<<>>) = 0 /\ Len(<<".">>) = 1 /\ Len(<<".", "b">>) = 2 /\ Len(<<"o">>) = 1
      /\ Len(<<"x">>) = 1 /\ Len(<<"0", "x">>) = 2
    OBVIOUS
<1>2. /\ <<".">> # <<"o">> /\ <<"x">> # <<".">> /\ <<"x">> # <<"o">> /\ <<".", "b">> # <<"0", "x">>
    OBVIOUS
<1>3. DOMAIN Radix = Markers
    BY DEF Radix, Markers
<1>4. /\ Radix[<<>>] = 16 /\ Radix[<<"x">>] = 16 /\ Radix[<<"0", "x">>] = 16
      /\ Radix[<<".">>] = 10 /\ Radix[<<".", "b">>] = 2 /\ Radix[<<"o">>] = 8
    BY <1>1, <1>2 DEF Radix
<1> QED
    BY <1>3, <1>4 DEF Markers

Chars == {"-", "x", "0", ".", "b", "o"}

\* A marker is a text.
LEMMA MarkersAreTexts ==
    ASSUME NEW m \in Markers
    PROVE  m \in Seq(Chars)
<1>1. <<>> \in Seq(Chars)
    OBVIOUS
<1>2. \A c \in Chars : <<c>> \in Seq(Chars)
    OBVIOUS
<1>3. \A b, c \in Chars : <<b, c>> \in Seq(Chars)
    OBVIOUS
<1>4. {"-", "x", "0", ".", "b", "o"} \subseteq Chars
    BY DEF Chars
<1> HIDE DEF Chars
<1> QED
    BY <1>1, <1>2, <1>3, <1>4 DEF Markers

\* A token that is written as a number has digits behind its sign and marker.
LEMMA WrittenFacts ==
    ASSUME NEW S, NEW token \in Seq(S), NEW f \in Written(token)
    PROVE  LET n == Len(Lead(f))
               d == DigitsOf(token, f)
           IN  /\ f.negative \in BOOLEAN /\ f.marker \in Markers
               /\ n \in Nat /\ n < Len(token) /\ \A k \in 1 .. n : token[k] = Lead(f)[k]
               /\ d \in Seq(DOMAIN Digits) /\ d \in Seq(S) /\ Len(d) = Len(token) - n /\ d # <<>>
               /\ \A k \in 1 .. Len(d) : d[k] = token[n + k] /\ IsDigit(d[k], Radix[f.marker])
<1> DEFINE n == Len(Lead(f))
           d == DigitsOf(token, f)
<1>1. /\ f.negative \in BOOLEAN /\ f.marker \in Markers
      /\ IsStrictPrefix(Lead(f), token)
      /\ \A k \in n + 1 .. Len(token) : IsDigit(token[k], Radix[f.marker])
    BY RadixFacts DEF Written
<1>2. Lead(f) \in Seq(Chars)
    <2>1. \A m \in Markers : m \in Seq(Chars)
        BY MarkersAreTexts
    <2>2. (IF f.negative THEN <<"-">> ELSE <<>>) \in Seq(Chars)
        <3>1. <<>> \in Seq(Chars) /\ <<"-">> \in Seq(Chars)
            BY DEF Chars
        <3> QED
            BY <3>1
    <2> QED
        BY <1>1, <2>1, <2>2 DEF Lead
<1>3. n \in Nat /\ n < Len(token) /\ \A k \in 1 .. n : token[k] = Lead(f)[k]
    <2>1. n <= Len(token) /\ SubSeq(Lead(f), 1, n) = SubSeq(token, 1, n) /\ Lead(f) # token
        BY <1>1 DEF IsStrictPrefix, IsPrefix
    <2> DEFINE l == Lead(f)
    <2>2. l \in Seq(Chars) /\ n = Len(l) /\ Len(l) \in Nat /\ Len(token) \in Nat
        BY <1>2
    <2> HIDE DEF l, n
    <2>3. \A k \in 1 .. n : SubSeq(l, 1, n)[k] = l[k] /\ SubSeq(token, 1, n)[k] = token[k]
        BY <2>1, <2>2
    <2>4. n # Len(token)
        <3> SUFFICES ASSUME n = Len(token) PROVE FALSE
            OBVIOUS
        <3>1. SubSeq(l, 1, Len(l)) = l
            BY <2>2, SubSeqFull
        <3>2. SubSeq(token, 1, Len(token)) = token
            BY SubSeqFull
        <3> QED
            BY <2>1, <2>2, <3>1, <3>2 DEF l
    <2> QED
        BY <2>1, <2>2, <2>3, <2>4 DEF l
<1>4. d \in Seq(S) /\ Len(d) = Len(token) - n /\ \A k \in 1 .. Len(d) : d[k] = token[n + k]
    <2>1. n + 1 >= 1 /\ n + 1 \in Nat /\ Len(token) \in Nat /\ n + 1 <= Len(token) + 1
        BY <1>3
    <2> HIDE DEF n
    <2>2. d = SubSeq(token, n + 1, Len(token))
        BY DEF DigitsOf, n
    <2> HIDE DEF d
    <2> QED
        BY <1>3, <2>1, <2>2
<1> HIDE DEF n, d
<1>5. \A k \in 1 .. Len(d) : IsDigit(d[k], Radix[f.marker])
    <2>1. \A k \in 1 .. Len(d) : n + k \in n + 1 .. Len(token)
        BY <1>3, <1>4
    <2> QED
        BY <1>1, <1>4, <2>1
<1>6. d \in Seq(DOMAIN Digits)
    <2>1. \A k \in 1 .. Len(d) : d[k] \in DOMAIN Digits
        BY <1>5 DEF IsDigit
    <2> QED
        BY <1>4, <2>1
<1>7. d # <<>>
    BY <1>3, <1>4
<1> QED
    BY <1>1, <1>3, <1>4, <1>5, <1>6, <1>7 DEF n, d

\* The number that a token means is that of its digits.
LEMMA MagnitudeIsNumber ==
    ASSUME NEW S, NEW token \in Seq(S), NEW f \in Written(token)
    PROVE  /\ Magnitude(token, f) = Number(DigitsOf(token, f), Radix[f.marker])
           /\ Magnitude(token, f) \in Nat
<1> DEFINE n == Len(Lead(f))
           d == DigitsOf(token, f)
           radix == Radix[f.marker]
           p == CHOOSE q : q = [k \in 0 .. Len(token) - n |->
                    IF k = 0 THEN 0
                    ELSE q[k - 1] + Digits[token[Len(token) - (k - 1)]] * Power(radix, k - 1)]
<1>1. Magnitude(token, f) = p[Len(token) - n]
    BY DEF Magnitude
<1>2. /\ n \in Nat /\ n < Len(token) /\ Len(token) \in Nat /\ d \in Seq(DOMAIN Digits)
      /\ Len(d) = Len(token) - n
      /\ (\A k \in 1 .. Len(d) : d[k] = token[n + k]) /\ radix \in Nat
    <2>1. f.marker \in Markers
        BY WrittenFacts
    <2>2. radix \in Nat
        BY <2>1, RadixFacts
    <2> QED
        BY <2>2, WrittenFacts
<1> HIDE DEF n, d, radix
<1>3. \A k \in 0 .. Len(d) : k # 0 => d[Len(d) - (k - 1)] = token[Len(token) - (k - 1)]
    <2> SUFFICES ASSUME NEW k \in 0 .. Len(d), k # 0
                 PROVE  d[Len(d) - (k - 1)] = token[Len(token) - (k - 1)]
        OBVIOUS
    <2>1. Len(d) - (k - 1) \in 1 .. Len(d) /\ n + (Len(d) - (k - 1)) = Len(token) - (k - 1)
        BY <1>2
    <2> QED
        BY <1>2, <2>1
<1>4. \A q : Sums(q, d, radix) <=>
          q = [k \in 0 .. Len(token) - n |->
                    IF k = 0 THEN 0
                    ELSE q[k - 1] + Digits[token[Len(token) - (k - 1)]] * Power(radix, k - 1)]
    BY <1>2, <1>3 DEF Sums
<1>5. PICK h : Leading(h, d, radix) /\ Number(d, radix) = h[Len(d)]
    BY <1>2, NumberByLeading
<1>6. Sums(p, d, radix)
    <2>1. \E q : Sums(q, d, radix)
        BY <1>2, <1>5, SumsAndLeading
    <2> QED
        BY <1>4, <2>1
<1> HIDE DEF p
<1>7. p[Len(d)] = Number(d, radix)
    BY <1>2, <1>5, <1>6, SumsAndLeading
<1> QED
    BY <1>1, <1>2, <1>7, NumberType DEF d, radix

\* Digits are read as their number, unless that does not fit.
LEMMA ConvertDigits ==
    ASSUME NEW d \in Seq(DOMAIN Digits), d # <<>>, NEW radix \in Nat,
           \A k \in 1 .. Len(d) : IsDigit(d[k], radix)
    PROVE  convertNumber(d, radix) = IF Number(d, radix) < QwordModulus THEN Some(Number(d, radix))
                                     ELSE None
<1>1. Len(d) \in Nat /\ Len(d) >= 1 /\ \A k \in 1 .. Len(d) : d[k] \in DOMAIN Digits
    OBVIOUS
<1>2. AfterSign(d) = d
    BY <1>1, DigitChars DEF AfterSign
<1>3. AfterMarker(d, radix) = d
    <2>1. Len(d) >= 3 => 2 \in 1 .. Len(d)
        BY <1>1
    <2> QED
        BY <1>1, <2>1, DigitChars DEF AfterMarker
<1>4. IsNumber(d, radix)
    BY <1>2, <1>3 DEF IsNumber
<1> DEFINE n == Number(d, radix)
<1>5. n \in Nat /\ QwordModulus \in Nat
    BY NumberType, NumbersAssumption
<1>6. strtoull(d, radix) = IF n >= QwordModulus THEN [value |-> QwordModulus - 1, errno |-> TRUE]
                           ELSE [value |-> n, errno |-> FALSE]
    BY <1>2, <1>3 DEF strtoull
<1> HIDE DEF n
<1>7. n >= QwordModulus <=> ~(n < QwordModulus)
    BY <1>5
<1>8. CASE n < QwordModulus
    <2>1. strtoull(d, radix).value = n /\ strtoull(d, radix).errno = FALSE
        BY <1>6, <1>7, <1>8
    <2> QED
        BY <1>4, <1>8, <2>1 DEF convertNumber, n
<1>9. CASE ~(n < QwordModulus)
    <2>1. strtoull(d, radix).value = QwordModulus - 1 /\ strtoull(d, radix).errno = TRUE
        BY <1>6, <1>7, <1>9
    <2> QED
        BY <1>4, <1>9, <2>1 DEF convertNumber, n
<1> QED
    BY <1>8, <1>9 DEF n

\* Behind a marker of the radix, digits are read in that radix.
LEMMA MarkerIsRead ==
    ASSUME NEW S, NEW s \in Seq(S), NEW m \in Markers, NEW d \in Seq(DOMAIN Digits), d \in Seq(S),
           d # <<>>, \A k \in 1 .. Len(d) : IsDigit(d[k], Radix[m]),
           Len(s) = Len(m) + Len(d), \A k \in 1 .. Len(m) : s[k] = m[k],
           \A k \in 1 .. Len(d) : s[Len(m) + k] = d[k]
    PROVE  Unsigned(AfterZero(s)) = convertNumber(d, Radix[m])
<1>1. Len(d) \in Nat /\ Len(d) >= 1 /\ \A k \in 1 .. Len(d) : d[k] \in DOMAIN Digits
    OBVIOUS
<1>2. ASSUME NEW t \in Seq(S), t # <<>>, Len(t) = Len(d) + 1, \A k \in 1 .. Len(d) : t[1 + k] = d[k]
      PROVE  Tail(t) = d
    <2> DEFINE u == Tail(t)
    <2>1. u \in Seq(S) /\ Len(u) = Len(d) /\ \A k \in 1 .. Len(d) : u[k] = d[k]
        <3>1. u \in Seq(S) /\ Len(u) = Len(t) - 1 /\ \A k \in 1 .. Len(u) : u[k] = t[k + 1]
            BY <1>2
        <3> HIDE DEF u
        <3>2. Len(u) = Len(d)
            BY <1>1, <1>2, <3>1
        <3>3. \A k \in 1 .. Len(d) : k + 1 = 1 + k
            BY <1>1
        <3> QED
            BY <1>2, <3>1, <3>2, <3>3
    <2> QED
        BY <2>1, SeqEqual
<1>3. CASE m = <<>>
    <2>1. Len(m) = 0
        BY <1>3
    <2>2. Len(s) = Len(d) /\ \A k \in 1 .. Len(d) : s[k] = d[k]
        BY <1>1, <2>1
    <2>3. s = d
        BY <2>2, SeqEqual
    <2>4. AfterZero(d) = d
        <3>1. Len(d) >= 2 => 2 \in 1 .. Len(d)
            BY <1>1
        <3> QED
            BY <1>1, <3>1, DigitChars DEF AfterZero
    <2>5. d[1] \in DOMAIN Digits
        BY <1>1
    <2>6. Unsigned(d) = convertNumber(d, 16)
        BY <2>5, DigitChars DEF Unsigned, Marked
    <2> QED
        BY <1>3, <2>3, <2>4, <2>6, RadixFacts
<1>4. ASSUME NEW c, m = <<c>>
      PROVE  s # <<>> /\ s[1] = c /\ Tail(s) = d /\ Len(s) = Len(d) + 1
             /\ (Len(s) >= 2 => s[2] = d[1])
    <2>1. Len(m) = 1 /\ m[1] = c
        BY <1>4
    <2>2. s # <<>> /\ Len(s) = Len(d) + 1 /\ s[1] = c
        BY <1>1, <2>1
    <2>3. \A k \in 1 .. Len(d) : s[1 + k] = d[k]
        BY <2>1
    <2>4. Tail(s) = d
        BY <1>2, <2>2, <2>3
    <2>5. s[2] = d[1]
        <3>1. 1 \in 1 .. Len(d) /\ 1 + 1 = 2
            BY <1>1
        <3> QED
            BY <2>3, <3>1
    <2> QED
        BY <2>2, <2>4, <2>5
<1>5. CASE m = <<"x">>
    <2>1. s # <<>> /\ s[1] = "x" /\ Tail(s) = d
        BY <1>4, <1>5
    <2>2. Unsigned(s) = convertNumber(d, 16) /\ AfterZero(s) = s
        BY <2>1 DEF Unsigned, Marked, AfterZero
    <2> QED
        BY <1>5, <2>2, RadixFacts
<1>6. CASE m = <<"o">>
    <2>1. s # <<>> /\ s[1] = "o" /\ Tail(s) = d
        BY <1>4, <1>6
    <2>2. Unsigned(s) = convertNumber(d, 8) /\ AfterZero(s) = s
        BY <2>1 DEF Unsigned, Marked, AfterZero
    <2> QED
        BY <1>6, <2>2, RadixFacts
<1>7. CASE m = <<".">>
    <2>1. s # <<>> /\ s[1] = "." /\ Tail(s) = d /\ (Len(s) >= 2 => s[2] = d[1])
        BY <1>4, <1>7
    <2>2. d[1] # "b"
        <3>1. IsDigit(d[1], 10)
            BY <1>1, <1>7, RadixFacts
        <3> QED
            BY <3>1, DigitChars DEF IsDigit
    <2>3. Unsigned(s) = convertNumber(d, 10) /\ AfterZero(s) = s
        BY <2>1, <2>2 DEF Unsigned, Marked, AfterZero
    <2> QED
        BY <1>7, <2>3, RadixFacts
<1>8. ASSUME NEW b, NEW c, m = <<b, c>>
      PROVE  /\ s # <<>> /\ s[1] = b /\ s[2] = c /\ Len(s) = Len(d) + 2 /\ Len(s) >= 3
             /\ \A k \in 1 .. Len(d) : s[2 + k] = d[k]
    <2>1. Len(m) = 2 /\ m[1] = b /\ m[2] = c
        BY <1>8
    <2> QED
        BY <1>1, <2>1
<1>9. CASE m = <<"0", "x">>
    <2> DEFINE t == Tail(s)
    <2>1. /\ s # <<>> /\ s[1] = "0" /\ s[2] = "x" /\ Len(s) = Len(d) + 2 /\ Len(s) >= 3
          /\ \A k \in 1 .. Len(d) : s[2 + k] = d[k]
        BY <1>8, <1>9
    <2>2. t \in Seq(S) /\ Len(t) = Len(d) + 1 /\ \A k \in 1 .. Len(t) : t[k] = s[k + 1]
        BY <1>1, <2>1
    <2>3. AfterZero(s) = t
        BY <1>1, <2>1 DEF AfterZero
    <2> HIDE DEF t
    <2>4. t # <<>> /\ t[1] = "x"
        BY <1>1, <2>1, <2>2
    <2>5. \A k \in 1 .. Len(d) : t[1 + k] = d[k]
        <3> SUFFICES ASSUME NEW k \in 1 .. Len(d) PROVE t[1 + k] = d[k]
            OBVIOUS
        <3>1. 1 + k \in 1 .. Len(t) /\ (1 + k) + 1 = 2 + k
            BY <1>1, <2>2
        <3> QED
            BY <2>1, <2>2, <3>1
    <2>6. Tail(t) = d
        BY <1>2, <2>2, <2>4, <2>5
    <2>7. Unsigned(t) = convertNumber(d, 16)
        BY <2>4, <2>6 DEF Unsigned, Marked
    <2> QED
        BY <1>9, <2>3, <2>7, RadixFacts
<1>10. CASE m = <<".", "b">>
    <2>1. /\ s # <<>> /\ s[1] = "." /\ s[2] = "b" /\ Len(s) = Len(d) + 2 /\ Len(s) >= 3
          /\ \A k \in 1 .. Len(d) : s[2 + k] = d[k]
        BY <1>8, <1>10
    <2>2. SubSeq(s, 3, Len(s)) = d
        <3> DEFINE t == SubSeq(s, 3, Len(s))
        <3>1. t \in Seq(S) /\ Len(t) = Len(d) /\ \A k \in 1 .. Len(d) : t[k] = s[2 + k]
            BY <1>1, <2>1
        <3> HIDE DEF t
        <3>2. t = d
            BY <2>1, <3>1, SeqEqual
        <3> QED
            BY <3>2 DEF t
    <2>3. Unsigned(s) = convertNumber(d, 2) /\ AfterZero(s) = s
        <3>1. Len(s) >= 2
            BY <1>1, <2>1
        <3> QED
            BY <2>1, <2>2, <3>1 DEF Unsigned, Marked, AfterZero
    <2> QED
        BY <1>10, <2>3, RadixFacts
<1> QED
    BY <1>3, <1>5, <1>6, <1>7, <1>9, <1>10 DEF Markers

\* A token that is written as a number is read as that number, with its sign,
\* and as none if it does not fit.
LEMMA WrittenIsRead ==
    ASSUME NEW S, NEW token \in Seq(S), NEW f \in Written(token)
    PROVE  valfromstring(token) =
              IF Magnitude(token, f) >= QwordModulus THEN None
              ELSE Some(IF f.negative THEN Negate(Magnitude(token, f)) ELSE Magnitude(token, f))
<1> DEFINE n == Len(Lead(f))
           d == DigitsOf(token, f)
           m == f.marker
           M == Magnitude(token, f)
           s == IF f.negative THEN Tail(token) ELSE token
<1>1. /\ f.negative \in BOOLEAN /\ m \in Markers /\ m \in Seq(Chars)
      /\ n \in Nat /\ n < Len(token) /\ \A k \in 1 .. n : token[k] = Lead(f)[k]
    BY WrittenFacts, MarkersAreTexts
<1>2. /\ d \in Seq(DOMAIN Digits) /\ d \in Seq(S) /\ Len(d) = Len(token) - n /\ d # <<>>
      /\ \A k \in 1 .. Len(d) : d[k] = token[n + k] /\ IsDigit(d[k], Radix[m])
    BY WrittenFacts
<1>3. M = Number(d, Radix[m]) /\ M \in Nat /\ QwordModulus \in Nat
    BY MagnitudeIsNumber, NumbersAssumption
<1>4. Lead(f) = (IF f.negative THEN <<"-">> ELSE <<>>) \o m
    BY DEF Lead
<1>5. \A c \in Chars : <<c>> \in Seq(Chars)
    OBVIOUS
<1> HIDE DEF n, d, m, M
<1>6. /\ n = Len(m) + (IF f.negative THEN 1 ELSE 0)
      /\ f.negative => token[1] = "-" /\ \A k \in 1 .. Len(m) : token[1 + k] = m[k]
      /\ ~f.negative => \A k \in 1 .. Len(m) : token[k] = m[k]
    <2>1. CASE f.negative
        <3>1. Lead(f) = <<"-">> \o m /\ <<"-">> \in Seq(Chars)
            BY <1>4, <1>5, <2>1 DEF Chars
        <3>2. n = Len(m) + 1 /\ Lead(f)[1] = "-" /\ \A k \in 1 .. Len(m) : Lead(f)[1 + k] = m[k]
            BY <1>1, <3>1 DEF n
        <3>3. \A k \in 1 .. Len(m) : 1 + k \in 1 .. n
            BY <1>1, <3>2
        <3>4. 1 \in 1 .. n
            BY <1>1, <3>2
        <3> QED
            BY <1>1, <2>1, <3>2, <3>3, <3>4
    <2>2. CASE ~f.negative
        <3>1. Lead(f) = m
            BY <1>1, <1>4, <2>2
        <3> QED
            BY <1>1, <2>2, <3>1 DEF n
    <2> QED
        BY <2>1, <2>2
<1>7. token # <<>> /\ Len(token) \in Nat /\ Len(m) \in Nat /\ Len(d) \in Nat /\ Len(d) >= 1
    BY <1>1, <1>2
<1>8. f.negative <=> token[1] = "-"
    <2> SUFFICES ASSUME ~f.negative PROVE token[1] # "-"
        BY <1>6
    <2>1. CASE m = <<>>
        <3>1. n = 0 /\ 1 \in 1 .. Len(d)
            BY <1>6, <1>7, <2>1
        <3>2. token[1] = d[1] /\ IsDigit(d[1], Radix[m])
            BY <1>2, <3>1
        <3> QED
            BY <3>2, DigitChars DEF IsDigit
    <2>2. CASE m # <<>>
        <3>1. m[1] # "-" /\ 1 \in 1 .. Len(m)
            BY <1>1, <2>2 DEF Markers
        <3> QED
            BY <1>6, <3>1
    <2> QED
        BY <2>1, <2>2
<1>9. /\ s \in Seq(S) /\ Len(s) = Len(m) + Len(d) /\ \A k \in 1 .. Len(m) : s[k] = m[k]
      /\ \A k \in 1 .. Len(d) : s[Len(m) + k] = d[k]
    <2>1. CASE f.negative
        <3>1. s \in Seq(S) /\ Len(s) = Len(token) - 1 /\ \A k \in 1 .. Len(s) : s[k] = token[k + 1]
            BY <1>7, <2>1
        <3>2. Len(s) = Len(m) + Len(d)
            BY <1>2, <1>6, <1>7, <2>1, <3>1
        <3>3. ASSUME NEW k \in 1 .. Len(m) PROVE s[k] = m[k]
            <4>1. k \in 1 .. Len(s) /\ k + 1 = 1 + k
                BY <1>7, <3>2
            <4> QED
                BY <1>6, <2>1, <3>1, <4>1
        <3>4. ASSUME NEW k \in 1 .. Len(d) PROVE s[Len(m) + k] = d[k]
            <4>1. Len(m) + k \in 1 .. Len(s) /\ (Len(m) + k) + 1 = n + k
                BY <1>6, <1>7, <2>1, <3>2
            <4> QED
                BY <1>2, <3>1, <4>1
        <3> QED
            BY <3>1, <3>2, <3>3, <3>4
    <2>2. CASE ~f.negative
        BY <1>2, <1>6, <1>7, <2>2
    <2> QED
        BY <2>1, <2>2
<1>10. valfromstring(token) = LET r == Unsigned(AfterZero(s))
                              IN  IF r.ok /\ f.negative THEN Some(Negate(r.value)) ELSE r
    <2>1. (IF token[1] = "-" THEN Tail(token) ELSE token) = s
        BY <1>8
    <2> HIDE DEF s
    <2> QED
        BY <1>7, <1>8, <2>1 DEF valfromstring
<1> HIDE DEF s
<1>11. Unsigned(AfterZero(s)) = convertNumber(d, Radix[m])
    BY <1>1, <1>2, <1>9, MarkerIsRead
<1>12. convertNumber(d, Radix[m]) = IF M < QwordModulus THEN Some(M) ELSE None
    <2>1. Radix[m] \in Nat
        BY <1>1, RadixFacts
    <2> QED
        BY <1>2, <1>3, <2>1, ConvertDigits
<1>13. M >= QwordModulus <=> ~(M < QwordModulus)
    BY <1>3
<1>14. valfromstring(token) = IF M >= QwordModulus THEN None
                              ELSE Some(IF f.negative THEN Negate(M) ELSE M)
    <2>1. CASE M < QwordModulus
        <3>1. Unsigned(AfterZero(s)) = Some(M) /\ Some(M).ok /\ Some(M).value = M
            BY <1>11, <1>12, <2>1 DEF Some
        <3> QED
            BY <1>10, <1>13, <2>1, <3>1
    <2>2. CASE ~(M < QwordModulus)
        <3>1. Unsigned(AfterZero(s)) = None /\ ~None.ok
            BY <1>11, <1>12, <2>2 DEF None
        <3> QED
            BY <1>10, <1>13, <2>2, <3>1
    <2> QED
        BY <2>1, <2>2
<1> QED
    BY <1>14 DEF M

\* An operand with an immediate is one of a token that is a number, or to
\* which the callback answers.
LEMMA AnalyzedImmediate ==
    ASSUME NEW token, NEW op \in Analyzed(token), op.Type = "IMM"
    PROVE  \E r : /\ r.ok /\ op.imm = r.value
                  /\ IF valfromstring(token).ok THEN r = valfromstring(token) ELSE r \in Callbacks
<1>1. CASE IsRegister(token)
    <2>1. op.Type = "REG"
        <3>1. RegisterOf(token, op)
            BY <1>1, AnalyzedCases
        <3> QED
            BY <3>1 DEF RegisterOf, Blank
    <2> QED
        BY <2>1
<1>2. CASE ~IsRegister(token) /\ BracketsOf(token) # {}
    <2>1. op.Type = "MEM"
        <3>1. MemoryOf(token, op)
            BY <1>2, AnalyzedCases
        <3> QED
            BY <3>1 DEF MemoryOf, Blank
    <2> QED
        BY <2>1
<1>3. CASE ~IsRegister(token) /\ BracketsOf(token) = {} /\ Contains(token, ":")
    <2>1. op.Type = "SEGSEL"
        <3>1. SelectorOf(token, op)
            BY <1>3, AnalyzedCases
        <3> QED
            BY <3>1 DEF SelectorOf, Blank
    <2> QED
        BY <2>1
<1>4. CASE ~IsRegister(token) /\ BracketsOf(token) = {} /\ ~Contains(token, ":")
    <2>1. PICK r : /\ r.ok /\ op = [Blank EXCEPT !.imm = r.value]
                   /\ IF valfromstring(token).ok THEN r = valfromstring(token) ELSE r \in Callbacks
        <3>1. NumberOf(token, op)
            BY <1>4, AnalyzedCases
        <3> QED
            BY <3>1 DEF NumberOf
    <2>2. op.imm = r.value
        BY <2>1 DEF Blank
    <2> QED
        BY <2>1, <2>2
<1> QED
    BY <1>1, <1>2, <1>3, <1>4

\* An operand with a selector is one of a token that is a selector.
LEMMA AnalyzedSelector ==
    ASSUME NEW token, NEW op \in Analyzed(token), op.Type = "SEGSEL"
    PROVE  \E c \in Callbacks : SegSel(token, c).ok /\ op.Selector = SegSel(token, c).Selector
<1>1. CASE IsRegister(token)
    <2>1. op.Type = "REG"
        <3>1. RegisterOf(token, op)
            BY <1>1, AnalyzedCases
        <3> QED
            BY <3>1 DEF RegisterOf, Blank
    <2> QED
        BY <2>1
<1>2. CASE ~IsRegister(token) /\ BracketsOf(token) # {}
    <2>1. op.Type = "MEM"
        <3>1. MemoryOf(token, op)
            BY <1>2, AnalyzedCases
        <3> QED
            BY <3>1 DEF MemoryOf, Blank
    <2> QED
        BY <2>1
<1>3. CASE ~IsRegister(token) /\ BracketsOf(token) = {} /\ Contains(token, ":")
    <2>1. PICK c \in Callbacks : /\ SegSel(token, c).ok
                                 /\ op = [Blank EXCEPT !.Type = "SEGSEL", !.Selector = SegSel(token, c).Selector,
                                                       !.Offset = SegSel(token, c).Offset]
        <3>1. SelectorOf(token, op)
            BY <1>3, AnalyzedCases
        <3> QED
            BY <3>1 DEF SelectorOf
    <2> DEFINE selector == SegSel(token, c).Selector
               offset == SegSel(token, c).Offset
    <2> HIDE DEF selector, offset
    <2>2. op = [Blank EXCEPT !.Type = "SEGSEL", !.Selector = selector, !.Offset = offset]
        BY <2>1 DEF selector, offset
    <2>3. op.Selector = selector
        BY <2>2 DEF Blank
    <2> QED
        BY <2>1, <2>3 DEF selector
<1>4. CASE ~IsRegister(token) /\ BracketsOf(token) = {} /\ ~Contains(token, ":")
    <2>1. op.Type = "IMM"
        <3>1. NumberOf(token, op)
            BY <1>4, AnalyzedCases
        <3> QED
            BY <3>1 DEF NumberOf, Blank
    <2> QED
        BY <2>1
<1> QED
    BY <1>1, <1>2, <1>3, <1>4

\* The negative of a number modulo 2^64 is its complement.
LEMMA NegateMeans ==
    ASSUME NEW v \in 0 .. QwordModulus - 1
    PROVE  Negate(v) = (-v) % QwordModulus
<1>1. QwordModulus \in Nat \ {0}
    BY NumbersAssumption
<1> DEFINE q == QwordModulus
<1> HIDE DEF q
<1>2. ASSUME NEW u \in 1 .. q - 1, q \in Nat \ {0} PROVE (q - u) % q = q - u /\ (-u) % q = q - u
    BY <1>2
<1>3. ASSUME q \in Nat \ {0} PROVE (q - 0) % q = 0 /\ (-0) % q = 0
    BY <1>3
<1>4. v = 0 \/ v \in 1 .. q - 1
    BY DEF q
<1> QED
    BY <1>1, <1>2, <1>3, <1>4 DEF Negate, q

\* An operand is read from the token at its place.
LEMMA TokenRead ==
    ASSUME IInv, NEW k \in 1 .. Len(Operands)
    PROVE  tokens[k] \in Seq(Pieces) /\ Operands[k] \in Analyzed(tokens[k])
<1>1. tokens \in Seq(Seq(Pieces)) /\ Len(Operands) <= Len(tokens)
      /\ Len(Operands) \in Nat /\ Len(tokens) \in Nat
    BY DEF IInv, Typed, Counts
<1>2. k \in 1 .. Len(tokens)
    BY <1>1
<1> QED
    BY <1>1, <1>2, ElementOfSeq DEF IInv, OperandsRead

\* A number is read in the radix it is marked with, whatever its length
\* (valfromstring, Parser.cpp:5-76).
THEOREM NumbersMeant == Spec => []NumberMeans
<1>1. IInv => NumberMeans
    <2> SUFFICES ASSUME IInv, NEW k \in 1 .. Len(Operands), Operands[k].Type = "IMM",
                        NEW f \in Written(tokens[k])
                 PROVE  IF Magnitude(tokens[k], f) < QwordModulus
                        THEN IsValue(tokens[k], f, Operands[k].imm)
                        ELSE Operands[k].imm \in Answers
        BY DEF NumberMeans
    <2> DEFINE token == tokens[k]
               M == Magnitude(token, f)
               op == Operands[k]
    <2>1. token \in Seq(Pieces) /\ op \in Analyzed(token)
        BY TokenRead
    <2>2. M \in Nat /\ QwordModulus \in Nat
          /\ valfromstring(token) = IF M >= QwordModulus THEN None
                                    ELSE Some(IF f.negative THEN Negate(M) ELSE M)
        BY <2>1, WrittenIsRead, MagnitudeIsNumber, NumbersAssumption
    <2>3. op.Type = "IMM"
        OBVIOUS
    <2> HIDE DEF op, M, token
    <2>4. PICK r : r.ok /\ op.imm = r.value
                   /\ IF valfromstring(token).ok THEN r = valfromstring(token) ELSE r \in Callbacks
        BY <2>1, <2>3, AnalyzedImmediate
    <2>5. CASE M < QwordModulus
        <3>1. ~(M >= QwordModulus) /\ M \in 0 .. QwordModulus - 1
            BY <2>2, <2>5
        <3>2. r.value = IF f.negative THEN Negate(M) ELSE M
            BY <2>2, <2>4, <3>1 DEF Some
        <3>3. IsValue(token, f, op.imm)
            BY <2>4, <3>1, <3>2, NegateMeans DEF IsValue, M
        <3> QED
            BY <2>5, <3>3 DEF op, M, token
    <2>6. CASE ~(M < QwordModulus)
        <3>1. M >= QwordModulus
            BY <2>2, <2>6
        <3>2. r \in {None} \union {Some(v) : v \in Answers}
            BY <2>2, <2>4, <3>1 DEF None, Callbacks
        <3>3. op.imm \in Answers
            BY <2>4, <3>2 DEF None, Some
        <3> QED
            BY <2>6, <3>3 DEF op, M, token
    <2> QED
        BY <2>5, <2>6
<1> QED
    BY <1>1, ParserInvariant, PTL

\* A value whose absolute value of 64 bits is one of 16 bits is that, or the
\* negative of one, or the least number, which is its own absolute value.
LEMMA SmallSelector ==
    ASSUME NEW u \in 0 .. QwordModulus - 1, ~TooLargeSelector(u)
    PROVE  /\ u < WordModulus => u % WordModulus = u
           /\ ~(u < WordModulus) => \/ u > QwordModulus - WordModulus
                                    \/ u = QwordModulus \div 2
<1> DEFINE q == QwordModulus
           w == WordModulus
           h == QwordModulus \div 2
<1>1. q \in Nat /\ w \in Nat /\ 1 < w /\ w < q /\ q % 2 = 0
    BY NumbersAssumption
<1>2. Signed64(u) = IF u >= h THEN u - q ELSE u
    BY DEF Signed64
<1>3. Signed64(u) # -h => ~(Signed64(u) >= w \/ -Signed64(u) >= w)
    BY DEF TooLargeSelector
<1>4. h \in Nat /\ 2 * h = q
    BY <1>1
<1> HIDE DEF q, w, h
<1>5. u \in Nat /\ u < q
    BY <1>1 DEF q
<1>6. u < w => u % w = u
    BY <1>1, <1>5
<1>7. ASSUME ~(u < w) PROVE u > q - w \/ u = h
    <2>1. CASE u < h
        BY <1>1, <1>2, <1>3, <1>4, <1>5, <1>7, <2>1
    <2>2. CASE u >= h /\ u # h
        BY <1>1, <1>2, <1>3, <1>4, <1>5, <2>2
    <2> QED
        BY <1>4, <1>5, <2>1, <2>2
<1> QED
    BY <1>6, <1>7 DEF q, w, h

\* A selector from 0 to 0xFFFF is kept as it is, in a text of any length, and
\* what is accepted beside these is a number from -0xFFFF to -1 or the least
\* number of 64 bits, cut to 16 bits (OperandSegSel.cpp:16-27).
THEOREM SelectorsMeant == Spec => []SelectorMeans
<1>1. IInv => SelectorMeans
    <2> SUFFICES ASSUME IInv, NEW k \in 1 .. Len(Operands), Operands[k].Type = "SEGSEL",
                        NEW f \in Written(SelectorText(tokens[k]))
                 PROVE  \E v \in 0 .. QwordModulus - 1 :
                            /\ IsValue(SelectorText(tokens[k]), f, v)
                            /\ IF v < WordModulus THEN Operands[k].Selector = v
                               ELSE /\ \/ v > QwordModulus - WordModulus
                                       \/ v = QwordModulus \div 2
                                    /\ Operands[k].Selector = v % WordModulus
        BY DEF SelectorMeans
    <2> DEFINE token == tokens[k]
               text == SelectorText(token)
               M == Magnitude(text, f)
               op == Operands[k]
    <2>1. token \in Seq(Pieces) /\ op \in Analyzed(token)
        BY TokenRead
    <2>2. op.Type = "SEGSEL"
        OBVIOUS
    <2> HIDE DEF op, token
    <2>3. text \in Seq(Pieces) /\ f \in Written(text)
        BY <2>1, SelectorParts DEF token
    <2> HIDE DEF text
    <2>4. M \in Nat /\ QwordModulus \in Nat
          /\ valfromstring(text) = IF M >= QwordModulus THEN None
                                   ELSE Some(IF f.negative THEN Negate(M) ELSE M)
        BY <2>3, WrittenIsRead, MagnitudeIsNumber, NumbersAssumption
    <2> HIDE DEF M
    <2>5. PICK c \in Callbacks : SegSel(token, c).ok /\ op.Selector = SegSel(token, c).Selector
        BY <2>1, <2>2, AnalyzedSelector
    <2> DEFINE u == valfromstring(text).value
    <2>6. /\ valfromstring(text).ok /\ ~TooLargeSelector(u)
          /\ op.Selector = u % WordModulus
        BY <2>5 DEF SegSel, text
    <2>7. M < QwordModulus /\ M \in 0 .. QwordModulus - 1
        BY <2>4, <2>6 DEF None
    <2>8. u = IF f.negative THEN Negate(M) ELSE M
        BY <2>4, <2>7 DEF Some
    <2> HIDE DEF u
    <2>9. IsValue(text, f, u)
        BY <2>7, <2>8, NegateMeans DEF IsValue, M
    <2>10. u \in 0 .. QwordModulus - 1
        <3>1. QwordModulus \in Nat /\ 0 < QwordModulus
            BY NumbersAssumption
        <3> QED
            BY <2>7, <2>8, <3>1 DEF Negate
    <2>11. IF u < WordModulus THEN op.Selector = u
           ELSE /\ u > QwordModulus - WordModulus \/ u = QwordModulus \div 2
                /\ op.Selector = u % WordModulus
        BY <2>6, <2>10, SmallSelector
    <2> QED
        BY <2>9, <2>10, <2>11 DEF text, token, op
<1> QED
    BY <1>1, ParserInvariant, PTL
=============================================================================
