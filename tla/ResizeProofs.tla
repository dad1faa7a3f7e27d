---------------------------- MODULE ResizeProofs ----------------------------
(***************************************************************************)
(* For any widths of the machine, any rows of forms and any values: the    *)
(* scans of Validator.cpp answer exactly what their row says, in whatever  *)
(* order its forms stand.                                                  *)
(***************************************************************************)
EXTENDS Resize, SequenceFacts

Loops == ImmJobs \union MemJobs

-----------------------------------------------------------------------------
(* Widths and sizes.                                                       *)

\* What a width is.
LEMMA WidthFacts ==
    /\ ImmWidths \subseteq Widths
    /\ Widths \subseteq Nat
    /\ \A w \in Widths : w <= 1024
BY DEF ImmWidths, Widths

\* A size has up to 512 bits, that of an immediate 8 to 64.
LEMMA OpsizeBits ==
    ASSUME NEW s
    PROVE  /\ OpsizeToBits(s) \in 0 .. 512
           /\ s \in ImmSizes => OpsizeToBits(s) \in {8, 16, 32, 64}
BY DEF OpsizeToBits, ImmSizes

\* Converting a width to a size and back gives it back, unless no size has it.
LEMMA RoundTrip ==
    ASSUME NEW w \in Widths
    PROVE  /\ OpsizeFromBits(w) \in Sizes
           /\ OpsizeFromBits(w) # "UNSET" => OpsizeToBits(OpsizeFromBits(w)) = w
           /\ w \in {8, 16, 32, 64} => OpsizeFromBits(w) # "UNSET"
<1>1. PICK n \in 0 .. 128 : w = 8 * n
  BY DEF Widths
<1>2. OpsizeFromBits(w) = OpsizeFromInt(n)
  <2>1. w \div 8 = n
    BY <1>1
  <2> QED
    BY <2>1 DEF OpsizeFromBits
<1>3. /\ OpsizeFromInt(n) \in Sizes
      /\ OpsizeFromInt(n) # "UNSET" => OpsizeToBits(OpsizeFromInt(n)) = 8 * n
      /\ n \in {1, 2, 4, 8} => OpsizeFromInt(n) # "UNSET"
  <2>1. CASE n \in {1, 2, 4}
    <3>1. OpsizeFromInt(1) = "BYTE" /\ OpsizeFromInt(2) = "WORD" /\ OpsizeFromInt(4) = "DWORD"
      BY DEF OpsizeFromInt
    <3>2. OpsizeToBits("BYTE") = 8 /\ OpsizeToBits("WORD") = 16 /\ OpsizeToBits("DWORD") = 32
      BY DEF OpsizeToBits
    <3> QED
      BY <2>1, <3>1, <3>2 DEF Sizes
  <2>2. CASE n \in {6, 8, 10}
    <3>1. OpsizeFromInt(6) = "FWORD" /\ OpsizeFromInt(8) = "QWORD" /\ OpsizeFromInt(10) = "TBYTE"
      BY DEF OpsizeFromInt
    <3>2. OpsizeToBits("FWORD") = 48 /\ OpsizeToBits("QWORD") = 64 /\ OpsizeToBits("TBYTE") = 80
      BY DEF OpsizeToBits
    <3> QED
      BY <2>2, <3>1, <3>2 DEF Sizes
  <2>3. CASE n \in {16, 32, 64}
    <3>1. /\ OpsizeFromInt(16) = "XMMWORD" /\ OpsizeFromInt(32) = "YMMWORD"
          /\ OpsizeFromInt(64) = "ZMMWORD"
      BY DEF OpsizeFromInt
    <3>2. /\ OpsizeToBits("XMMWORD") = 128 /\ OpsizeToBits("YMMWORD") = 256
          /\ OpsizeToBits("ZMMWORD") = 512
      BY DEF OpsizeToBits
    <3> QED
      BY <2>3, <3>1, <3>2 DEF Sizes
  <2>4. CASE n \notin {1, 2, 4, 6, 8, 10, 16, 32, 64}
    <3>1. OpsizeFromInt(n) = "UNSET"
      BY <2>4 DEF OpsizeFromInt
    <3> QED
      BY <2>4, <3>1 DEF Sizes
  <2> QED
    BY <2>1, <2>2, <2>3, <2>4
<1> QED
  BY <1>1, <1>2, <1>3

\* The bits of memory that has been resized are those it was resized to.
LEMMA WithWidthBits ==
    ASSUME NEW op \in Operand, NEW w \in Widths
    PROVE  WithWidth(op, w) \in Operand /\ bitsize(WithWidth(op, w)) = w
<1>1. OpsizeFromBits(w) \in Sizes /\ w \in Nat
  BY RoundTrip, WidthFacts
<1>2. /\ WithWidth(op, w).Size = OpsizeFromBits(w)
      /\ WithWidth(op, w).BitSize = w
  BY DEF WithWidth, Operand
<1>3. WithWidth(op, w) \in Operand
  BY <1>1 DEF WithWidth, Operand
<1> QED
  BY <1>2, <1>3, RoundTrip DEF bitsize

\* So are those of an immediate.
LEMMA WithImmediateBits ==
    ASSUME NEW op \in Operand, NEW w \in {8, 16, 32, 64}
    PROVE  WithImmediate(op, w) \in Operand /\ bitsize(WithImmediate(op, w)) = w
<1>1. w \in Widths
  BY WidthFacts DEF ImmWidths
<1>2. OpsizeFromBits(w) \in Sizes
  BY <1>1, RoundTrip
<1>3. WithImmediate(op, w).Size = OpsizeFromBits(w)
  BY DEF WithImmediate, Operand
<1>4. WithImmediate(op, w) \in Operand
  BY <1>2 DEF WithImmediate, Operand
<1> QED
  BY <1>1, <1>3, <1>4, RoundTrip DEF bitsize

\* The adjustment of an immediate keeps or widens it, up to the widest form.
LEMMA AdjustmentBounded ==
    ASSUME NEW op, NEW fixed \in {8, 16, 32, 64}, NEW largest \in ImmWidths
    PROVE  LET bits == ResizeOperandImmediate(op, fixed, largest)
           IN  /\ bits \in {8, 16, 32, 64} /\ fixed <= bits
               /\ bits <= largest \/ bits = fixed
<1> DEFINE size == OpsizeFromBits(fixed)
           promoted == OpsizeToBits(PromoteImmediateWidth(op.Signed, op.imm, size))
<1>1. OpsizeToBits(size) = fixed /\ size \in ImmSizes
  <2>1. OpsizeFromBits(8) = "BYTE" /\ OpsizeFromBits(16) = "WORD"
        /\ OpsizeFromBits(32) = "DWORD" /\ OpsizeFromBits(64) = "QWORD"
    BY DEF OpsizeFromBits, OpsizeFromInt
  <2> QED
    BY <2>1 DEF OpsizeToBits, ImmSizes
<1>2. promoted \in {8, 16, 32, 64} /\ fixed <= promoted
  <2> HIDE DEF size
  <2> QED
    BY <1>1 DEF PromoteImmediateWidth, OpsizeToBits, ImmSizes
<1> HIDE DEF promoted, size
<1>3. ResizeOperandImmediate(op, fixed, largest)
         = IF Class = "branch" \/ fixed >= largest THEN fixed ELSE MinOf(promoted, largest)
  BY DEF ResizeOperandImmediate, promoted, size
<1> QED
  BY <1>2, <1>3 DEF MinOf, ImmWidths

-----------------------------------------------------------------------------
(* Bits of a number.                                                       *)

P(n) == Power(2, n)

\* The powers of two: each is twice the one before it.
LEMMA PowersOfTwo ==
    ASSUME NEW n \in Nat
    PROVE  P(n) \in Nat \ {0} /\ P(n + 1) = 2 * P(n)
<1> DEFINE T == {k \in Nat : P(k) > 0}
<1>1. P(0) = 1 /\ \A k \in Nat : P(k) \in Nat /\ P(k + 1) = 2 * P(k)
  BY PowerFacts DEF P
<1>2. 0 \in T /\ T \subseteq Nat
  BY <1>1
<1>3. ASSUME NEW k \in T PROVE k + 1 \in T
  BY <1>1
<1>4. T = Nat
  <2> HIDE DEF T
  <2> QED
    BY <1>2, <1>3, SetInduction
<1>5. P(n) > 0
  BY <1>4
<1> QED
  BY <1>1, <1>5

\* A narrower width divides a wider one.
LEMMA PowerDivides ==
    ASSUME NEW m \in Nat, NEW n \in Nat, m <= n
    PROVE  P(m) <= P(n) /\ \E k \in Nat \ {0} : P(n) = k * P(m)
<1> DEFINE T == {d \in Nat : \E k \in Nat \ {0} : P(m + d) = k * P(m)}
<1>1. 0 \in T /\ T \subseteq Nat
  <2>1. m + 0 = m /\ P(m) = 1 * P(m) /\ 1 \in Nat \ {0}
    BY PowersOfTwo
  <2> QED
    BY <2>1
<1>2. ASSUME NEW d \in T PROVE d + 1 \in T
  <2>1. PICK k \in Nat \ {0} : P(m + d) = k * P(m)
    OBVIOUS
  <2>2. m + d \in Nat /\ m + (d + 1) = (m + d) + 1
    OBVIOUS
  <2>3. P(m + (d + 1)) = 2 * (k * P(m)) /\ P(m) \in Nat
    BY <2>1, <2>2, PowersOfTwo
  <2>4. 2 * k \in Nat \ {0} /\ 2 * (k * P(m)) = (2 * k) * P(m)
    BY <2>3
  <2> QED
    BY <2>3, <2>4
<1>3. T = Nat
  <2> HIDE DEF T
  <2> QED
    BY <1>1, <1>2, SetInduction
<1>4. n - m \in T /\ m + (n - m) = n /\ n - m \in Nat
  <2>1. n - m \in Nat /\ m + (n - m) = n
    OBVIOUS
  <2> HIDE DEF T
  <2> QED
    BY <1>3, <2>1
<1>5. PICK k \in Nat \ {0} : P(n) = k * P(m)
  BY <1>4
<1>6. P(m) \in Nat \ {0} /\ P(n) \in Nat \ {0}
  BY PowersOfTwo
<1>7. 1 * P(m) <= k * P(m)
  BY <1>5, <1>6
<1> QED
  BY <1>5, <1>6, <1>7

\* The number below bit n + 1: bit n, and the number below it.
LEMMA BitBelow ==
    ASSUME NEW v \in Nat, NEW n \in Nat
    PROVE  /\ Bit(v, n) \in {0, 1}
           /\ v % P(n) \in 0 .. P(n) - 1
           /\ v % P(n + 1) = (v % P(n)) + Bit(v, n) * P(n)
<1> DEFINE p == P(n)
           q == v \div p
           s == v % p
           b == q % 2
           t == q \div 2
<1>1. p \in Nat \ {0} /\ P(n + 1) = 2 * p
  BY PowersOfTwo
<1> HIDE DEF p
<1>2. q \in Int /\ s \in 0 .. p - 1 /\ v = p * q + s
  BY <1>1
<1> HIDE DEF q
<1>3. t \in Int /\ b \in {0, 1} /\ q = 2 * t + b
  BY <1>2
<1>4. Bit(v, n) = b
  BY DEF Bit, q, p, P
<1> HIDE DEF s, b, t
<1>5. v = (2 * p) * t + (s + b * p)
  <2>1. p * (2 * t + b) = (2 * p) * t + b * p
    BY <1>1, <1>3
  <2>2. (2 * p) * t \in Int /\ b * p \in Int /\ s \in Int
    BY <1>1, <1>2, <1>3
  <2> QED
    BY <1>2, <1>3, <2>1, <2>2
<1>6. s + b * p \in 0 .. 2 * p - 1
  <2>1. CASE b = 0
    <3>1. b * p = 0
      BY <1>1, <2>1
    <3> QED
      BY <1>1, <1>2, <3>1
  <2>2. CASE b = 1
    <3>1. b * p = p
      BY <1>1, <2>2
    <3> QED
      BY <1>1, <1>2, <3>1
  <2> QED
    BY <1>3, <2>1, <2>2
<1>7. v % (2 * p) = s + b * p
  <2>1. 2 * p \in Nat \ {0}
    BY <1>1
  <2> QED
    BY <1>3, <1>5, <1>6, <2>1, OneRemainder
<1> QED
  BY <1>1, <1>2, <1>3, <1>4, <1>7 DEF p, s

\* Zeros from m up to n add nothing.
LEMMA ZerosAbove ==
    ASSUME NEW v \in Nat, NEW m \in Nat, NEW n \in Nat, m <= n,
           \A k \in m .. n - 1 : Bit(v, k) = 0
    PROVE  v % P(n) = v % P(m)
<1> DEFINE T == {d \in Nat : m + d <= n => v % P(m + d) = v % P(m)}
<1>1. 0 \in T /\ T \subseteq Nat
  <2>1. m + 0 = m
    OBVIOUS
  <2> QED
    BY <2>1
<1>2. ASSUME NEW d \in T PROVE d + 1 \in T
  <2>1. CASE m + (d + 1) <= n
    <3>1. m + d \in Nat /\ m + d \in m .. n - 1 /\ m + (d + 1) = (m + d) + 1 /\ m + d <= n
      BY <2>1
    <3>2. /\ v % P(m + (d + 1)) = (v % P(m + d)) + 0 * P(m + d) /\ v % P(m + d) \in Int
          /\ P(m + d) \in Nat
      BY <3>1, BitBelow, PowersOfTwo
    <3>3. v % P(m + (d + 1)) = v % P(m)
      BY <3>1, <3>2
    <3> QED
      BY <3>3
  <2> QED
    BY <2>1
<1>3. T = Nat
  <2> HIDE DEF T
  <2> QED
    BY <1>1, <1>2, SetInduction
<1>4. n - m \in T /\ m + (n - m) = n /\ n - m \in Nat
  <2>1. n - m \in Nat /\ m + (n - m) = n
    OBVIOUS
  <2> HIDE DEF T
  <2> QED
    BY <1>3, <2>1
<1> QED
  BY <1>4

\* Ones from m up to n make the number below n as large as they can.
LEMMA OnesAbove ==
    ASSUME NEW v \in Nat, NEW m \in Nat, NEW n \in Nat, m <= n,
           \A k \in m .. n - 1 : Bit(v, k) = 1
    PROVE  v % P(n) = (v % P(m)) + P(n) - P(m)
<1> DEFINE T == {d \in Nat : m + d <= n => v % P(m + d) = (v % P(m)) + P(m + d) - P(m)}
<1>0. P(m) \in Nat /\ v % P(m) \in Int
  BY PowersOfTwo, BitBelow
<1>1. 0 \in T /\ T \subseteq Nat
  <2>1. m + 0 = m /\ v % P(m) = (v % P(m)) + P(m) - P(m)
    BY <1>0
  <2> QED
    BY <2>1
<1>2. ASSUME NEW d \in T PROVE d + 1 \in T
  <2>1. CASE m + (d + 1) <= n
    <3>1. m + d \in Nat /\ m + d \in m .. n - 1 /\ m + (d + 1) = (m + d) + 1 /\ m + d <= n
      BY <2>1
    <3>2. /\ v % P(m + (d + 1)) = (v % P(m + d)) + 1 * P(m + d) /\ v % P(m + d) \in Int
          /\ P(m + d) \in Nat /\ P(m + (d + 1)) = 2 * P(m + d)
      BY <3>1, BitBelow, PowersOfTwo
    <3>3. v % P(m + d) = (v % P(m)) + P(m + d) - P(m)
      BY <3>1
    <3>4. v % P(m + (d + 1)) = (v % P(m)) + P(m + (d + 1)) - P(m)
      BY <1>0, <3>2, <3>3
    <3> QED
      BY <3>4
  <2> QED
    BY <2>1
<1>3. T = Nat
  <2> HIDE DEF T
  <2> QED
    BY <1>1, <1>2, SetInduction
<1>4. n - m \in T /\ m + (n - m) = n /\ n - m \in Nat
  <2>1. n - m \in Nat /\ m + (n - m) = n
    OBVIOUS
  <2> HIDE DEF T
  <2> QED
    BY <1>3, <2>1
<1> QED
  BY <1>4

\* The greatest of a set of places.
LEMMA GreatestPlace ==
    ASSUME NEW n \in Nat, NEW S, S \subseteq 1 .. n, S # {}
    PROVE  LET g == CHOOSE k \in S : \A m \in S : m <= k
           IN  g \in S /\ \A m \in S : m <= g
<1>1. Max(S) \in S /\ \A m \in S : Max(S) >= m
  BY GreatestUpTo
<1>2. \A k, m \in S : k >= m <=> m <= k
  OBVIOUS
<1>3. \E k \in S : \A m \in S : m <= k
  BY <1>1, <1>2
<1> QED
  BY <1>3

\* Above setBitStart a number has no bits.
LEMMA HighestBit ==
    ASSUME NEW v \in Unsigned64
    PROVE  /\ setBitStart(v) \in 0 .. QwordBits - 1
           /\ \A n \in setBitStart(v) + 1 .. QwordBits - 1 : Bit(v, n) = 0
           /\ v % P(QwordBits) = v /\ v \in Nat /\ v < P(setBitStart(v) + 1)
<1> DEFINE set == {n \in 1 .. QwordBits - 1 : Bit(v, n) = 1}
           h == setBitStart(v)
<1>1. /\ QwordBits \in Nat \ {0} /\ QwordBits - 1 \in Nat
      /\ P(QwordBits) \in Nat \ {0} /\ v \in 0 .. P(QwordBits) - 1
  BY ResizeAssumption, PowersOfTwo DEF Unsigned64, P
<1>2. h = IF set = {} THEN 0 ELSE CHOOSE n \in set : \A m \in set : m <= n
  BY DEF setBitStart
<1>3. h \in 0 .. QwordBits - 1 /\ \A n \in set : n <= h
  <2>1. set \subseteq 1 .. QwordBits - 1
    OBVIOUS
  <2> HIDE DEF set, h
  <2>2. CASE set = {}
    BY <1>1, <1>2, <2>2
  <2>3. CASE set # {}
    <3> DEFINE g == CHOOSE k \in set : \A m \in set : m <= k
    <3>1. g \in set /\ \A m \in set : m <= g
      BY <1>1, <2>1, <2>3, GreatestPlace
    <3>2. h = g
      BY <1>2, <2>3
    <3> HIDE DEF g
    <3> QED
      BY <1>1, <2>1, <3>1, <3>2
  <2> QED
    BY <2>2, <2>3
<1>4. ASSUME NEW n \in h + 1 .. QwordBits - 1 PROVE Bit(v, n) = 0
  <2> HIDE DEF h
  <2>1. n \in 1 .. QwordBits - 1 /\ n \in Nat /\ ~(n <= h)
    BY <1>1, <1>3
  <2>2. n \notin set
    BY <1>3, <2>1
  <2> QED
    BY <1>1, <2>1, <2>2, BitBelow
<1>5. v % P(QwordBits) = v /\ v \in Nat
  BY <1>1
<1>6. v % P(QwordBits) = v % P(h + 1)
  <2> HIDE DEF h
  <2>1. h + 1 \in Nat /\ QwordBits \in Nat /\ h + 1 <= QwordBits
    BY <1>1, <1>3
  <2> QED
    BY <1>4, <1>5, <2>1, ZerosAbove
<1>7. v < P(h + 1)
  <2> HIDE DEF h
  <2>1. h + 1 \in Nat
    BY <1>1, <1>3
  <2>2. v % P(h + 1) \in 0 .. P(h + 1) - 1 /\ P(h + 1) \in Nat
    BY <1>5, <2>1, BitBelow, PowersOfTwo
  <2> QED
    BY <1>5, <1>6, <2>2
<1> QED
  BY <1>3, <1>4, <1>5, <1>7

\* The place of the last one is a number.
LEMMA LastOneNat ==
    ASSUME NEW v \in Unsigned64
    PROVE  lastOne(v) \in Nat
<1> DEFINE h == setBitStart(v)
           zeros == {k \in 1 .. h : Bit(v, k) = 0}
<1>1. h \in Nat
  BY HighestBit, ResizeAssumption
<1>2. lastOne(v) = IF zeros = {} THEN 0 ELSE (CHOOSE k \in zeros : \A m \in zeros : m <= k) + 1
  BY DEF lastOne
<1>3. zeros \subseteq 1 .. h
  OBVIOUS
<1> HIDE DEF zeros, h
<1>4. CASE zeros # {}
  <2> DEFINE g == CHOOSE k \in zeros : \A m \in zeros : m <= k
  <2>1. g \in zeros /\ lastOne(v) = g + 1
    BY <1>1, <1>2, <1>3, <1>4, GreatestPlace
  <2> HIDE DEF g
  <2> QED
    BY <1>1, <1>3, <2>1
<1> QED
  BY <1>2, <1>4

\* From lastOne to setBitStart there are ones.
LEMMA OnesDown ==
    ASSUME NEW v \in Unsigned64, NEW n \in 1 .. setBitStart(v), n >= lastOne(v)
    PROVE  Bit(v, n) = 1
<1> DEFINE h == setBitStart(v)
           zeros == {k \in 1 .. h : Bit(v, k) = 0}
<1>1. h \in Nat /\ n \in Nat /\ v \in Nat /\ n \in 1 .. h
  BY HighestBit, ResizeAssumption
<1>2. lastOne(v) = IF zeros = {} THEN 0 ELSE (CHOOSE k \in zeros : \A m \in zeros : m <= k) + 1
  BY DEF lastOne
<1>3. zeros \subseteq 1 .. h
  OBVIOUS
<1>4. n \notin zeros
  <2> HIDE DEF zeros, h
  <2>1. CASE zeros = {}
    BY <1>2, <2>1
  <2>2. CASE zeros # {}
    <3> DEFINE g == CHOOSE k \in zeros : \A m \in zeros : m <= k
    <3>1. g \in zeros /\ (\A m \in zeros : m <= g) /\ lastOne(v) = g + 1
      BY <1>1, <1>2, <1>3, <2>2, GreatestPlace
    <3> HIDE DEF g
    <3>2. g \in Nat /\ n >= g + 1
      BY <1>1, <1>3, <3>1
    <3> QED
      BY <1>1, <3>1, <3>2
  <2> QED
    BY <2>1, <2>2
<1>5. Bit(v, n) # 0
  BY <1>1, <1>4
<1> QED
  BY <1>1, <1>4, <1>5, BitBelow


-----------------------------------------------------------------------------
(* What a width keeps of a value.                                          *)

\* The width of the machine for these bits.
Places(bits) == CASE bits = 8 -> ByteBits [] bits = 16 -> WordBits
                  [] bits = 32 -> DwordBits [] OTHER -> QwordBits

\* The widths grow, and there is a number for each.
LEMMA PlacesGrow ==
    ASSUME NEW bits
    PROVE  /\ Places(bits) \in Nat /\ Places(bits) > 1 /\ Places(bits) - 1 \in Nat
           /\ Modulus(bits) = P(Places(bits)) /\ Modulus(bits) \in Nat \ {0}
           /\ bits \in {8, 16, 32} => Places(bits) <= DwordBits
           /\ DwordBits < QwordBits /\ Places(64) = QwordBits /\ Places(32) = DwordBits
           /\ Places(8) = ByteBits
<1>1. Places(bits) \in Nat /\ Places(bits) > 1
  BY ResizeAssumption DEF Places
<1>2. Places(64) = QwordBits /\ Places(32) = DwordBits /\ Places(8) = ByteBits
  BY DEF Places
<1>3. bits \in {8, 16, 32} => Places(bits) <= DwordBits
  BY ResizeAssumption DEF Places
<1>4. Modulus(bits) = P(Places(bits))
  BY DEF Modulus, Places, P
<1>5. P(Places(bits)) \in Nat \ {0}
  BY <1>1, PowersOfTwo
<1> QED
  BY <1>1, <1>2, <1>3, <1>4, <1>5, ResizeAssumption

\* A multiple leaves nothing.
LEMMA MultipleLeavesNothing ==
    ASSUME NEW m \in Nat \ {0}, NEW q \in Int, NEW a \in Int, a = m * q
    PROVE  a % m = 0
<1>1. 0 \in 0 .. m - 1 /\ a = m * q + 0
  OBVIOUS
<1> QED
  BY <1>1, OneRemainder

\* A number is the value it is.
LEMMA SameAsItself ==
    ASSUME NEW v \in Int
    PROVE  SameValue(v, v)
<1>1. v - v = Modulus(IF x64 THEN 64 ELSE 32) * 0 /\ v - v \in Int
  BY PlacesGrow
<1> QED
  BY <1>1, PlacesGrow, MultipleLeavesNothing DEF SameValue

\* A size that fits has room for the bit it was chosen for.
LEMMA RoomForBit ==
    ASSUME NEW n \in Nat, NEW bits \in {8, 16, 32}, OpsizeToBits(SizeOfBit(n)) <= bits
    PROVE  n < Places(bits)
BY ResizeAssumption DEF SizeOfBit, OpsizeToBits, Places

\* A number below the width is all there.
LEMMA AllThere ==
    ASSUME NEW v \in Nat, NEW bits, v < Modulus(bits)
    PROVE  v % Modulus(bits) = v
<1>1. v \in 0 .. Modulus(bits) - 1 /\ v = Modulus(bits) * 0 + v
  BY PlacesGrow
<1> QED
  BY <1>1, PlacesGrow, OneRemainder

\* The sign bit of the mode is the last of its bits.
ModeBits == IF x64 THEN 64 ELSE 32

\* What OpsizeFromValue chooses, and what is wider, holds the value: with its
\* sign if the bit of the mode says so, without one otherwise.
LEMMA SizeHoldsValue ==
    ASSUME NEW v \in Unsigned64, NEW bits \in {8, 16, 32, 64},
           OpsizeToBits(OpsizeFromValue(x64, v)) <= bits
    PROVE  SameValue(v, SignExtended(v, bits)) \/ SameValue(v, v % Modulus(bits))
<1> DEFINE m == Places(ModeBits)
           w == Places(bits)
<1>1. /\ v \in Nat /\ v < Modulus(64) /\ setBitStart(v) \in 0 .. QwordBits - 1
      /\ v < P(setBitStart(v) + 1) /\ v % P(QwordBits) = v
      /\ \A n \in setBitStart(v) + 1 .. QwordBits - 1 : Bit(v, n) = 0
  <2>1. Modulus(64) = P(QwordBits) /\ P(QwordBits) \in Nat
    BY PlacesGrow
  <2> QED
    BY <2>1, HighestBit DEF Unsigned64, P
<1>2. CASE bits = 64
  BY <1>1, <1>2, AllThere, SameAsItself
<1>3. CASE bits \in {8, 16, 32}
  <2>1. /\ w \in Nat /\ w > 1 /\ w - 1 \in Nat /\ m \in Nat /\ m > 1 /\ w <= m
        /\ m <= QwordBits /\ QwordBits \in Nat /\ signBit(x64) = m - 1
        /\ Modulus(bits) = P(w) /\ Modulus(ModeBits) = P(m)
        /\ P(w) \in Nat \ {0} /\ P(m) \in Nat \ {0}
    <3>1. /\ w \in Nat /\ w > 1 /\ w - 1 \in Nat /\ w <= DwordBits
          /\ Modulus(bits) = P(w) /\ P(w) \in Nat \ {0}
      BY <1>3, PlacesGrow
    <3>2. m = IF x64 THEN QwordBits ELSE DwordBits
      BY PlacesGrow DEF ModeBits
    <3>3. /\ m \in Nat /\ m > 1 /\ Modulus(ModeBits) = P(m) /\ P(m) \in Nat \ {0}
      BY PlacesGrow
    <3>4. signBit(x64) = m - 1
      BY <3>2 DEF signBit
    <3> HIDE DEF m, w
    <3> QED
      BY <3>1, <3>2, <3>3, <3>4, ResizeAssumption
  <2> HIDE DEF m, w
  <2>2. CASE Bit(v, m - 1) # 1
    <3>1. OpsizeFromValue(x64, v) = SizeOfBit(setBitStart(v))
      BY <2>1, <2>2 DEF OpsizeFromValue
    <3>2. setBitStart(v) \in Nat /\ setBitStart(v) + 1 <= w
      <4>1. setBitStart(v) \in Nat
        BY <1>1, <2>1
      <4>2. setBitStart(v) < w
        BY <1>3, <3>1, <4>1, RoomForBit DEF w
      <4> QED
        BY ONLY <2>1, <4>1, <4>2
    <3>3. v < P(w)
      <4>1. P(setBitStart(v) + 1) <= P(w) /\ P(setBitStart(v) + 1) \in Nat
        BY <2>1, <3>2, PowerDivides, PowersOfTwo
      <4> QED
        BY <1>1, <2>1, <4>1
    <3> QED
      BY <1>1, <2>1, <3>3, AllThere, SameAsItself
  <2>3. CASE Bit(v, m - 1) = 1
    <3>1. OpsizeFromValue(x64, v) = SizeOfBit(lastOne(v))
      BY <2>1, <2>3 DEF OpsizeFromValue
    <3>2. m - 1 <= setBitStart(v) /\ m - 1 \in 1 .. setBitStart(v)
      <4>1. m - 1 \notin setBitStart(v) + 1 .. QwordBits - 1
        BY <1>1, <2>3
      <4> QED
        BY <1>1, <2>1, <4>1
    <3>3. lastOne(v) \in Nat
      BY LastOneNat
    <3>4. lastOne(v) <= w - 1
      BY <1>3, <2>1, <3>1, <3>3, RoomForBit DEF w
    <3>5. \A k \in w - 1 .. m - 1 : Bit(v, k) = 1
      <4>1. \A k \in w - 1 .. m - 1 : k \in 1 .. setBitStart(v) /\ k >= lastOne(v)
        BY <1>1, <2>1, <3>2, <3>3, <3>4
      <4> QED
        BY <4>1, OnesDown
    <3>6. v % P(m) = (v % P(w)) + P(m) - P(w)
      <4>1. \A k \in w .. m - 1 : Bit(v, k) = 1
        BY <2>1, <3>5
      <4> QED
        BY <1>1, <2>1, <4>1, OnesAbove
    <3>7. v % P(w) \in 0 .. P(w) - 1 /\ v % P(w) >= P(w) \div 2
      <4>1. Bit(v, w - 1) = 1 /\ (w - 1) + 1 = w
        BY <2>1, <3>5
      <4>2. /\ v % P(w) = (v % P(w - 1)) + 1 * P(w - 1)
            /\ v % P(w - 1) \in 0 .. P(w - 1) - 1
        BY <1>1, <2>1, <4>1, BitBelow
      <4>3. P(w) = 2 * P(w - 1) /\ P(w - 1) \in Nat \ {0}
        BY <2>1, <4>1, PowersOfTwo
      <4>4. P(w) \div 2 = P(w - 1)
        BY ONLY <4>3
      <4> QED
        BY <4>2, <4>3, <4>4
    <3>8. SignExtended(v, bits) = (v % P(m)) - P(m)
      <4>1. SignExtended(v, bits) = (v % P(w)) - P(w)
        BY <2>1, <3>7 DEF SignExtended
      <4> QED
        BY <2>1, <3>6, <3>7, <4>1
    <3>9. SameValue(v, SignExtended(v, bits))
      <4> DEFINE q == v \div P(m)
                 r == v % P(m)
      <4>1. q \in Int /\ r \in Int /\ v = P(m) * q + r
        BY <1>1, <2>1
      <4> HIDE DEF q
      <4>2. v - SignExtended(v, bits) = P(m) * (q + 1) /\ q + 1 \in Int
        <5>1. SignExtended(v, bits) = r - P(m)
          BY <3>8
        <5> HIDE DEF r
        <5>2. P(m) * (q + 1) = P(m) * q + P(m) /\ P(m) * q \in Int
          BY <2>1, <4>1
        <5> QED
          BY <2>1, <4>1, <5>1, <5>2
      <4>3. v - SignExtended(v, bits) \in Int
        BY <2>1, <4>2
      <4>4. (v - SignExtended(v, bits)) % P(m) = 0
        BY <2>1, <4>2, <4>3, MultipleLeavesNothing
      <4> QED
        BY <2>1, <4>4 DEF SameValue, ModeBits
    <3> QED
      BY <3>9
  <2> QED
    BY <2>2, <2>3
<1> QED
  BY <1>2, <1>3

\* A byte that needs no promotion gives the value back with its sign.
LEMMA ByteHoldsSign ==
    ASSUME NEW v \in Unsigned64, NEW negative \in BOOLEAN, ~NeedsPromotion(negative, v, "BYTE")
    PROVE  SameValue(v, SignExtended(v, 8))
<1> DEFINE b == P(ByteBits)
           h == P(ByteBits - 1)
           t == P(QwordBits)
           m == P(Places(ModeBits))
<1>1. ByteBits \in Nat /\ ByteBits - 1 \in Nat /\ QwordBits \in Nat /\ ByteBits <= QwordBits
      /\ Places(ModeBits) \in Nat /\ Places(ModeBits) <= QwordBits
  BY ResizeAssumption, PlacesGrow DEF ModeBits
<1>2. b = 2 * h /\ h \in Nat \ {0} /\ t \in Nat /\ m \in Nat \ {0}
  <2>1. (ByteBits - 1) + 1 = ByteBits
    BY <1>1
  <2> QED
    BY <1>1, <2>1, PowersOfTwo
<1>3. v \in 0 .. t - 1
  BY DEF Unsigned64, P
<1>4. Modulus(8) = b /\ Modulus(ModeBits) = m
  BY PlacesGrow
<1>5. v >= t - h \/ v < h
  <2>1. maxhalf("BYTE") = h /\ minhalf("BYTE") = t - h
    BY DEF maxhalf, minhalf, P
  <2> HIDE DEF h, t
  <2> QED
    BY <1>2, <1>3, <2>1 DEF NeedsPromotion
<1>6. PICK k \in Nat \ {0} : t = k * b
  BY <1>1, PowerDivides
<1>7. PICK l \in Nat \ {0} : t = l * m
  BY <1>1, PowerDivides
<1>8. b \div 2 = h
  <2> HIDE DEF b, h
  <2> QED
    BY <1>2
<1>9. SignExtended(v, 8) = IF v % b >= h THEN (v % b) - b ELSE v % b
  BY <1>4, <1>8 DEF SignExtended
<1>10. ASSUME NEW e \in Int, NEW q \in Int, SignExtended(v, 8) = e, v - e = m * q
       PROVE  SameValue(v, SignExtended(v, 8))
  <2> HIDE DEF m
  <2>1. v - e \in Int
    BY <1>3, <1>2, <1>10
  <2>2. (v - e) % m = 0
    BY <1>2, <1>10, <2>1, MultipleLeavesNothing
  <2> QED
    BY <1>4, <1>10, <2>2 DEF SameValue, ModeBits
<1> HIDE DEF b, h, t, m
<1>11. CASE v < h
  <2>1. v % b = v
    <3>1. v \in 0 .. b - 1 /\ v = b * 0 + v /\ b \in Nat \ {0}
      BY <1>2, <1>3, <1>11
    <3> QED
      BY <3>1, OneRemainder
  <2>2. SignExtended(v, 8) = v /\ v - v = m * 0 /\ v \in Int
    BY <1>2, <1>3, <1>9, <1>11, <2>1
  <2> QED
    BY <1>10, <2>2
<1>12. CASE v >= t - h
  <2> DEFINE r == v - t + b
  <2>1. r \in 0 .. b - 1 /\ r >= h /\ r \in Int
    BY <1>2, <1>3, <1>12
  <2>2. v = b * (k - 1) + r /\ k - 1 \in Int /\ b \in Nat \ {0}
    <3>1. b * (k - 1) = k * b - b /\ k * b \in Int
      BY <1>2
    <3> QED
      BY <1>2, <1>3, <1>6, <3>1
  <2>3. v % b = r
    <3> HIDE DEF r
    <3> QED
      BY <1>3, <2>1, <2>2, OneRemainder
  <2>4. SignExtended(v, 8) = v - t
    BY <1>2, <1>3, <1>9, <2>1, <2>3
  <2>5. v - (v - t) = m * l /\ v - t \in Int /\ l \in Int
    <3>1. l * m = m * l
      BY <1>2
    <3> QED
      BY <1>2, <1>3, <1>7, <3>1
  <2> QED
    BY <1>10, <2>4, <2>5
<1> QED
  BY <1>5, <1>11, <1>12

-----------------------------------------------------------------------------
(* Operands and forms.                                                     *)

Proper(op) == op \in Operand /\ (op.Type = "IMM" => op.Size \in ImmSizes)

\* An operand that is not written is one, and no immediate.
LEMMA BlankOperand == Blank \in Operand /\ Blank.Type # "IMM"
BY DEF Blank, Operand, Sizes

\* A register of some size is one.
LEMMA RegisterProper ==
    ASSUME NEW size \in Sizes
    PROVE  Proper(Register(size)) /\ Register(size).Type = "REG"
<1>1. OpsizeToEosz(size) \in 0 .. 3
  BY DEF OpsizeToEosz
<1>2. Register(size) \in Operand /\ Register(size).Type = "REG"
  BY <1>1, BlankOperand DEF Register, Operand
<1> QED
  BY <1>2 DEF Proper

\* An operand that AnalyzeOperand or the branch pass makes is one, and an
\* immediate has the size of its value.
LEMMA ParsedProper ==
    ASSUME NEW is64 \in BOOLEAN
    PROVE  /\ Proper(Blank) /\ Proper(Selector(is64))
           /\ \A op \in Parsed[is64] : Proper(op)
           /\ \A op \in BranchOperand[is64] : Proper(op)
           /\ \A op \in FarSelector[is64] : Proper(op)
<1>1. Blank \in Operand /\ Blank.Type # "IMM"
  BY BlankOperand
<1>2. \A size \in Sizes : Proper(Register(size)) /\ Register(size).Type = "REG"
  BY RegisterProper
<1>3. \A size \in Sizes, eosz \in 0 .. 3 : Proper(Memory(size, eosz))
  <2> SUFFICES ASSUME NEW size \in Sizes, NEW eosz \in 0 .. 3
               PROVE  Memory(size, eosz) \in Operand /\ Memory(size, eosz).Type = "MEM"
    BY DEF Proper
  <2> QED
    BY <1>1 DEF Memory, Operand
<1>4. \A negative \in BOOLEAN, v \in Values :
         /\ Immediate(is64, negative, v) \in Operand
         /\ Immediate(is64, negative, v).Size \in ImmSizes
  <2> SUFFICES ASSUME NEW negative \in BOOLEAN, NEW v \in Values
               PROVE  /\ Immediate(is64, negative, v) \in Operand
                      /\ Immediate(is64, negative, v).Size \in ImmSizes
    OBVIOUS
  <2>1. OpsizeFromValue(is64, v) \in ImmSizes
    BY DEF OpsizeFromValue, SizeOfBit, ImmSizes
  <2>2. v \in Nat
    BY ResizeAssumption DEF Unsigned64
  <2> QED
    <3> DEFINE eosz == EOSZ_64_32(is64)
               size == OpsizeFromValue(is64, v)
    <3>1. eosz \in 0 .. 3
      BY DEF EOSZ_64_32
    <3>2. Immediate(is64, negative, v) = [Blank EXCEPT !.Type = "IMM", !.Size = size,
                                             !.XedEOSZ = eosz, !.Signed = negative, !.imm = v]
      BY DEF Immediate
    <3>3. size \in ImmSizes
      BY <2>1
    <3> HIDE DEF eosz, size
    <3> QED
      BY <1>1, <2>2, <3>1, <3>2, <3>3 DEF Operand, Sizes, ImmSizes
<1>5. Proper(Selector(is64))
  <2>1. Selector(is64) \in Operand /\ Selector(is64).Type = "SEGSEL"
    <3> DEFINE eosz == EOSZ_64_32(is64)
    <3>1. eosz \in 0 .. 3
      BY DEF EOSZ_64_32
    <3>2. Selector(is64) = [Blank EXCEPT !.Type = "SEGSEL", !.Size = "DWORD", !.XedEOSZ = eosz]
      BY DEF Selector
    <3> HIDE DEF eosz
    <3> QED
      BY <1>1, <3>1, <3>2 DEF Operand, Sizes
  <2> QED
    BY <2>1 DEF Proper
<1>6. \A op \in Parsed[is64] : Proper(op)
  <2>1. \A size \in Sizes : OpsizeToEosz(size) \in 0 .. 3
    BY DEF OpsizeToEosz
  <2>2. EOSZ_64_32(is64) \in 0 .. 3 /\ 0 \in 0 .. 3 /\ "UNSET" \in Sizes
    BY DEF EOSZ_64_32, Sizes
  <2>3. {"BYTE", "WORD", "DWORD", "QWORD"} \subseteq Sizes
    BY DEF Sizes
  <2> QED
    BY <1>2, <1>3, <1>4, <1>5, <2>1, <2>2, <2>3 DEF Parsed, Proper
<1>7. \A s \in {"BYTE", "WORD", "DWORD"}, negative \in BOOLEAN, v \in Values :
         Proper([Immediate(is64, negative, v) EXCEPT !.Size = s])
  BY <1>4 DEF Proper, Operand, Sizes, ImmSizes
<1>8. \A op \in BranchOperand[is64] : Proper(op)
  <2>1. \A size \in {"BYTE", "DWORD"}, v \in Values : Proper(Displacement(is64, size, v))
    BY <1>7 DEF Displacement
  <2> QED
    BY <1>6, <2>1 DEF BranchOperand
<1>9. \A op \in FarSelector[is64] : Proper(op)
  BY <1>7 DEF FarSelector
<1>10. Proper(Blank)
  BY <1>1 DEF Proper
<1> QED
  BY <1>5, <1>6, <1>8, <1>9, <1>10

\* The length of a sequence.
LEMMA LengthOfSeq ==
    ASSUME NEW S, NEW s \in Seq(S)
    PROVE  Len(s) \in Nat
OBVIOUS

\* The row before it is looked up is a sequence too.
LEMMA WithEmpty ==
    ASSUME NEW S, NEW R, R \subseteq Seq(S), NEW s \in R \union {<<>>}
    PROVE  s \in Seq(S)
<1>1. <<>> \in Seq(S)
  OBVIOUS
<1> QED
  BY <1>1

\* What has been looked up is a sequence of forms.
LEMMA RowsAreSequences ==
    ASSUME TypeOK
    PROVE  Forms \in Seq([op0 : Template, op1 : Template])
<1>1. Rows \subseteq Seq([op0 : Template, op1 : Template])
  BY ResizeAssumption
<1>2. Forms \in Rows \union {<<>>}
  BY DEF TypeOK
<1> QED
  BY <1>1, <1>2, WithEmpty

\* The forms of a row have templates, and templates have widths.
LEMMA FormWidths ==
    ASSUME TypeOK, NEW k \in 1 .. Len(Forms)
    PROVE  /\ Forms[k].op0 \in Template /\ Forms[k].op1 \in Template
           /\ memWidth(Forms[k]) \in Widths
           /\ immWidth(Forms[k]) \in Widths
           /\ Matches(Forms[k]) /\ job \in ImmJobs => immWidth(Forms[k]) \in ImmWidths
<1>1. Forms \in Seq([op0 : Template, op1 : Template])
  BY RowsAreSequences
<1>2. Forms[k] \in [op0 : Template, op1 : Template]
  BY <1>1, ElementOfSeq
<1>3. Forms[k].op0 \in Template /\ Forms[k].op1 \in Template
  BY <1>2
<1>4. \A t \in Template, e \in 0 .. 3 :
         /\ t.width[e] \in Widths
         /\ t.kind = "imm" => t.width[e] \in ImmWidths
  BY WidthFacts DEF Template
<1>5. op0.XedEOSZ \in 0 .. 3 /\ op1.XedEOSZ \in 0 .. 3
  BY DEF TypeOK, Operand
<1> QED
  BY <1>3, <1>4, <1>5 DEF memWidth, immWidth, Matches, ImmJobs

\* A loop has a natural number of forms behind it.
LEMMA Position ==
    ASSUME TypeOK
    PROVE  /\ Len(Forms) \in Nat /\ i \in 1 .. Len(Forms) + 1
           /\ \A k \in HitsBefore(i) : k \in 1 .. Len(Forms) /\ k < i /\ Matches(Forms[k])
<1>1. Len(Forms) \in Nat
  BY RowsAreSequences, LengthOfSeq
<1>2. i \in 1 .. Len(Forms) + 1
  BY DEF TypeOK
<1>3. \A k \in HitsBefore(i) : k \in 1 .. i - 1 /\ Matches(Forms[k])
  BY DEF HitsBefore
<1> QED
  BY <1>1, <1>2, <1>3

\* When a loop has ended, it has met every form that goes with the operands.
LEMMA AllMet ==
    ASSUME TypeOK, i > Len(Forms)
    PROVE  i = Len(Forms) + 1 /\ Hits = HitsBefore(i)
BY Position DEF Hits

-----------------------------------------------------------------------------
(* The initial state.                                                      *)

\* A call starts with the operands that were parsed and no loop behind it.
LEMMA InitMet == Init => Met
<1> SUFFICES ASSUME Init PROVE Met
  OBVIOUS
<1> USE DEF Init
<1>1. Proper(op0) /\ Proper(op1)
  BY ParsedProper
<1>2. <<>> \in Rows \union {<<>>} /\ Len(Forms) = 0
  OBVIOUS
<1>3. TypeOK
  BY <1>1, <1>2, WidthFacts DEF TypeOK, Proper, ImmWidths
<1>4. Started
  BY <1>1 DEF Started, Proper, ImmJobs
<1> QED
  BY <1>3, <1>4 DEF Met, ImmJobs, MemJobs

-----------------------------------------------------------------------------
(* Before and after a loop.                                                *)

TypedError == {"stale", "Ambiguous memory size", "Immediate size is too large",
               "Operand immediate mismatch", "Too many memory references"}

\* A loop that has not begun has met nothing.
LEMMA NothingMet ==
    ASSUME i' = 1, fixedSize' = INT_MAX, largestSize' = 0,
           memoryOperandCount' = 0, memoryOperandSize' = 0
    PROVE  ImmScan' /\ MemScan'
<1>1. HitsBefore(i)' = {}
  BY DEF HitsBefore
<1>2. ~TwoWidthsBefore(i)'
  BY <1>1 DEF TwoWidthsBefore
<1>3. ImmScan'
  BY <1>1 DEF ImmScan
<1>4. MemScan'
  <2>1. ~NonStandard(memoryOperandSize')
    BY DEF NonStandard
  <2>2. \A k \in HitsBefore(i)' : memWidth(Forms[k])' <= memoryOperandSize'
    BY <1>1
  <2> QED
    BY <1>2, <2>1, <2>2 DEF MemScan, NonStandard
<1> QED
  BY <1>3, <1>4

\* A loop starts at the first form, or past an empty row.
LEMMA FirstIndex == \A n \in Nat : 1 \in 1 .. n + 1 /\ 0 \in 0 .. 1 - 1
OBVIOUS

\* What a step before the loops has to keep.
LEMMA BeforeLoops ==
    ASSUME Met, job \in {"fpu", "dispatch"}, UNCHANGED <<input, locals>>,
           OperandCount' \in 0 .. 2, op0' \in Operand, op1' \in Operand,
           Forms' \in Rows \union {<<>>}, targetSize' \in 0 .. 512,
           \/ job' = "done" /\ result' \in {"true", "false"} /\ error' \in TypedError
           \/ /\ job' \in {"dispatch"} \union Loops /\ UNCHANGED <<error, result>>
              /\ job' \in ImmJobs => targetSize' \in {8, 16, 32, 64}
              /\ job' = "reg,imm" => op1'.XedEOSZ = op0'.XedEOSZ
              /\ job' = "dispatch" => Proper(op0') /\ Proper(op1')
    PROVE  Met'
<1>1. /\ i = 1 /\ fixedSize = INT_MAX /\ largestSize = 0
      /\ memoryOperandCount = 0 /\ memoryOperandSize = 0
      /\ error = "stale" /\ result = "none"
  BY DEF Met, Started
<1>2. /\ i' = 1 /\ fixedSize' = INT_MAX /\ largestSize' = 0
      /\ memoryOperandCount' = 0 /\ memoryOperandSize' = 0
  BY <1>1 DEF locals
<1>3. Len(Forms') \in Nat
  <2>1. Rows \subseteq Seq([op0 : Template, op1 : Template])
    BY ResizeAssumption
  <2> QED
    BY <2>1, WithEmpty, LengthOfSeq
<1>4. TypeOK'
  <2>1. x64' \in BOOLEAN /\ Class' \in Classes
    BY DEF Met, TypeOK, input
  <2>2. job' \in {"fpu", "dispatch", "done"} \union ImmJobs \union MemJobs
    BY DEF Loops
  <2>3. error' \in TypedError /\ result' \in {"none", "true", "false"}
    BY <1>1 DEF TypedError
  <2>4. i' \in 1 .. Len(Forms') + 1 /\ 0 \in 0 .. i' - 1
    BY ONLY <1>2, <1>3, FirstIndex
  <2>5. 0 \in ImmWidths /\ 0 \in Widths
    BY WidthFacts DEF ImmWidths
  <2> QED
    BY <1>2, <2>1, <2>2, <2>3, <2>4, <2>5 DEF TypeOK, TypedError
<1>5. Started'
  <2>1. job' \in {"fpu", "dispatch"} => Proper(op0') /\ Proper(op1')
    BY DEF Loops, ImmJobs, MemJobs
  <2>2. job' # "done" => error' = "stale" /\ result' = "none"
    BY <1>1
  <2>3. /\ job' \in ImmJobs => targetSize' \in {8, 16, 32, 64}
        /\ job' = "reg,imm" => op1'.XedEOSZ = op0'.XedEOSZ
    BY DEF ImmJobs
  <2> QED
    BY <1>2, <2>1, <2>2, <2>3 DEF Started, Proper
<1>6. ImmScan' /\ MemScan'
  BY <1>2, NothingMet
<1> QED
  BY <1>4, <1>5, <1>6 DEF Met

\* What the last step has to keep.
LEMMA AfterLoops ==
    ASSUME Met, job' = "done", UNCHANGED <<input, OperandCount, Forms, targetSize, locals>>,
           op0' \in Operand, op1' \in Operand,
           result' \in {"true", "false"}, error' \in TypedError
    PROVE  Met'
<1>1. TypeOK'
  BY DEF Met, TypeOK, input, locals, TypedError
<1>2. Started'
  BY DEF Started, ImmJobs
<1> QED
  BY <1>1, <1>2 DEF Met, ImmJobs, MemJobs

-----------------------------------------------------------------------------
(* The steps before the loops.                                             *)

\* The operands as ValidateInstOperands looks at them.
LEMMA OperandsProper ==
    ASSUME Met, job \in {"fpu", "dispatch"}
    PROVE  /\ op0 \in Operand /\ op1 \in Operand /\ Proper(op0) /\ Proper(op1)
           /\ Proper(first) /\ Proper(second)
<1>1. Proper(op0) /\ Proper(op1)
  BY DEF Met, TypeOK, Started, Proper
<1>2. Proper(Unsegmented(op1))
  BY <1>1 DEF Unsegmented, Proper, Operand
<1> QED
  BY <1>1, <1>2 DEF first, second, Proper

\* An operand that takes the operand size of the other one stays one.
LEMMA SizedProper ==
    ASSUME NEW op, Proper(op), NEW other, Proper(other)
    PROVE  /\ Sized(op, other) \in Operand /\ Sized(op, other).XedEOSZ = other.XedEOSZ
BY DEF Sized, Proper, Operand

\* Adding ST0 keeps the invariant.
LEMMA FpuStep ==
    ASSUME Met, ValidateFpuOperands
    PROVE  Met'
<1> USE DEF ValidateFpuOperands
<1>1. Proper(op0) /\ Proper(op1)
  BY OperandsProper
<1>2. Proper(Register("TBYTE"))
  BY RegisterProper DEF Sizes
<1>3. OperandCount' \in 0 .. 2 /\ Proper(op0') /\ Proper(op1')
  <2>1. OperandCount \in 0 .. 2
    BY DEF Met, TypeOK
  <2> QED
    BY <1>1, <1>2, <2>1 DEF AddsST0, operands
<1>4. Forms' \in Rows \union {<<>>} /\ targetSize' \in 0 .. 512
  BY DEF Met, TypeOK
<1> QED
  BY <1>3, <1>4, BeforeLoops DEF Proper, ImmJobs

\* Which loops are for an immediate.
LEMMA JobNames ==
    /\ \A j \in ImmJobs : j \in Loops
    /\ "imm" \in ImmJobs /\ "reg,imm" \in ImmJobs /\ "mem,imm" \in ImmJobs
    /\ \A j \in {"mem", "reg,mem", "mem,reg"} : j \in Loops /\ j \notin ImmJobs /\ j # "reg,imm"
    /\ "dispatch" \notin Loops /\ "fpu" \notin Loops /\ "done" \notin Loops
BY DEF Loops, ImmJobs, MemJobs

\* The width of an immediate is a target size.
LEMMA SmallBits == \A n \in {8, 16, 32, 64} : n \in 0 .. 512
OBVIOUS

\* The steps that decide which loop runs, if any.
LEMMA DispatchStep ==
    ASSUME Met,
           \/ NoOperand \/ OneOperand \/ PassThrough \/ ImmediateFirst \/ TwoMemories
           \/ Unhandled \/ RegImm \/ RegMem \/ MemReg \/ MemImm
    PROVE  Met'
<1>1. job = "dispatch" /\ UNCHANGED <<input, OperandCount, locals>>
  BY DEF NoOperand, OneOperand, PassThrough, NothingToDo, TwoOperands, ImmediateFirst,
         TwoMemories, Unhandled, RegImm, RegMem, MemReg, MemImm, operands
<1>2. /\ op0 \in Operand /\ op1 \in Operand /\ Proper(op0) /\ Proper(op1)
      /\ Proper(first) /\ Proper(second)
  BY <1>1, OperandsProper
<1>3. /\ OperandCount \in 0 .. 2 /\ Forms \in Rows \union {<<>>} /\ targetSize \in 0 .. 512
      /\ error = "stale"
  BY <1>1 DEF Met, TypeOK, Started
<1>4. SUFFICES
        /\ op0' \in Operand /\ op1' \in Operand
        /\ Forms' \in Rows \union {<<>>} /\ targetSize' \in 0 .. 512
        /\ \/ job' = "done" /\ result' \in {"true", "false"} /\ error' \in TypedError
           \/ /\ job' \in Loops /\ error' = error /\ result' = result
              /\ job' \in ImmJobs => targetSize' \in {8, 16, 32, 64}
              /\ job' = "reg,imm" => op1'.XedEOSZ = op0'.XedEOSZ
  <2>1. "dispatch" \notin Loops
    BY DEF Loops, ImmJobs, MemJobs
  <2> QED
    BY <1>1, <1>3, <1>4, <2>1, BeforeLoops
<1>5. ASSUME NEW value \in {"true", "false"}, NEW text \in TypedError, Return(value, text)
      PROVE  /\ Forms' \in Rows \union {<<>>}
             /\ job' = "done" /\ result' \in {"true", "false"} /\ error' \in TypedError
  BY <1>3, <1>5 DEF Return
<1>6. \A bits \in {8, 16, 32, 64} : bits \in 0 .. 512
  BY SmallBits
<1>7. error \in TypedError /\ {"Operand immediate mismatch", "Too many memory references"}
                                \subseteq TypedError
  BY <1>3 DEF TypedError
<1>8. ASSUME NEW op \in Operand, Proper(op), SingleOperand(op), UNCHANGED <<op0, op1>>
      PROVE  /\ Forms' \in Rows \union {<<>>} /\ targetSize' \in 0 .. 512
             /\ \/ job' = "done" /\ result' \in {"true", "false"} /\ error' \in TypedError
                \/ /\ job' \in {"imm", "mem"} /\ error' = error /\ result' = result
                   /\ job' = "imm" => targetSize' \in {8, 16, 32, 64}
  <2>1. CASE Return("true", error) /\ UNCHANGED targetSize
    BY <1>3, <1>5, <1>7, <2>1
  <2>2. CASE op.Type = "IMM" /\ Begin("imm", op.Size)
    <3>1. op.Size \in ImmSizes
      BY <1>8, <2>2 DEF Proper
    <3>2. /\ job' = "imm" /\ targetSize' = OpsizeToBits(op.Size) /\ Forms' \in Rows
          /\ error' = error /\ result' = result
      BY <2>2 DEF Begin
    <3>3. targetSize' \in {8, 16, 32, 64}
      BY <3>1, <3>2, OpsizeBits
    <3> QED
      BY ONLY <1>6, <3>2, <3>3
  <2>3. CASE op.Type = "MEM" /\ Begin("mem", op.Size)
    <3>1. /\ job' = "mem" /\ targetSize' = OpsizeToBits(op.Size) /\ Forms' \in Rows
          /\ error' = error /\ result' = result
      BY <2>3 DEF Begin
    <3>2. targetSize' \in 0 .. 512
      BY <3>1, OpsizeBits
    <3> QED
      BY ONLY <3>1, <3>2
  <2>4. CASE Return("false", error) /\ UNCHANGED targetSize
    BY <1>3, <1>5, <1>7, <2>4
  <2> QED
    BY <1>8, <2>1, <2>2, <2>3, <2>4 DEF SingleOperand
<1>9. CASE NoOperand
  BY <1>2, <1>3, <1>5, <1>7, <1>9 DEF NoOperand, operands
<1>10. CASE OneOperand
  BY <1>2, <1>8, <1>10, JobNames DEF OneOperand, operands
<1>11. CASE PassThrough
  BY <1>2, <1>3, <1>5, <1>7, <1>11 DEF PassThrough, Proper
<1>12. CASE ImmediateFirst
  <2>1. first.Type = "IMM" /\ op0' = first /\ op1' = second
    BY <1>12 DEF ImmediateFirst, TwoOperands
  <2>2. CASE Begin("imm", first.Size)
    <3>1. first.Size \in ImmSizes /\ op0' \in Operand /\ op1' \in Operand
      BY <1>2, <2>1 DEF Proper
    <3>2. /\ job' = "imm" /\ targetSize' = OpsizeToBits(first.Size) /\ Forms' \in Rows
          /\ error' = error /\ result' = result
      BY <2>2 DEF Begin
    <3>3. targetSize' \in {8, 16, 32, 64}
      BY <3>1, <3>2, OpsizeBits
    <3> QED
      BY ONLY <1>6, <3>1, <3>2, <3>3, JobNames
  <2>3. CASE Return("false", "Operand immediate mismatch") /\ UNCHANGED targetSize
    BY <1>2, <1>3, <1>5, <1>7, <2>1, <2>3 DEF Proper
  <2> QED
    BY <1>12, <2>2, <2>3 DEF ImmediateFirst
<1>13. CASE TwoMemories \/ Unhandled
  BY <1>2, <1>3, <1>5, <1>7, <1>13 DEF TwoMemories, Unhandled, Proper
<1>14. CASE RegImm
  <2>1. /\ second.Type = "IMM" /\ op0' = first /\ op1' = Sized(second, first)
        /\ Begin("reg,imm", second.Size)
    BY <1>14 DEF RegImm, TwoOperands
  <2>2. Forms' \in Rows \union {<<>>} /\ targetSize' \in {8, 16, 32, 64} /\ job' = "reg,imm"
        /\ error' = error /\ result' = result
    <3>1. second.Size \in ImmSizes
      BY <1>2, <2>1 DEF Proper
    <3>2. /\ job' = "reg,imm" /\ targetSize' = OpsizeToBits(second.Size) /\ Forms' \in Rows
          /\ error' = error /\ result' = result
      BY <2>1 DEF Begin
    <3> QED
      BY ONLY <3>1, <3>2, OpsizeBits
  <2>3. op0' \in Operand /\ op1' \in Operand /\ op1'.XedEOSZ = op0'.XedEOSZ
    BY <1>2, <2>1, SizedProper DEF Proper
  <2> QED
    BY ONLY <2>2, <2>3, JobNames, SmallBits
<1>15. CASE RegMem \/ MemReg
  <2>1. \/ op0' = first /\ op1' = Sized(second, first) /\ Begin("reg,mem", "UNSET")
        \/ op0' = Sized(first, second) /\ op1' = second /\ Begin("mem,reg", "UNSET")
    BY <1>15 DEF RegMem, MemReg
  <2>2. op0' \in Operand /\ op1' \in Operand
    BY <1>2, <2>1, SizedProper DEF Proper
  <2>3. /\ Forms' \in Rows \union {<<>>} /\ targetSize' \in 0 .. 512
        /\ job' \in {"reg,mem", "mem,reg"} /\ error' = error /\ result' = result
    BY ONLY <2>1, OpsizeBits DEF Begin
  <2> QED
    BY <2>2, <2>3 DEF Loops, MemJobs, ImmJobs
<1>16. CASE MemImm
  <2>1. /\ second.Type = "IMM" /\ op0' = first /\ op1' = Sized(second, first)
        /\ Begin("mem,imm", second.Size)
    BY <1>16 DEF MemImm, TwoOperands
  <2>2. Forms' \in Rows \union {<<>>} /\ targetSize' \in {8, 16, 32, 64} /\ job' = "mem,imm"
        /\ error' = error /\ result' = result
    <3>1. second.Size \in ImmSizes
      BY <1>2, <2>1 DEF Proper
    <3>2. /\ job' = "mem,imm" /\ targetSize' = OpsizeToBits(second.Size) /\ Forms' \in Rows
          /\ error' = error /\ result' = result
      BY <2>1 DEF Begin
    <3> QED
      BY ONLY <3>1, <3>2, OpsizeBits
  <2>3. op0' \in Operand /\ op1' \in Operand
    BY <1>2, <2>1, SizedProper DEF Proper
  <2> QED
    BY ONLY <2>2, <2>3, JobNames, SmallBits
<1> QED
  BY <1>9, <1>10, <1>11, <1>12, <1>13, <1>14, <1>15, <1>16


-----------------------------------------------------------------------------
(* The steps of a loop.                                                    *)

\* A step of a loop changes neither which forms go with the operands nor how
\* wide they are.
LEMMA Stable ==
    ASSUME UNCHANGED <<operands, Forms, job, targetSize>>
    PROVE  /\ \A k : (Matches(Forms[k]))' <=> Matches(Forms[k])
           /\ \A k : (immWidth(Forms[k]))' = immWidth(Forms[k])
           /\ \A k : (memWidth(Forms[k]))' = memWidth(Forms[k])
           /\ Counts' <=> Counts
<1>1. op0' = op0 /\ op1' = op1 /\ Forms' = Forms /\ job' = job /\ targetSize' = targetSize
  BY DEF operands
<1>2. \A k : (immWidth(Forms[k]))' = immWidth(Forms[k])
  BY <1>1 DEF immWidth
<1>3. \A k : (memWidth(Forms[k]))' = memWidth(Forms[k])
  BY <1>1 DEF memWidth
<1>4. \A k : (Matches(Forms[k]))' <=> Matches(Forms[k])
  BY <1>1 DEF Matches, IsRegisterOf, immWidth, memWidth
<1>5. Counts' <=> Counts
  BY <1>1 DEF Counts
<1> QED
  BY <1>2, <1>3, <1>4, <1>5

\* One more form is behind the loop.
LEMMA OneMoreMet ==
    ASSUME TypeOK, i' = i + 1, UNCHANGED <<operands, Forms, job, targetSize>>
    PROVE  HitsBefore(i)' = HitsBefore(i) \union {k \in {i} : Matches(Forms[k])}
<1>1. i \in Nat \ {0}
  BY Position
<1>2. 1 .. i' - 1 = (1 .. i - 1) \union {i}
  BY <1>1
<1>3. HitsBefore(i)' = {k \in 1 .. i' - 1 : (Matches(Forms[k]))'}
  BY DEF HitsBefore
<1>4. HitsBefore(i)' = {k \in 1 .. i' - 1 : Matches(Forms[k])}
  BY <1>3, Stable
<1> QED
  BY <1>2, <1>4 DEF HitsBefore

\* A form that does not go with the operands changes nothing but the place.
LEMMA SkipStep ==
    ASSUME Met, Skip
    PROVE  Met'
<1>1. /\ i' = i + 1 /\ i <= Len(Forms) /\ ~Matches(Forms[i])
      /\ UNCHANGED <<input, operands, Forms, job, targetSize, fixedSize, largestSize,
                     memoryOperandCount, memoryOperandSize, error, result>>
      /\ job \in Loops /\ TypeOK /\ Started
  BY DEF Skip, Scanning, Met, Loops
<1>2. HitsBefore(i)' = HitsBefore(i)
  BY <1>1, OneMoreMet
<1>3. TypeOK'
  <2>1. i' \in 1 .. Len(Forms') + 1 /\ memoryOperandCount' \in 0 .. i' - 1
    <3>1. i \in 1 .. Len(Forms) + 1 /\ Len(Forms) \in Nat /\ memoryOperandCount \in 0 .. i - 1
      BY <1>1, Position DEF TypeOK
    <3>2. i' = i + 1 /\ i <= Len(Forms) /\ Forms' = Forms
          /\ memoryOperandCount' = memoryOperandCount
      BY <1>1
    <3> QED
      BY ONLY <3>1, <3>2
  <2> QED
    BY <1>1, <2>1 DEF TypeOK, input, operands
<1>4. Started'
  BY <1>1, JobNames DEF Started, operands
<1>5. ImmScan => ImmScan'
  BY <1>1, <1>2, Stable DEF ImmScan
<1>6. MemScan => MemScan'
  <2>1. TwoWidthsBefore(i)' <=> TwoWidthsBefore(i)
    BY <1>1, <1>2, Stable DEF TwoWidthsBefore, NonStandard
  <2> QED
    BY <1>1, <1>2, <2>1, Stable DEF MemScan, NonStandard
<1>7. Counts' <=> Counts
  BY <1>1, Stable
<1> QED
  BY <1>1, <1>3, <1>4, <1>5, <1>6, <1>7 DEF Met

\* The value that no immediate has is above all that one can have.
LEMMA AboveWidths == INT_MAX \in Nat /\ INT_MAX > 1024
BY SMT DEF INT_MAX

\* Among the widths of immediates and that value, order is transitive.
LEMMA WidthOrder ==
    \A a, b, c \in ImmWidths \union {INT_MAX} : a <= b /\ b <= c => a <= c
<1>1. \A a \in ImmWidths \union {INT_MAX} : a \in Nat
  BY AboveWidths, WidthFacts
<1> QED
  BY <1>1

\* What keeping the narrowest width that fits does.
LEMMA CloserBounds ==
    ASSUME fixedSize \in ImmWidths \union {INT_MAX}, NEW w \in ImmWidths, targetSize \in Nat
    PROVE  LET kept == IF FitsCloser(w) THEN w ELSE fixedSize
           IN  kept <= fixedSize /\ (w >= targetSize => kept <= w)
<1>1. fixedSize \in Nat /\ w \in Nat
  BY AboveWidths, WidthFacts
<1> QED
  BY <1>1 DEF FitsCloser

\* What keeping the widest does.
LEMMA LargerBounds ==
    ASSUME NEW a \in ImmWidths, NEW b \in ImmWidths
    PROVE  a <= MaxOf(a, b) /\ b <= MaxOf(a, b)
BY WidthFacts DEF MaxOf

\* The narrowest immediate that fits and the widest one are kept by a form
\* that goes with the operands.
LEMMA TakeImmScan ==
    ASSUME Met, Take, job \in ImmJobs
    PROVE  ImmScan' /\ fixedSize' \in ImmWidths \union {INT_MAX} /\ largestSize' \in ImmWidths
<1> DEFINE w == immWidth(Forms[i])
<1>1. /\ i' = i + 1 /\ i \in 1 .. Len(Forms) /\ Matches(Forms[i])
      /\ UNCHANGED <<operands, Forms, job, targetSize>>
      /\ fixedSize' = IF FitsCloser(w) THEN w ELSE fixedSize
      /\ largestSize' = IF job = "mem,imm" THEN largestSize ELSE MaxOf(largestSize, w)
      /\ TypeOK /\ ImmScan
  <2>1. i' = i + 1 /\ i <= Len(Forms) /\ Matches(Forms[i])
        /\ UNCHANGED <<operands, Forms, job, targetSize>> /\ TakeImmediate(Forms[i])
    BY DEF Take, Scanning
  <2>2. i \in 1 .. Len(Forms)
    <3>1. i \in 1 .. Len(Forms) + 1 /\ Len(Forms) \in Nat
      BY Position DEF Met
    <3> QED
      BY ONLY <2>1, <3>1
  <2> QED
    BY <2>1, <2>2 DEF TakeImmediate, Met
<1>2. HitsBefore(i)' = HitsBefore(i) \union {i}
  BY <1>1, OneMoreMet
<1>3. /\ w \in ImmWidths /\ targetSize \in Nat
      /\ fixedSize \in ImmWidths \union {INT_MAX} /\ largestSize \in ImmWidths
  <2>1. w \in ImmWidths
    BY <1>1, FormWidths
  <2>2. \A n \in 0 .. 512 : n \in Nat
    OBVIOUS
  <2>3. /\ targetSize \in 0 .. 512
        /\ fixedSize \in ImmWidths \union {INT_MAX} /\ largestSize \in ImmWidths
    BY <1>1 DEF TypeOK
  <2> QED
    BY <2>1, <2>2, <2>3
<1>4. /\ \A k : (immWidth(Forms[k]))' = immWidth(Forms[k])
      /\ job' = job /\ targetSize' = targetSize
  BY <1>1, Stable
<1>5. \A k \in HitsBefore(i) : immWidth(Forms[k]) \in ImmWidths
  BY <1>1, Position, FormWidths
<1> HIDE DEF w
<1>6. fixedSize' \in ImmWidths \union {INT_MAX} /\ largestSize' \in ImmWidths
  BY <1>1, <1>3 DEF MaxOf
<1>7. fixedSize' # INT_MAX =>
         \E k \in HitsBefore(i)' : (immWidth(Forms[k]))' = fixedSize' /\ fixedSize' >= targetSize'
  BY <1>1, <1>2, <1>3, <1>4 DEF ImmScan, FitsCloser, w
<1>8. \A k \in HitsBefore(i)' :
         /\ (immWidth(Forms[k]))' >= targetSize' => fixedSize' <= (immWidth(Forms[k]))'
         /\ job' # "mem,imm" => (immWidth(Forms[k]))' <= largestSize'
  <2>1. /\ w >= targetSize => fixedSize' <= w
        /\ job # "mem,imm" => w <= largestSize'
        /\ fixedSize' <= fixedSize /\ largestSize <= largestSize'
    <3>1. (w >= targetSize => fixedSize' <= w) /\ fixedSize' <= fixedSize
      <4>1. fixedSize' = IF FitsCloser(w) THEN w ELSE fixedSize
        BY <1>1
      <4> QED
        BY ONLY <1>3, <4>1, CloserBounds
    <3>2. (job # "mem,imm" => w <= largestSize') /\ largestSize <= largestSize'
      <4>1. largestSize' = IF job = "mem,imm" THEN largestSize ELSE MaxOf(largestSize, w)
        BY <1>1
      <4>2. largestSize <= largestSize
        BY <1>3, WidthFacts
      <4> QED
        BY ONLY <1>3, <4>1, <4>2, LargerBounds
    <3> QED
      BY ONLY <3>1, <3>2
  <2>2. ASSUME NEW k \in HitsBefore(i)
        PROVE  /\ immWidth(Forms[k]) >= targetSize => fixedSize' <= immWidth(Forms[k])
               /\ job # "mem,imm" => immWidth(Forms[k]) <= largestSize'
    <3>1. /\ immWidth(Forms[k]) >= targetSize => fixedSize <= immWidth(Forms[k])
          /\ job # "mem,imm" => immWidth(Forms[k]) <= largestSize
      BY <1>1, <2>2 DEF ImmScan
    <3>2. immWidth(Forms[k]) \in ImmWidths
      BY <1>5
    <3> QED
      BY ONLY <1>3, <1>6, <2>1, <3>1, <3>2, WidthOrder
  <2> QED
    BY <1>2, <1>4, <2>1, <2>2 DEF w
<1>9. largestSize' # 0 => \E k \in HitsBefore(i)' : (immWidth(Forms[k]))' = largestSize'
  BY <1>1, <1>2, <1>3, <1>4 DEF ImmScan, MaxOf, w
<1> QED
  BY <1>6, <1>7, <1>8, <1>9 DEF ImmScan

\* The count and the maximum tell, after one more form that goes with the
\* operands, whether two widths have been met.
LEMMA TakeMemScan ==
    ASSUME Met, Take, Counts, job \in Loops
    PROVE  /\ MemScan' /\ memoryOperandSize' \in Widths
           /\ memoryOperandCount' \in 0 .. i' - 1
<1> DEFINE m == memWidth(Forms[i])
           size == memoryOperandSize
           count == memoryOperandCount
<1>1. /\ i' = i + 1 /\ i \in 1 .. Len(Forms) /\ Matches(Forms[i])
      /\ UNCHANGED <<operands, Forms, job, targetSize>>
      /\ memoryOperandCount' = CountAfter(m)
      /\ memoryOperandSize' = MaxOf(size, m)
      /\ TypeOK /\ MemScan
  <2>1. i' = i + 1 /\ i <= Len(Forms) /\ Matches(Forms[i])
        /\ UNCHANGED <<operands, Forms, job, targetSize>> /\ TakeMemory(Forms[i])
    BY DEF Take, Scanning
  <2>2. i \in 1 .. Len(Forms)
    <3>1. i \in 1 .. Len(Forms) + 1 /\ Len(Forms) \in Nat
      BY Position DEF Met
    <3> QED
      BY ONLY <2>1, <3>1
  <2> QED
    BY <2>1, <2>2 DEF TakeMemory, Met, Loops
<1>2. HitsBefore(i)' = HitsBefore(i) \union {i}
  BY <1>1, OneMoreMet
<1>3. \A k \in HitsBefore(i) : k \in Nat /\ k < i /\ memWidth(Forms[k]) \in Widths
                               /\ memWidth(Forms[k]) \in Nat
  <2>1. \A k \in HitsBefore(i) : k \in 1 .. Len(Forms) /\ k < i
    BY <1>1, Position
  <2>2. \A k \in HitsBefore(i) : memWidth(Forms[k]) \in Widths
    BY <1>1, <2>1, FormWidths
  <2>3. \A n, k : k \in 1 .. n => k \in Nat
    OBVIOUS
  <2> QED
    BY ONLY <2>1, <2>2, <2>3, WidthFacts
<1>4. m \in Widths /\ m \in Nat /\ size \in Widths /\ size \in Nat /\ i \in Nat
      /\ count \in 0 .. i - 1 /\ count \in Nat
  <2>1. m \in Widths /\ size \in Widths /\ count \in 0 .. i - 1
    BY <1>1, FormWidths DEF TypeOK
  <2>2. \A n, k : (k \in 1 .. n \/ k \in 0 .. n) => k \in Nat
    OBVIOUS
  <2> QED
    BY ONLY <1>1, <2>1, <2>2, WidthFacts
<1>5. /\ \A k : (memWidth(Forms[k]))' = memWidth(Forms[k])
      /\ job' = job
  BY <1>1, Stable
<1> HIDE DEF m, size, count
<1>6. memoryOperandSize' \in Widths /\ memoryOperandSize' \in Nat
      /\ size <= memoryOperandSize' /\ m <= memoryOperandSize'
      /\ (memoryOperandSize' = size \/ memoryOperandSize' = m)
  BY <1>1, <1>4 DEF MaxOf
<1>7. memoryOperandCount' \in 0 .. i' - 1
  BY <1>1, <1>4 DEF CountAfter, count
<1>8. \A k \in HitsBefore(i)' : (memWidth(Forms[k]))' <= memoryOperandSize'
  <2>1. \A k \in HitsBefore(i) : memWidth(Forms[k]) <= size
    BY <1>1 DEF MemScan, size
  <2> QED
    BY <1>2, <1>3, <1>4, <1>5, <1>6, <2>1 DEF m
<1>9. memoryOperandSize' # 0 =>
         \E k \in HitsBefore(i)' : (memWidth(Forms[k]))' = memoryOperandSize'
  <2>1. size # 0 => \E k \in HitsBefore(i) : memWidth(Forms[k]) = size
    BY <1>1 DEF MemScan, size
  <2>2. m = memWidth(Forms[i])
    BY DEF m
  <2> QED
    BY <1>2, <1>5, <1>6, <2>1, <2>2
<1>10. CASE job = "mem" /\ NonStandard(memoryOperandSize')
  <2>1. NonStandard(m) \/ NonStandard(size)
    BY <1>6, <1>10
  <2>2. memoryOperandCount' = IF m # size THEN 1 ELSE 0
    <3>1. CountAfter(m) = 0 + (IF m # size THEN 1 ELSE 0)
      BY <1>10, <2>1 DEF CountAfter, size
    <3>2. \A c : c \in {0, 1} => 0 + c = c
      OBVIOUS
    <3> QED
      BY ONLY <1>1, <3>1, <3>2
  <2>3. memoryOperandCount' <= 1
    BY <2>2
  <2> QED
    BY <1>5, <1>6, <1>7, <1>8, <1>9, <1>10, <2>3 DEF MemScan, NonStandard
<1>11. CASE ~(job = "mem" /\ NonStandard(memoryOperandSize'))
  <2> DEFINE Differ(H) == \E j, k \in H : /\ j < k /\ memWidth(Forms[j]) # 0
                                          /\ memWidth(Forms[k]) # memWidth(Forms[j])
             H == HitsBefore(i)
  <2>1. ~(job = "mem" /\ (NonStandard(m) \/ NonStandard(size)))
    BY <1>4, <1>6, <1>11 DEF NonStandard
  <2>2. memoryOperandCount' = count + (IF m # size THEN 1 ELSE 0)
    BY <1>1, <2>1 DEF CountAfter, count, size
  <2>3. TwoWidthsBefore(i) <=> Differ(H)
    <3>1. \A k \in H : memWidth(Forms[k]) <= size
      BY <1>1 DEF MemScan, size
    <3>2. job = "mem" => \A k \in H : ~NonStandard(memWidth(Forms[k]))
      BY <1>3, <1>4, <2>1, <3>1 DEF NonStandard
    <3> QED
      BY <3>2 DEF TwoWidthsBefore
  <2>4. TwoWidthsBefore(i)' <=> Differ(H \union {i})
    <3>1. job' = "mem" => \A k \in HitsBefore(i)' : ~NonStandard((memWidth(Forms[k]))')
      <4>1. \A k \in HitsBefore(i)' : (memWidth(Forms[k]))' \in Nat
        BY <1>2, <1>3, <1>4, <1>5 DEF m
      <4> QED
        BY <1>5, <1>6, <1>8, <1>11, <4>1 DEF NonStandard
    <3>2. TwoWidthsBefore(i)' <=>
             \E j, k \in HitsBefore(i)' :
                j < k /\ (memWidth(Forms[j]))' # 0 /\ (memWidth(Forms[k]))' # (memWidth(Forms[j]))'
      BY <3>1 DEF TwoWidthsBefore, NonStandard
    <3> QED
      BY <1>2, <1>5, <3>2
  <2>5. Differ(H \union {i}) <=>
           Differ(H) \/ \E j \in H : memWidth(Forms[j]) # 0 /\ m # memWidth(Forms[j])
    BY <1>3, <1>4 DEF m
  <2>6. /\ count = 0 <=> size = 0
        /\ count > 1 <=> TwoWidthsBefore(i)
        /\ \A k \in H : memWidth(Forms[k]) <= size
        /\ size # 0 => \E k \in H : memWidth(Forms[k]) = size
    BY <1>1, <2>1 DEF MemScan, size, count
  <2>7. ~Differ(H) => \A j \in H : memWidth(Forms[j]) # 0 => memWidth(Forms[j]) = size
    <3> SUFFICES ASSUME ~Differ(H), NEW j \in H, memWidth(Forms[j]) # 0
                 PROVE  memWidth(Forms[j]) = size
      OBVIOUS
    <3>1. size # 0
      BY <1>3, <1>4, <2>6
    <3>2. PICK k \in H : memWidth(Forms[k]) = size
      BY <2>6, <3>1
    <3>3. j < k \/ k < j \/ j = k
      BY <1>3
    <3> QED
      BY <3>1, <3>2, <3>3
  <2>8. memoryOperandCount' = 0 <=> memoryOperandSize' = 0
    BY <1>1, <1>4, <2>2, <2>6 DEF MaxOf
  <2>9. memoryOperandCount' > 1 <=> TwoWidthsBefore(i)'
    <3>1. CASE Differ(H)
      BY <1>4, <2>2, <2>3, <2>4, <2>5, <2>6, <3>1
    <3>2. CASE ~Differ(H) /\ size = 0
      <4>1. ~\E j \in H : memWidth(Forms[j]) # 0
        BY <1>3, <2>6, <3>2
      <4>2. ~TwoWidthsBefore(i)'
        BY <2>4, <2>5, <3>2, <4>1
      <4> QED
        BY <1>4, <2>2, <2>6, <3>2, <4>2
    <3>3. CASE ~Differ(H) /\ size # 0
      <4>1. count = 1
        BY <1>4, <2>3, <2>6, <3>3
      <4>2. memoryOperandCount' > 1 <=> m # size
        BY <2>2, <4>1
      <4>3. (\E j \in H : memWidth(Forms[j]) # 0 /\ m # memWidth(Forms[j])) <=> m # size
        BY <2>6, <2>7, <3>3
      <4> QED
        BY <2>4, <2>5, <3>3, <4>2, <4>3
    <3> QED
      BY <3>1, <3>2, <3>3
  <2> QED
    BY ONLY <1>5, <1>6, <1>7, <1>8, <1>9, <1>11, <2>8, <2>9 DEF MemScan, NonStandard
<1> QED
  BY <1>6, <1>7, <1>10, <1>11

\* A form that goes with the operands keeps what the locals tell.
LEMMA TakeStep ==
    ASSUME Met, Take
    PROVE  Met'
<1>1. /\ i' = i + 1 /\ i <= Len(Forms) /\ job \in Loops /\ TypeOK /\ Started
      /\ UNCHANGED <<input, operands, Forms, job, targetSize, error, result>>
      /\ TakeImmediate(Forms[i]) /\ TakeMemory(Forms[i])
  BY DEF Take, Scanning, Met, Loops
<1>2. Counts' <=> Counts
  BY <1>1, Stable
<1>3. fixedSize' \in ImmWidths \union {INT_MAX} /\ largestSize' \in ImmWidths
  <2>1. CASE job \in ImmJobs
    BY <2>1, TakeImmScan
  <2>2. CASE job \notin ImmJobs
    BY <1>1, <2>2 DEF TakeImmediate, TypeOK
  <2> QED
    BY <2>1, <2>2
<1>4. memoryOperandSize' \in Widths /\ memoryOperandCount' \in 0 .. i' - 1
  <2>1. CASE Counts
    BY <1>1, <2>1, TakeMemScan
  <2>2. CASE ~Counts
    <3>1. memoryOperandSize' = memoryOperandSize /\ memoryOperandCount' = memoryOperandCount
      BY <1>1, <2>2 DEF TakeMemory
    <3>2. memoryOperandSize \in Widths /\ memoryOperandCount \in 0 .. i - 1
          /\ i \in 1 .. Len(Forms) + 1 /\ Len(Forms) \in Nat
      BY <1>1, Position DEF TypeOK
    <3> QED
      BY ONLY <1>1, <3>1, <3>2
  <2> QED
    BY <2>1, <2>2
<1>5. TypeOK'
  <2>1. i' \in 1 .. Len(Forms') + 1
    <3>1. i \in 1 .. Len(Forms) + 1 /\ Len(Forms) \in Nat /\ Forms' = Forms
      BY <1>1, Position
    <3> QED
      BY ONLY <1>1, <3>1
  <2> QED
    BY <1>1, <1>3, <1>4, <2>1 DEF TypeOK, input, operands
<1>6. Started'
  BY <1>1, JobNames DEF Started, operands
<1>7. job' \in ImmJobs => ImmScan'
  BY <1>1, TakeImmScan
<1>8. Counts' => MemScan'
  BY <1>1, <1>2, TakeMemScan
<1> QED
  BY <1>5, <1>6, <1>7, <1>8 DEF Met

-----------------------------------------------------------------------------
(* What the locals tell when a loop has ended.                             *)

\* The immediate that was found has a width of its own.
LEMMA FixedWidth ==
    ASSUME Met, job \in ImmJobs, fixedSize # INT_MAX
    PROVE  fixedSize \in {8, 16, 32, 64}
<1>1. fixedSize >= targetSize /\ targetSize \in {8, 16, 32, 64} /\ fixedSize \in ImmWidths
  BY DEF Met, ImmScan, Started, TypeOK
<1> QED
  BY ONLY <1>1 DEF ImmWidths

\* No width was found exactly when no form is wide enough.
LEMMA FixedTells ==
    ASSUME Met, job \in ImmJobs, i > Len(Forms)
    PROVE  /\ fixedSize = INT_MAX <=> \A k \in Hits : immWidth(Forms[k]) < targetSize
           /\ \A k \in Hits : immWidth(Forms[k]) \in ImmWidths
<1>1. /\ Hits = HitsBefore(i) /\ ImmScan /\ targetSize \in {8, 16, 32, 64}
      /\ fixedSize \in ImmWidths \union {INT_MAX}
  BY AllMet DEF Met, Started, TypeOK
<1>2. \A k \in Hits : immWidth(Forms[k]) \in ImmWidths
  BY <1>1, Position, FormWidths DEF Met
<1>3. targetSize \in Nat /\ (\A k \in Hits : immWidth(Forms[k]) \in Nat
                                              /\ ~(INT_MAX <= immWidth(Forms[k])))
  <2>1. \A n \in {8, 16, 32, 64} : n \in Nat
    OBVIOUS
  <2>2. \A w \in ImmWidths : w \in Nat /\ ~(INT_MAX <= w)
    BY WidthFacts, AboveWidths
  <2> QED
    BY ONLY <1>1, <1>2, <2>1, <2>2
<1>4. ASSUME fixedSize = INT_MAX, NEW k \in Hits
      PROVE  immWidth(Forms[k]) < targetSize
  <2>1. immWidth(Forms[k]) >= targetSize => INT_MAX <= immWidth(Forms[k])
    BY <1>1, <1>4 DEF ImmScan
  <2> QED
    BY ONLY <1>3, <1>4, <2>1
<1>5. ASSUME fixedSize # INT_MAX
      PROVE  \E k \in Hits : ~(immWidth(Forms[k]) < targetSize)
  <2>1. PICK k \in Hits : immWidth(Forms[k]) = fixedSize /\ fixedSize >= targetSize
    BY <1>1, <1>5 DEF ImmScan
  <2> QED
    BY ONLY <1>3, <2>1
<1> QED
  BY <1>2, <1>4, <1>5

\* More than one width was counted exactly when two have been met.
LEMMA CountTells ==
    ASSUME Met, job \in Loops, Counts, i > Len(Forms)
    PROVE  memoryOperandCount > 1 <=> TwoWidthsBefore(Len(Forms) + 1)
<1>1. i = Len(Forms) + 1 /\ MemScan /\ TypeOK
  BY AllMet DEF Met, Loops
<1>2. CASE job = "mem" /\ NonStandard(memoryOperandSize)
  <2>1. memoryOperandCount <= 1 /\ memoryOperandSize # 0
    BY <1>1, <1>2 DEF MemScan, NonStandard
  <2>2. memoryOperandCount \in Nat
    <3>1. \A a, b : a \in 0 .. b => a \in Nat
      OBVIOUS
    <3> QED
      BY <1>1, <3>1 DEF TypeOK
  <2>3. PICK k \in HitsBefore(i) : memWidth(Forms[k]) = memoryOperandSize
    BY <1>1, <2>1 DEF MemScan
  <2>4. ~TwoWidthsBefore(i)
    BY <1>2, <2>3 DEF TwoWidthsBefore, NonStandard
  <2> QED
    BY ONLY <1>1, <2>1, <2>2, <2>4
<1>3. CASE ~(job = "mem" /\ NonStandard(memoryOperandSize))
  <2>1. memoryOperandCount > 1 <=> TwoWidthsBefore(i)
    BY <1>1, <1>3 DEF MemScan
  <2> QED
    BY ONLY <1>1, <2>1
<1> QED
  BY <1>2, <1>3

-----------------------------------------------------------------------------
(* The steps after the loops.                                              *)

\* An immediate that was found, and memory, get what an operand may have.
LEMMA ResizedProper ==
    ASSUME TypeOK
    PROVE  /\ ResizedMemory(op0) \in Operand /\ ResizedMemory(op1) \in Operand
           /\ Counts => /\ bitsize(ResizedMemory(op0)) = memoryOperandSize
                        /\ bitsize(ResizedMemory(op1)) = memoryOperandSize
<1>1. op0 \in Operand /\ op1 \in Operand /\ memoryOperandSize \in Widths
  BY DEF TypeOK
<1> QED
  BY ONLY <1>1, WithWidthBits DEF ResizedMemory

\* An immediate beside memory gets the width that was found.
LEMMA FixedProper ==
    ASSUME Met, job \in ImmJobs, fixedSize # INT_MAX
    PROVE  WithWidth(op1, fixedSize) \in Operand /\ bitsize(WithWidth(op1, fixedSize)) = fixedSize
<1>1. fixedSize \in Widths /\ op1 \in Operand
  BY FixedWidth, WidthFacts DEF Met, TypeOK, ImmWidths
<1> QED
  BY ONLY <1>1, WithWidthBits

\* An immediate alone or beside a register gets the width that was found or a
\* wider one.
LEMMA AdjustedProper ==
    ASSUME Met, job \in ImmJobs, fixedSize # INT_MAX, NEW op \in Operand
    PROVE  LET bits == ResizeOperandImmediate(op, fixedSize, largestSize)
           IN  /\ WithImmediate(op, bits) \in Operand /\ bitsize(WithImmediate(op, bits)) = bits
               /\ fixedSize <= bits /\ (bits <= largestSize \/ bits = fixedSize)
<1>1. fixedSize \in {8, 16, 32, 64} /\ largestSize \in ImmWidths
  BY FixedWidth DEF Met, TypeOK
<1>2. /\ ResizeOperandImmediate(op, fixedSize, largestSize) \in {8, 16, 32, 64}
      /\ fixedSize <= ResizeOperandImmediate(op, fixedSize, largestSize)
      /\ \/ ResizeOperandImmediate(op, fixedSize, largestSize) <= largestSize
         \/ ResizeOperandImmediate(op, fixedSize, largestSize) = fixedSize
  BY ONLY <1>1, AdjustmentBounded
<1> QED
  BY <1>2, WithImmediateBits

\* The steps that end a call after a loop.
LEMMA FinishStep ==
    ASSUME Met, Ambiguous \/ TooLarge \/ ResizeImmediate \/ ResizeMemory \/ ResizeBoth
    PROVE  Met'
<1>1. op0 \in Operand /\ op1 \in Operand /\ TypeOK /\ error \in TypedError
  BY DEF Met, TypeOK, TypedError
<1>2. /\ job' = "done" /\ UNCHANGED <<input, OperandCount, Forms, targetSize, locals>>
      /\ result' \in {"true", "false"} /\ error' \in TypedError
  BY <1>1 DEF Ambiguous, TooLarge, ResizeImmediate, ResizeMemory, ResizeBoth, Return,
              TypedError, operands
<1>3. op0' \in Operand /\ op1' \in Operand
  <2>1. CASE Ambiguous
    BY <1>1, <2>1 DEF Ambiguous, operands
  <2>2. CASE TooLarge \/ ResizeMemory
    BY <1>1, <2>2, ResizedProper DEF TooLarge, ResizeMemory
  <2>3. CASE ResizeImmediate
    <3>1. job \in ImmJobs /\ fixedSize # INT_MAX
      BY <2>3 DEF ResizeImmediate, Scanned, ImmJobs
    <3>2. /\ WithImmediate(op0, ResizeOperandImmediate(op0, fixedSize, largestSize)) \in Operand
          /\ WithImmediate(op1, ResizeOperandImmediate(op1, fixedSize, largestSize)) \in Operand
      BY <1>1, <3>1, AdjustedProper
    <3> QED
      BY <1>1, <2>3, <3>2 DEF ResizeImmediate
  <2>4. CASE ResizeBoth
    <3>1. job \in ImmJobs /\ fixedSize # INT_MAX
      BY <2>4 DEF ResizeBoth, Scanned, ImmJobs
    <3> QED
      BY <1>1, <2>4, <3>1, ResizedProper, FixedProper DEF ResizeBoth
  <2> QED
    BY <2>1, <2>2, <2>3, <2>4
<1> QED
  BY <1>2, <1>3, AfterLoops

-----------------------------------------------------------------------------
(* The invariant.                                                          *)

\* Every step keeps it.
LEMMA StepMet == Met /\ [Next]_vars => Met'
<1> SUFFICES ASSUME Met, [Next]_vars PROVE Met'
  OBVIOUS
<1>1. CASE ValidateFpuOperands
  BY <1>1, FpuStep
<1>2. CASE \/ NoOperand \/ OneOperand \/ PassThrough \/ ImmediateFirst \/ TwoMemories
           \/ Unhandled \/ RegImm \/ RegMem \/ MemReg \/ MemImm
  BY <1>2, DispatchStep
<1>3. CASE Skip
  BY <1>3, SkipStep
<1>4. CASE Take
  BY <1>4, TakeStep
<1>5. CASE Ambiguous \/ TooLarge \/ ResizeImmediate \/ ResizeMemory \/ ResizeBoth
  BY <1>5, FinishStep
<1>6. CASE UNCHANGED vars
  <2>1. UNCHANGED <<input, operands, Forms, job, targetSize, locals, error, result>>
    BY <1>6 DEF vars
  <2>2. TypeOK' /\ Started'
    BY <2>1 DEF input, operands, locals, Met, TypeOK, Started
  <2>3. HitsBefore(i)' = HitsBefore(i)
    BY <2>1, Stable DEF HitsBefore, locals
  <2>4. ImmScan => ImmScan'
    BY <2>1, <2>3, Stable DEF ImmScan, locals
  <2>5. MemScan => MemScan'
    <3>1. TwoWidthsBefore(i)' <=> TwoWidthsBefore(i)
      BY <2>1, <2>3, Stable DEF TwoWidthsBefore, NonStandard, locals
    <3> QED
      BY <2>1, <2>3, <3>1, Stable DEF MemScan, NonStandard, locals
  <2> QED
    BY <2>1, <2>2, <2>4, <2>5, Stable DEF Met
<1> QED
  BY <1>1, <1>2, <1>3, <1>4, <1>5, <1>6 DEF Next

\* What the locals tell is kept from the start of a call.
LEMMA MetAlways == Spec => []Met
<1> QED
  BY InitMet, StepMet, PTL DEF Spec

-----------------------------------------------------------------------------
(* What a call answers.                                                    *)

\* A call that ends after a loop ends by one of these steps.
LEMMA EndingStep ==
    ASSUME [Next]_vars, Ends
    PROVE  /\ Ambiguous \/ TooLarge \/ ResizeImmediate \/ ResizeMemory \/ ResizeBoth
           /\ job \in Loops /\ i > Len(Forms)
<1>1. job \in Loops /\ job' = "done" /\ job # "done" /\ job \notin {"fpu", "dispatch"}
  BY JobNames DEF Ends, Loops
<1>2. ~UNCHANGED vars
  BY <1>1 DEF vars
<1>3. ~ValidateFpuOperands /\ ~NoOperand /\ ~OneOperand
  BY <1>1 DEF ValidateFpuOperands, NoOperand, OneOperand
<1>4. /\ ~PassThrough /\ ~ImmediateFirst /\ ~TwoMemories /\ ~Unhandled
      /\ ~RegImm /\ ~RegMem /\ ~MemReg /\ ~MemImm
  BY <1>1 DEF PassThrough, NothingToDo, TwoOperands, ImmediateFirst, TwoMemories, Unhandled,
              RegImm, RegMem, MemReg, MemImm
<1>5. ~Skip /\ ~Take
  BY <1>1 DEF Skip, Take
<1>6. Ambiguous \/ TooLarge \/ ResizeImmediate \/ ResizeMemory \/ ResizeBoth
  BY <1>2, <1>3, <1>4, <1>5 DEF Next
<1> QED
  BY <1>1, <1>6 DEF Ambiguous, TooLarge, ResizeImmediate, ResizeMemory, ResizeBoth, Scanned

\* The two refusals and the acceptance have different texts.
LEMMA EndingTexts ==
    ASSUME Met, [Next]_vars, Ends
    PROVE  /\ Ambiguous => error' = "Ambiguous memory size" /\ result' = "false"
           /\ TooLarge => error' = "Immediate size is too large" /\ result' = "false"
           /\ ResizeImmediate \/ ResizeMemory \/ ResizeBoth =>
                 error' = "stale" /\ result' = "true"
<1>1. error = "stale"
  <2>1. job # "done"
    BY EndingStep, JobNames
  <2> QED
    BY <2>1 DEF Met, Started
<1> QED
  BY <1>1 DEF Ambiguous, TooLarge, ResizeImmediate, ResizeMemory, ResizeBoth, Return

\* Each ending has its place in the loops.
LEMMA EndingGuards ==
    ASSUME Met, [Next]_vars, Ends
    PROVE  /\ Ambiguous => Counts /\ memoryOperandCount > 1
           /\ TooLarge \/ ResizeImmediate \/ ResizeMemory \/ ResizeBoth =>
                 ~(Counts /\ memoryOperandCount > 1)
           /\ TooLarge => job \in ImmJobs /\ fixedSize = INT_MAX
           /\ ResizeImmediate => job \in {"imm", "reg,imm"} /\ fixedSize # INT_MAX
           /\ ResizeBoth => job = "mem,imm" /\ fixedSize # INT_MAX
           /\ ResizeMemory => job \in MemJobs /\ job \notin ImmJobs
<1>1. memoryOperandCount \in Nat
  <2>1. \A a, b : a \in 0 .. b => a \in Nat
    OBVIOUS
  <2> QED
    BY <2>1 DEF Met, TypeOK
<1>2. ~(memoryOperandCount <= 1 /\ memoryOperandCount > 1)
  BY ONLY <1>1
<1>3. job \in {"imm", "reg,imm"} => ~Counts
  BY DEF Counts, MemJobs
<1>4. \A j \in MemJobs : j \notin ImmJobs
  BY DEF MemJobs, ImmJobs
<1> QED
  BY <1>2, <1>3, <1>4 DEF Ambiguous, TooLarge, ResizeImmediate, ResizeMemory, ResizeBoth,
                          Scanned

\* Two widths that the running count finds differ, and it finds two that differ
\* if none of them is 0 or ends the count.
LEMMA CountedWidthsDiffer ==
    ASSUME Len(Forms) \in Nat
    PROVE  /\ TwoWidthsBefore(Len(Forms) + 1) => WidthsDiffer
           /\ WidthsDiffer /\ (\A k \in Hits : Ordinary(memWidth(Forms[k]))) =>
                  TwoWidthsBefore(Len(Forms) + 1)
<1>1. TwoWidthsBefore(Len(Forms) + 1) => WidthsDiffer
  BY DEF TwoWidthsBefore, WidthsDiffer, Hits
<1>2. ASSUME WidthsDiffer, \A k \in Hits : Ordinary(memWidth(Forms[k]))
      PROVE  TwoWidthsBefore(Len(Forms) + 1)
  <2>1. PICK j, k \in Hits : memWidth(Forms[j]) # memWidth(Forms[k])
    BY <1>2 DEF WidthsDiffer
  <2>2. memWidth(Forms[j]) # 0 /\ memWidth(Forms[k]) # 0
    BY <1>2 DEF Ordinary
  <2>3. j \in Int /\ k \in Int /\ j # k
    BY <2>1 DEF Hits, HitsBefore
  <2>4. j < k \/ k < j
    BY <2>3
  <2> QED
    BY <1>2, <2>1, <2>2, <2>4 DEF TwoWidthsBefore, Hits, Ordinary
<1> QED
  BY <1>1, <1>2

\* Memory is refused as ambiguous only if its size is not given and the forms
\* that go with the other operand differ in width; and if they do, whenever all
\* of them have a width, of at most 512 bits where memory stands alone
\* (Validator.cpp:84-117, 191-225, 243-277, 293-347).
THEOREM AmbiguityIsExact == Spec => AmbiguityExact
<1>1. ASSUME Met, [Next]_vars, Ends
      PROVE  /\ error' = "Ambiguous memory size" => Counts /\ WidthsDiffer
             /\ Counts /\ WidthsDiffer /\ (\A k \in Hits : Ordinary(memWidth(Forms[k]))) =>
                    error' = "Ambiguous memory size"
  <2>1. Counts => (memoryOperandCount > 1 <=> TwoWidthsBefore(Len(Forms) + 1))
    BY <1>1, EndingStep, CountTells
  <2>2. error' = "Ambiguous memory size" <=> Counts /\ TwoWidthsBefore(Len(Forms) + 1)
    BY <1>1, <2>1, EndingStep, EndingTexts, EndingGuards
  <2>3. Len(Forms) \in Nat
    BY <1>1, Position DEF Met
  <2> QED
    BY <2>2, <2>3, CountedWidthsDiffer
<1> QED
  BY <1>1, MetAlways, PTL DEF Spec, AmbiguityExact

\* An immediate is refused as too large exactly when the memory beside it is
\* not ambiguous and no form is wide enough (Validator.cpp:75-79, 354-358,
\* 494-498).
THEOREM TooLargeIsExact == Spec => TooLargeExact
<1>1. ASSUME Met, [Next]_vars, Ends
      PROVE  error' = "Immediate size is too large"
                  <=> /\ job \in ImmJobs
                      /\ ~(Counts /\ TwoWidthsBefore(Len(Forms) + 1))
                      /\ \A k \in Hits : immWidth(Forms[k]) < targetSize
  <2>1. Counts => (memoryOperandCount > 1 <=> TwoWidthsBefore(Len(Forms) + 1))
    BY <1>1, EndingStep, CountTells
  <2>2. job \in ImmJobs =>
           (fixedSize = INT_MAX <=> \A k \in Hits : immWidth(Forms[k]) < targetSize)
    BY <1>1, EndingStep, FixedTells
  <2>3. job \in {"imm", "reg,imm"} \/ job = "mem,imm" => job \in ImmJobs
    BY DEF ImmJobs
  <2> QED
    BY <1>1, <2>1, <2>2, <2>3, EndingStep, EndingTexts, EndingGuards
<1> QED
  BY <1>1, MetAlways, PTL DEF Spec, TooLargeExact

\* The width of an accepted immediate.
LEMMA AcceptedWidth ==
    ASSUME Met, [Next]_vars, Accepts, job \in ImmJobs
    PROVE  LET bits == bitsize(IF job = "imm" THEN op0' ELSE op1')
           IN  /\ fixedSize # INT_MAX /\ fixedSize <= bits
               /\ bits <= largestSize \/ bits = fixedSize
               /\ job = "mem,imm" => bits = fixedSize
<1>1. Ends /\ ~Ambiguous /\ ~TooLarge /\ ~ResizeMemory
  BY EndingTexts, EndingGuards DEF Accepts
<1>2. op0 \in Operand /\ op1 \in Operand
  BY DEF Met, TypeOK
<1>3. CASE ResizeImmediate
  <2>1. fixedSize # INT_MAX /\ job # "mem,imm"
    BY <1>1, <1>3, EndingGuards
  <2>2. CASE job = "imm"
    <3>1. op0' = WithImmediate(op0, ResizeOperandImmediate(op0, fixedSize, largestSize))
      BY <1>3, <2>2 DEF ResizeImmediate
    <3> QED
      BY <1>2, <2>1, <2>2, <3>1, AdjustedProper
  <2>3. CASE job # "imm"
    <3>1. op1' = WithImmediate(op1, ResizeOperandImmediate(op1, fixedSize, largestSize))
      BY <1>3, <2>3 DEF ResizeImmediate
    <3> QED
      BY <1>2, <2>1, <2>3, <3>1, AdjustedProper
  <2> QED
    BY <2>2, <2>3
<1>4. CASE ResizeBoth
  <2>1. job = "mem,imm" /\ fixedSize # INT_MAX /\ op1' = WithWidth(op1, fixedSize)
    BY <1>1, <1>4, EndingGuards DEF ResizeBoth
  <2>2. fixedSize <= fixedSize
    <3>1. \A n \in {8, 16, 32, 64} : n <= n
      OBVIOUS
    <3> QED
      BY <2>1, <3>1, FixedWidth
  <2> QED
    BY <2>1, <2>2, FixedProper
<1> QED
  BY <1>1, <1>3, <1>4, EndingStep

\* An accepted immediate has at least the width of the narrowest form that
\* holds it, at most that of the widest form, and exactly the narrowest beside
\* memory (Validator.cpp:10-35, 59-84, 334-360, 472-500).
THEOREM NarrowestFormIsTaken == Spec => NarrowestForm
<1>1. ASSUME Met, [Next]_vars, Accepts, job \in ImmJobs
      PROVE  LET bits == bitsize(IF job = "imm" THEN op0' ELSE op1')
                 wide == {k \in Hits : immWidth(Forms[k]) >= targetSize}
             IN  \E k \in wide :
                   /\ \A m \in wide : immWidth(Forms[k]) <= immWidth(Forms[m])
                   /\ immWidth(Forms[k]) <= bits
                   /\ IF job = "mem,imm" THEN bits = immWidth(Forms[k])
                      ELSE \E m \in Hits : bits <= immWidth(Forms[m])
  <2> DEFINE bits == bitsize(IF job = "imm" THEN op0' ELSE op1')
  <2>1. /\ fixedSize # INT_MAX /\ fixedSize <= bits
        /\ bits <= largestSize \/ bits = fixedSize
        /\ job = "mem,imm" => bits = fixedSize
    BY <1>1, AcceptedWidth
  <2>2. Hits = HitsBefore(i) /\ ImmScan /\ Ends
    BY <1>1, EndingStep, AllMet DEF Met, Accepts
  <2>3. PICK k \in Hits : immWidth(Forms[k]) = fixedSize /\ fixedSize >= targetSize
    BY <2>1, <2>2 DEF ImmScan
  <2>4. /\ \A m \in Hits : immWidth(Forms[m]) >= targetSize => fixedSize <= immWidth(Forms[m])
        /\ largestSize # 0 => \E m \in Hits : immWidth(Forms[m]) = largestSize
    BY <2>2 DEF ImmScan
  <2> HIDE DEF bits
  <2>5. \E m \in Hits : bits <= immWidth(Forms[m])
    <3>1. fixedSize \in {8, 16, 32, 64} /\ largestSize \in ImmWidths
      BY <1>1, <2>1, FixedWidth DEF Met, TypeOK
    <3>2. CASE bits = fixedSize
      <4>1. bits <= immWidth(Forms[k])
        BY ONLY <2>3, <3>1, <3>2
      <4> QED
        BY <4>1
    <3>3. CASE bits <= largestSize /\ bits # fixedSize
      <4>1. CASE largestSize # 0
        BY <2>4, <3>3, <4>1
      <4>2. CASE largestSize = 0
        <5>1. job = "mem,imm"
          <6>1. job # "mem,imm" => fixedSize <= largestSize
            BY <2>2, <2>3 DEF ImmScan
          <6>2. ~(fixedSize <= 0)
            BY ONLY <3>1
          <6> QED
            BY <4>2, <6>1, <6>2
        <5> QED
          BY <2>1, <3>3, <5>1
      <4> QED
        BY <4>1, <4>2
    <3> QED
      BY <2>1, <3>2, <3>3
  <2> QED
    BY <2>1, <2>3, <2>4, <2>5 DEF bits
<1> QED
  BY <1>1, MetAlways, PTL DEF Spec, NarrowestForm

\* Accepted memory without a size has the width of a form, or none if no form
\* has memory there; memory with a size keeps it (Validator.cpp:87-114,
\* 305-332, 348-351, 418-450).
THEOREM MemoryHasAWidthOfAForm == Spec => MemoryWidthOfAForm
<1>1. ASSUME Met, [Next]_vars, Accepts, job \in MemJobs \union {"mem,imm"}
      PROVE  LET before == IF job = "reg,mem" THEN op1 ELSE op0
                 bits   == bitsize(IF job = "reg,mem" THEN op1' ELSE op0')
             IN  IF Counts THEN \/ Hits = {} /\ bits = 0
                                \/ \E k \in Hits : bits = memWidth(Forms[k])
                 ELSE bits = bitsize(before)
  <2> DEFINE before == IF job = "reg,mem" THEN op1 ELSE op0
             after  == IF job = "reg,mem" THEN op1' ELSE op0'
  <2>1. Ends /\ TypeOK /\ (ResizeMemory \/ ResizeBoth)
    <3>1. Ends /\ ~Ambiguous /\ ~TooLarge /\ ~ResizeImmediate
      <4>1. job \notin {"imm", "reg,imm"}
        BY <1>1 DEF MemJobs
      <4> QED
        BY <1>1, <4>1, EndingTexts, EndingGuards DEF Accepts
    <3> QED
      BY <1>1, <3>1, EndingStep DEF Met
  <2>2. after = ResizedMemory(before)
    <3>1. ResizeBoth => job = "mem,imm"
      BY DEF ResizeBoth, Scanned
    <3> QED
      BY <2>1, <3>1 DEF ResizeMemory, ResizeBoth
  <2>3. CASE ~Counts
    BY <2>2, <2>3 DEF ResizedMemory
  <2>4. CASE Counts
    <3>1. TypeOK /\ Ends
      BY <1>1 DEF Met, Accepts
    <3>2. bitsize(after) = memoryOperandSize
      BY <2>2, <2>4, <3>1, ResizedProper
    <3>3. Hits = HitsBefore(i) /\ MemScan
      BY <1>1, <2>4, <3>1, EndingStep, AllMet DEF Met, Loops
    <3>4. CASE memoryOperandSize # 0
      BY <2>4, <3>2, <3>3, <3>4 DEF MemScan
    <3>5. CASE memoryOperandSize = 0
      <4>1. \A k \in Hits : memWidth(Forms[k]) <= 0 /\ memWidth(Forms[k]) \in Nat
        <5>1. \A k \in Hits : k \in 1 .. Len(Forms)
          BY <3>1, <3>3, Position
        <5>2. \A k \in Hits : memWidth(Forms[k]) \in Widths
          BY <3>1, <5>1, FormWidths
        <5> QED
          BY <3>3, <3>5, <5>2, WidthFacts DEF MemScan
      <4>2. \A k \in Hits : memWidth(Forms[k]) = 0
        BY ONLY <4>1
      <4> QED
        BY <2>4, <3>2, <3>5, <4>2
    <3> QED
      BY <3>4, <3>5
  <2> QED
    BY <2>3, <2>4
<1> QED
  BY <1>1, MetAlways, PTL DEF Spec, MemoryWidthOfAForm

\* In a row whose immediates are never wider than the register beside them, an
\* accepted immediate is not wider than its register (Validator.cpp:472-500).
THEOREM NotWiderThanItsRegister == Spec => NotWiderThanRegister
<1>1. ASSUME Met, [Next]_vars, Accepts, job = "reg,imm",
             \A k \in 1 .. Len(Forms), e \in 0 .. 3 :
                Forms[k].op0.kind = "reg" /\ Forms[k].op1.kind = "imm" =>
                    Forms[k].op1.width[e] <= Forms[k].op0.width[e]
      PROVE  bitsize(op1') <= OpsizeToBits(op0.Size)
  <2>1. job \in ImmJobs /\ job # "mem,imm" /\ job # "imm"
    BY <1>1 DEF ImmJobs
  <2>2. /\ fixedSize # INT_MAX
        /\ bitsize(op1') <= largestSize \/ bitsize(op1') = fixedSize
    BY <1>1, <2>1, AcceptedWidth
  <2>3. /\ Hits = HitsBefore(i) /\ ImmScan /\ TypeOK
        /\ op1.XedEOSZ = op0.XedEOSZ /\ op0.XedEOSZ \in 0 .. 3
    BY <1>1, <2>1, EndingStep, AllMet DEF Met, Accepts, Started, TypeOK, Operand
  <2>4. ASSUME NEW k \in Hits
        PROVE  immWidth(Forms[k]) <= OpsizeToBits(op0.Size)
    <3>1. k \in 1 .. Len(Forms) /\ Matches(Forms[k])
      BY <2>3, Position
    <3>2. /\ Forms[k].op0.kind = "reg" /\ Forms[k].op1.kind = "imm"
          /\ Forms[k].op0.width[op0.XedEOSZ] = OpsizeToBits(op0.Size)
      BY <1>1, <3>1 DEF Matches, IsRegisterOf
    <3>3. immWidth(Forms[k]) = Forms[k].op1.width[op0.XedEOSZ]
      BY <2>1, <2>3 DEF immWidth
    <3> QED
      BY <1>1, <2>3, <3>1, <3>2, <3>3
  <2>5. PICK k \in Hits : immWidth(Forms[k]) = fixedSize /\ fixedSize >= targetSize
    BY <2>2, <2>3 DEF ImmScan
  <2>6. fixedSize <= OpsizeToBits(op0.Size)
    BY <2>4, <2>5
  <2>7. largestSize # 0
    <3>1. fixedSize <= largestSize /\ fixedSize \in {8, 16, 32, 64}
      <4>1. fixedSize <= largestSize
        <5>1. immWidth(Forms[k]) <= largestSize
          BY <2>1, <2>3 DEF ImmScan
        <5> QED
          BY <2>5, <5>1
      <4> QED
        BY <1>1, <2>1, <2>2, <4>1, FixedWidth
    <3> QED
      BY ONLY <3>1
  <2>8. PICK m \in Hits : immWidth(Forms[m]) = largestSize
    BY <2>3, <2>7 DEF ImmScan
  <2>9. largestSize <= OpsizeToBits(op0.Size) /\ largestSize \in Nat
        /\ OpsizeToBits(op0.Size) \in Nat /\ fixedSize \in Nat
    <3>1. largestSize \in ImmWidths /\ fixedSize \in {8, 16, 32, 64}
      BY <1>1, <2>1, <2>2, <2>3, FixedWidth DEF TypeOK
    <3>2. OpsizeToBits(op0.Size) \in 0 .. 512
      BY OpsizeBits
    <3>3. largestSize <= OpsizeToBits(op0.Size)
      BY <2>4, <2>8
    <3>4. \A n : n \in 0 .. 512 \/ n \in {8, 16, 32, 64} => n \in Nat
      OBVIOUS
    <3> QED
      BY ONLY <3>1, <3>2, <3>3, <3>4, WidthFacts
  <2>10. CASE bitsize(op1') = fixedSize
    BY <2>6, <2>10
  <2>11. CASE bitsize(op1') <= largestSize
    <3>1. bitsize(op1') \in Nat
      <4>1. op1' \in Operand
        BY <1>1, StepMet DEF Met, TypeOK
      <4>2. \A n : n \in 0 .. 512 => n \in Nat
        OBVIOUS
      <4> QED
        BY <4>1, <4>2, OpsizeBits DEF bitsize, Operand
    <3> QED
      BY ONLY <2>9, <2>11, <3>1
  <2> QED
    BY <2>2, <2>10, <2>11
<1> QED
  BY <1>1, MetAlways, PTL DEF Spec, NotWiderThanRegister

-----------------------------------------------------------------------------
(* An immediate is looked for by the size of its value.                    *)

\* Blank, a register, memory and a selector are no immediates, and an immediate
\* is made with the size of its value.
LEMMA ParsedSized ==
    ASSUME NEW is64 \in BOOLEAN, NEW op \in Parsed[is64] \union {Blank}, op.Type = "IMM"
    PROVE  op.Size = OpsizeFromValue(is64, op.imm) /\ op.imm \in Unsigned64
<1>1. \A size \in Sizes : Register(size).Type = "REG"
  BY RegisterProper
<1>2. \A size, eosz : Memory(size, eosz).Type = "MEM"
  BY DEF Memory, Blank
<1>3. Selector(is64).Type = "SEGSEL" /\ Blank.Type = "INVALID"
  BY DEF Selector, Blank
<1>4. PICK negative \in BOOLEAN, v \in Values : op = Immediate(is64, negative, v)
  BY <1>1, <1>2, <1>3 DEF Parsed, Sizes
<1>5. /\ Immediate(is64, negative, v).Size = OpsizeFromValue(is64, v)
      /\ Immediate(is64, negative, v).imm = v
  BY DEF Immediate, Blank
<1> QED
  BY <1>4, <1>5, ResizeAssumption

\* A call starts with operands of that kind.
LEMMA InitSized == Init => SizedByValue
<1> SUFFICES ASSUME Init, Class # "branch" PROVE SizedByValue
  BY DEF SizedByValue
<1>1. /\ x64 \in BOOLEAN /\ job = "fpu"
      /\ op0 \in Parsed[x64] \union {Blank} /\ op1 \in Parsed[x64] \union {Blank}
  BY DEF Init
<1>2. HasSizeOfValue(op0) /\ HasSizeOfValue(op1)
  BY <1>1, ParsedSized DEF HasSizeOfValue
<1> QED
  BY <1>1, <1>2 DEF SizedByValue, ImmJobs

\* The operands as ValidateInstOperands looks at them have it too.
LEMMA OperandsSized ==
    ASSUME Met, job \in {"fpu", "dispatch"}, HasSizeOfValue(op0), HasSizeOfValue(op1)
    PROVE  /\ HasSizeOfValue(first) /\ HasSizeOfValue(second)
           /\ Sized(second, first).imm = second.imm
<1>1. op0 \in Operand /\ op1 \in Operand /\ first \in Operand /\ second \in Operand
  BY OperandsProper DEF Proper
<1>2. HasSizeOfValue(Unsegmented(op1))
  BY <1>1 DEF Unsegmented, HasSizeOfValue, Operand
<1>3. HasSizeOfValue(first) /\ HasSizeOfValue(second)
  BY <1>2 DEF first, second
<1> QED
  BY <1>1, <1>3 DEF Sized, Operand

\* Every step keeps it.
LEMMA StepSized ==
    ASSUME Met, SizedByValue, [Next]_vars
    PROVE  SizedByValue'
<1> SUFFICES ASSUME Class' # "branch"
             PROVE  /\ job' \in {"fpu", "dispatch"} => HasSizeOfValue(op0)' /\ HasSizeOfValue(op1)'
                    /\ job' \in ImmJobs =>
                          /\ immediate.imm' \in Unsigned64
                          /\ targetSize' = OpsizeToBits(OpsizeFromValue(x64', immediate.imm'))
  BY DEF SizedByValue, ImmJobs
<1>1. x64' = x64 /\ Class' = Class
  BY DEF Next, ValidateFpuOperands, NoOperand, OneOperand, PassThrough, NothingToDo, TwoOperands,
         ImmediateFirst, TwoMemories, Unhandled, RegImm, RegMem, MemReg, MemImm, Skip, Take,
         Ambiguous, TooLarge, ResizeImmediate, ResizeMemory, ResizeBoth, vars, input
<1>2. /\ job \in {"fpu", "dispatch"} => HasSizeOfValue(op0) /\ HasSizeOfValue(op1)
      /\ job \in ImmJobs => /\ immediate.imm \in Unsigned64
                            /\ targetSize = OpsizeToBits(OpsizeFromValue(x64, immediate.imm))
  BY <1>1 DEF SizedByValue
<1>3. CASE UNCHANGED <<input, operands, job, targetSize>>
  BY <1>2, <1>3 DEF HasSizeOfValue, immediate, input, operands
<1>4. CASE job' = "done"
  BY <1>4 DEF ImmJobs
<1>5. CASE job' \in MemJobs
  BY <1>5 DEF MemJobs, ImmJobs
<1>6. CASE ValidateFpuOperands
  <2>1. Register("TBYTE").Type = "REG"
    BY RegisterProper DEF Sizes
  <2>2. job = "fpu" /\ job' = "dispatch"
        /\ (op0' = op0 \/ op0' = Register("TBYTE")) /\ (op1' = op1 \/ op1' = Register("TBYTE"))
    BY <1>6 DEF ValidateFpuOperands, operands
  <2>3. HasSizeOfValue(op0)' /\ HasSizeOfValue(op1)'
    BY <1>1, <1>2, <2>1, <2>2 DEF HasSizeOfValue
  <2> QED
    BY <2>2, <2>3 DEF ImmJobs
<1>7. ASSUME job = "dispatch", NEW which \in ImmJobs, NEW op, HasSizeOfValue(op), op.Type = "IMM",
             Begin(which, op.Size), immediate.imm' = op.imm
      PROVE  /\ immediate.imm' \in Unsigned64
             /\ targetSize' = OpsizeToBits(OpsizeFromValue(x64', immediate.imm'))
             /\ job' \notin {"fpu", "dispatch"}
  BY <1>1, <1>7 DEF HasSizeOfValue, Begin, ImmJobs
<1>8. CASE OneOperand /\ job' = "imm"
  <2>1. job = "dispatch" /\ op0.Type = "IMM" /\ Begin("imm", op0.Size) /\ op0' = op0
    BY <1>8 DEF OneOperand, SingleOperand, Return, Begin, operands
  <2>2. immediate.imm' = op0.imm
    BY <1>8, <2>1 DEF immediate
  <2> QED
    BY <1>2, <1>7, <2>1, <2>2, JobNames
<1>9. CASE ImmediateFirst /\ job' = "imm"
  <2>1. job = "dispatch" /\ first.Type = "IMM" /\ Begin("imm", first.Size) /\ op0' = first
    BY <1>9 DEF ImmediateFirst, TwoOperands, Return, Begin
  <2>2. immediate.imm' = first.imm
    BY <1>9, <2>1 DEF immediate
  <2> QED
    BY <1>2, <1>7, <2>1, <2>2, JobNames, OperandsSized
<1>10. CASE RegImm \/ MemImm
  <2>1. PICK which \in {"reg,imm", "mem,imm"} :
           /\ job = "dispatch" /\ second.Type = "IMM" /\ Begin(which, second.Size)
           /\ op1' = Sized(second, first)
    BY <1>10 DEF RegImm, MemImm, TwoOperands
  <2>2. job' # "imm" /\ which \in ImmJobs
    BY <2>1 DEF Begin, ImmJobs
  <2>3. immediate.imm' = second.imm
    BY <1>2, <2>1, <2>2, OperandsSized DEF immediate
  <2> QED
    BY <1>2, <1>7, <2>1, <2>2, <2>3, OperandsSized
<1>11. CASE \/ NoOperand \/ PassThrough \/ TwoMemories \/ Unhandled \/ Ambiguous \/ TooLarge
            \/ ResizeImmediate \/ ResizeMemory \/ ResizeBoth
  BY <1>4, <1>11 DEF NoOperand, PassThrough, TwoMemories, Unhandled, Ambiguous, TooLarge,
                     ResizeImmediate, ResizeMemory, ResizeBoth, Return
<1>12. CASE RegMem \/ MemReg
  BY <1>5, <1>12 DEF RegMem, MemReg, Begin, MemJobs
<1>13. CASE Skip \/ Take
  BY <1>3, <1>13 DEF Skip, Take
<1>14. CASE OneOperand /\ job' # "imm"
  <2>1. job' = "done" \/ job' \in MemJobs
    BY <1>14 DEF OneOperand, SingleOperand, Return, Begin, MemJobs
  <2> QED
    BY <1>4, <1>5, <2>1
<1>15. CASE ImmediateFirst /\ job' # "imm"
  BY <1>4, <1>15 DEF ImmediateFirst, Return, Begin
<1>16. CASE UNCHANGED vars
  BY <1>3, <1>16 DEF vars
<1> QED
  BY <1>6, <1>8, <1>9, <1>10, <1>11, <1>12, <1>13, <1>14, <1>15, <1>16 DEF Next

\* At every form of every row, the locals of ValidateInstOperands tell exactly
\* what the forms before it say (Validator.cpp:59-111, 148-175, 294-360), and
\* an immediate is looked for by the size of its value (Operand.cpp:229-256).
THEOREM Invariance == Spec => []IInv
<1>1. Init => IInv
  BY InitMet, InitSized DEF IInv
<1>2. IInv /\ [Next]_vars => IInv'
  BY StepMet, StepSized DEF IInv
<1> QED
  BY <1>1, <1>2, PTL DEF Spec

\* The operands, sizes and widths of a call are always those the code can have.
THEOREM TypeCorrect == Spec => []TypeOK
<1>1. IInv => TypeOK
  BY DEF IInv, Met
<1> QED
  BY <1>1, Invariance, PTL

\* What is accepted is the value that was looked for, in a width no narrower
\* than its size.
LEMMA AcceptedValue ==
    ASSUME IInv, [Next]_vars, Accepts, job \in ImmJobs
    PROVE  /\ AcceptedImm[1] = immediate.imm
           /\ AcceptedImm[2] \in {8, 16, 32, 64} /\ targetSize <= AcceptedImm[2]
           /\ job \in {"imm", "reg,imm"} =>
                 AcceptedImm[2] = ResizeOperandImmediate(immediate, fixedSize, largestSize)
<1> DEFINE after == IF job = "imm" THEN op0' ELSE op1'
           adjusted == ResizeOperandImmediate(immediate, fixedSize, largestSize)
<1>1. Met /\ Ends /\ ~Ambiguous /\ ~TooLarge /\ ~ResizeMemory
  BY EndingTexts, EndingGuards DEF Accepts, IInv
<1>2. op0 \in Operand /\ op1 \in Operand /\ immediate \in Operand
  BY DEF IInv, Met, TypeOK, immediate
<1>3. /\ fixedSize # INT_MAX /\ fixedSize \in {8, 16, 32, 64} /\ fixedSize >= targetSize
      /\ largestSize \in ImmWidths /\ targetSize \in {8, 16, 32, 64}
  BY <1>1, AcceptedWidth, FixedWidth DEF Met, ImmScan, TypeOK, Started
<1>4. AcceptedImm = <<after.imm, bitsize(after)>>
  BY DEF AcceptedImm, ImmOf
<1>5. /\ adjusted \in {8, 16, 32, 64} /\ fixedSize <= adjusted
  BY <1>3, AdjustmentBounded
<1>6. CASE ResizeImmediate
  <2>1. after = WithImmediate(immediate, adjusted)
    BY <1>6 DEF ResizeImmediate, immediate
  <2>2. after.imm = immediate.imm
    BY <1>2, <2>1 DEF WithImmediate, Operand
  <2>3. bitsize(after) = adjusted
    BY <1>2, <1>5, <2>1, WithImmediateBits
  <2>4. targetSize <= adjusted
    BY <1>3, <1>5
  <2> HIDE DEF after, adjusted
  <2> QED
    BY <1>4, <1>5, <2>2, <2>3, <2>4 DEF adjusted
<1>7. CASE ResizeBoth
  <2>1. job = "mem,imm" /\ after = WithWidth(immediate, fixedSize)
    BY <1>1, <1>7, EndingGuards DEF ResizeBoth, immediate
  <2>2. after.imm = immediate.imm
    BY <1>2, <2>1 DEF WithWidth, WithImmediate, Operand
  <2>3. bitsize(after) = fixedSize
    <3>1. fixedSize \in Widths
      BY <1>3, WidthFacts DEF ImmWidths
    <3> QED
      BY <1>2, <2>1, <3>1, WithWidthBits
  <2>4. job \notin {"imm", "reg,imm"}
    BY <2>1
  <2> HIDE DEF after, adjusted
  <2> QED
    BY <1>3, <1>4, <2>2, <2>3, <2>4
<1> QED
  BY <1>1, <1>6, <1>7, EndingStep

\* Whatever form is chosen, the bits that are written are the value, read with
\* a sign or without one (Operand.cpp:229-256, OpSize.cpp:79-127,
\* Validator.cpp:10-35).
THEOREM ValueIsKept == Spec => ValueKept
<1>1. ASSUME IInv, [Next]_vars, Accepts, job \in ImmJobs, Class # "branch"
      PROVE  LET v == AcceptedImm[1]
                 bits == AcceptedImm[2]
             IN  SameValue(v, SignExtended(v, bits)) \/ SameValue(v, v % Modulus(bits))
  <2>1. /\ AcceptedImm[1] = immediate.imm
        /\ AcceptedImm[2] \in {8, 16, 32, 64} /\ targetSize <= AcceptedImm[2]
    BY <1>1, AcceptedValue
  <2>2. /\ immediate.imm \in Unsigned64
        /\ targetSize = OpsizeToBits(OpsizeFromValue(x64, immediate.imm))
    BY <1>1 DEF IInv, SizedByValue
  <2> QED
    BY <2>1, <2>2, SizeHoldsValue
<1> QED
  BY <1>1, Invariance, PTL DEF Spec, ValueKept

\* A byte that was chosen over a wider form gives the value back when the
\* processor extends its sign (Validator.cpp:10-35).
THEOREM ByteSignIsKept == Spec => ByteSignKept
<1>1. ASSUME IInv, [Next]_vars, Accepts, job \in {"imm", "reg,imm"}, Class # "branch",
             AcceptedImm[2] = 8, largestSize > 8
      PROVE  SameValue(AcceptedImm[1], SignExtended(AcceptedImm[1], 8))
  <2>1. /\ AcceptedImm[1] = immediate.imm /\ immediate.imm \in Unsigned64
        /\ ResizeOperandImmediate(immediate, fixedSize, largestSize) = 8
        /\ Met /\ immediate.Signed \in BOOLEAN
    BY <1>1, AcceptedValue DEF IInv, SizedByValue, ImmJobs, Met, TypeOK, Operand, immediate
  <2>2. fixedSize = 8 /\ largestSize \in {16, 32, 64}
    <3>1. fixedSize \in {8, 16, 32, 64} /\ largestSize \in ImmWidths
      BY <1>1, <2>1, AcceptedWidth, FixedWidth DEF ImmJobs, Met, TypeOK
    <3>2. fixedSize <= 8
      BY <2>1, <3>1, AdjustmentBounded
    <3> QED
      <4>1. largestSize > 8
        BY <1>1
      <4> QED
        BY ONLY <3>1, <3>2, <4>1 DEF ImmWidths
  <2>3. ~NeedsPromotion(immediate.Signed, immediate.imm, "BYTE")
    <3> SUFFICES ASSUME NeedsPromotion(immediate.Signed, immediate.imm, "BYTE")
                 PROVE  FALSE
      OBVIOUS
    <3>1. OpsizeFromBits(8) = "BYTE" /\ OpsizeToBits("DWORD") = 32
      BY DEF OpsizeFromBits, OpsizeFromInt, OpsizeToBits
    <3>2. PromoteImmediateWidth(immediate.Signed, immediate.imm, "BYTE") = "DWORD"
      BY DEF PromoteImmediateWidth
    <3>3. 8 = MinOf(32, largestSize)
      <4>1. ~(Class = "branch" \/ fixedSize >= largestSize)
        <5>1. ~(fixedSize >= largestSize)
          BY ONLY <2>2
        <5> QED
          BY <1>1, <5>1
      <4>2. ResizeOperandImmediate(immediate, 8, largestSize) = MinOf(32, largestSize)
        BY <2>2, <3>1, <3>2, <4>1 DEF ResizeOperandImmediate
      <4> QED
        BY <2>1, <2>2, <4>2
    <3> QED
      BY <2>2, <3>3 DEF MinOf
  <2> QED
    BY <2>1, <2>3, ByteHoldsSign
<1> QED
  BY <1>1, Invariance, PTL DEF Spec, ByteSignKept

=============================================================================
