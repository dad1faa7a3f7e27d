-------------------------- MODULE OperandMemProofs --------------------------
(***************************************************************************)
(* Proofs about OperandMem, for every width of the integers, every set of  *)
(* registers and numbers and every length of the text.  The invariant says *)
(* what the flags of the operand tell about the text read so far, as long  *)
(* as the text can still be of the documented form.                        *)
(***************************************************************************)
EXTENDS OperandMem, TLAPS

(***************************************************************************)
(* Arithmetic.                                                             *)
(***************************************************************************)

LEMMA RemainderUnique ==
  ASSUME NEW a \in Int, NEW q \in Int, NEW m \in Nat \ {0}, NEW r \in 0 .. m - 1,
         a = q * m + r
  PROVE  a % m = r
  OBVIOUS

LEMMA MultipleHasNoRemainder ==
  ASSUME NEW q \in Int, NEW m \in Nat \ {0}
  PROVE  (q * m) % m = 0
  <1>1. q * m \in Int /\ q * m = q * m + 0 /\ 0 \in 0 .. m - 1
    OBVIOUS
  <1>2. QED
    BY <1>1, RemainderUnique

LEMMA Division ==
  ASSUME NEW a \in Int, NEW m \in Nat \ {0}
  PROVE  \E q \in Int : a = q * m + (a % m)
  <1>1. a \div m \in Int /\ a = m * (a \div m) + (a % m)
    OBVIOUS
  <1>2. m * (a \div m) = (a \div m) * m
    BY <1>1
  <1>3. QED
    BY <1>1, <1>2

LEMMA SumOfMultiples ==
  ASSUME NEW a \in Int, NEW b \in Int, NEW m \in Nat \ {0}, a % m = 0, b % m = 0
  PROVE  (a + b) % m = 0
  <1>1. PICK q \in Int : a = q * m + (a % m)
    BY Division
  <1>2. PICK k \in Int : b = k * m + (b % m)
    BY Division
  <1>3. q * m \in Int /\ k * m \in Int /\ (q + k) * m = q * m + k * m
    OBVIOUS
  <1>4. a = q * m /\ b = k * m
    BY <1>1, <1>2, <1>3
  <1>5. a + b = (q + k) * m
    BY <1>3, <1>4
  <1>6. QED
    BY <1>5, MultipleHasNoRemainder

LEMMA ProductOfFactors ==
  ASSUME NEW a \in Int, NEW b \in Int, NEW c \in Int
  PROVE  /\ a * b \in Int /\ (a * b) * c = a * (b * c)
         /\ a * (2 * b) = 2 * (a * b) /\ (-a) * b = -(a * b)
  OBVIOUS

\* The halves of the widths, as numbers.
LEMMA Halves ==
  /\ ByteHalf \in Int /\ DwordHalf \in Int /\ QwordHalf \in Int
  /\ 1 < ByteHalf /\ ByteHalf < DwordHalf /\ 2 * DwordHalf <= QwordHalf
  /\ 2 * DwordHalf \in Nat \ {0} /\ 2 * QwordHalf \in Nat \ {0}
  BY MemAssumption

\* Every width divides the widest.
LEMMA HalvesDivide ==
  ASSUME NEW half \in {ByteHalf, DwordHalf, QwordHalf}
  PROVE  \E k \in Int : 2 * QwordHalf = k * (2 * half)
  <1>1. PICK b \in Int, d \in Int : DwordHalf = b * ByteHalf /\ QwordHalf = d * DwordHalf
    <2>1. \E b \in 1 .. DwordHalf : DwordHalf = b * ByteHalf
      BY MemAssumption
    <2>2. \E d \in 1 .. QwordHalf : QwordHalf = d * DwordHalf
      BY MemAssumption
    <2>3. QED
      BY <2>1, <2>2
  <1>2. CASE half = ByteHalf
    <2>1. QwordHalf = (d * b) * ByteHalf /\ d * b \in Int
      BY <1>1, Halves, ProductOfFactors
    <2>2. 2 * QwordHalf = (d * b) * (2 * ByteHalf)
      BY <2>1, Halves, ProductOfFactors
    <2>3. QED
      BY <1>2, <2>1, <2>2
  <1>3. CASE half = DwordHalf
    <2>1. 2 * QwordHalf = d * (2 * DwordHalf)
      BY <1>1, Halves, ProductOfFactors
    <2>2. QED
      BY <1>3, <2>1
  <1>4. CASE half = QwordHalf
    <2>1. 2 * QwordHalf = 1 * (2 * QwordHalf)
      BY Halves
    <2>2. QED
      BY <1>4, <2>1
  <1>5. QED
    BY <1>2, <1>3, <1>4

\* What is 0 in 64 bits is 0 in 32.
LEMMA LowBitsOfMultiple ==
  ASSUME NEW a \in Int, a % (2 * QwordHalf) = 0
  PROVE  a % (2 * DwordHalf) = 0
  <1>1. PICK q \in Int : a = q * (2 * QwordHalf) + (a % (2 * QwordHalf))
    BY Halves, Division
  <1>2. PICK k \in Int : 2 * QwordHalf = k * (2 * DwordHalf)
    BY HalvesDivide
  <1>3. 2 * QwordHalf \in Int /\ q * (2 * QwordHalf) \in Int
    BY Halves
  <1>4. a = q * (2 * QwordHalf)
    BY <1>1, <1>3
  <1>5. q * k \in Int /\ a = (q * k) * (2 * DwordHalf)
    BY <1>2, <1>4, Halves, ProductOfFactors
  <1>6. QED
    BY <1>5, Halves, MultipleHasNoRemainder

\* A 64-bit value that is one of the numbers around 0 of a width.
Near(v, half) == v < half \/ v >= 2 * QwordHalf - half

Extended(v, half) == ((v + half) % (2 * half)) - half

\* Sign extension makes of such a value the number it stands for.
LEMMA ExtendsNear ==
  ASSUME NEW v \in UInt64, NEW half \in {ByteHalf, DwordHalf, QwordHalf}, Near(v, half)
  PROVE  Extended(v, half) \in {v, v - 2 * QwordHalf}
  <1>1. half \in Int /\ 0 < half /\ half <= QwordHalf /\ QwordHalf \in Int
        /\ 2 * half \in Nat \ {0}
    BY Halves
  <1>2. v \in Int /\ 0 <= v /\ v < 2 * QwordHalf
    BY Halves DEF UInt64
  <1>3. CASE v < half
    <2>1. v + half \in Int /\ v + half \in 0 .. 2 * half - 1
      BY <1>1, <1>2, <1>3
    <2>2. v + half = 0 * (2 * half) + (v + half)
      BY <1>1, <1>2
    <2>3. (v + half) % (2 * half) = v + half
      BY <1>1, <2>1, <2>2, RemainderUnique
    <2>4. QED
      BY <1>1, <1>2, <2>3 DEF Extended
  <1>4. CASE v >= 2 * QwordHalf - half
    <2>1. PICK k \in Int : 2 * QwordHalf = k * (2 * half)
      BY HalvesDivide
    <2>2. v + half \in Int /\ v + half - 2 * QwordHalf \in 0 .. 2 * half - 1
      BY <1>1, <1>2, <1>4
    <2>3. v + half = k * (2 * half) + (v + half - 2 * QwordHalf)
      BY <1>1, <1>2, <2>1
    <2>4. (v + half) % (2 * half) = v + half - 2 * QwordHalf
      BY <1>1, <2>2, <2>3, RemainderUnique
    <2>5. QED
      BY <1>1, <1>2, <2>4 DEF Extended
  <1>5. QED
    BY <1>3, <1>4 DEF Near

\* In an address space of 64 or of 32 bits that is the value itself.
LEMMA NearIsSame ==
  ASSUME NEW v \in UInt64, NEW half \in {ByteHalf, DwordHalf, QwordHalf}, Near(v, half),
         NEW space \in {2 * DwordHalf, 2 * QwordHalf}
  PROVE  (Extended(v, half) - v) % space = 0
  <1>1. space \in Nat \ {0} /\ QwordHalf \in Int /\ v \in Int
    BY Halves DEF UInt64
  <1>2. PICK k \in Int : 2 * QwordHalf = k * space
    BY HalvesDivide
  <1>3. Extended(v, half) - v \in {0 * space, (-k) * space}
    BY <1>1, <1>2, ExtendsNear, ProductOfFactors
  <1>4. QED
    BY <1>1, <1>3, MultipleHasNoRemainder

\* In an address space of 32 bits, 32 bits are the value whatever it is.
LEMMA DwordIsSame ==
  ASSUME NEW v \in UInt64
  PROVE  (Extended(v, DwordHalf) - v) % (2 * DwordHalf) = 0
  <1>1. DwordHalf \in Int /\ v \in Int /\ v + DwordHalf \in Int /\ 2 * DwordHalf \in Nat \ {0}
    BY Halves DEF UInt64
  <1>2. PICK q \in Int : v + DwordHalf = q * (2 * DwordHalf) + ((v + DwordHalf) % (2 * DwordHalf))
    BY <1>1, Division
  <1>3. (v + DwordHalf) % (2 * DwordHalf) \in Int /\ q * (2 * DwordHalf) \in Int
    BY <1>1
  <1>. DEFINE m == 2 * DwordHalf
              r == (v + DwordHalf) % m
              p == q * m
  <1>4. Extended(v, DwordHalf) - v = -(q * (2 * DwordHalf))
    <2>1. Extended(v, DwordHalf) = r - DwordHalf
      BY DEF Extended
    <2>2. r \in Int /\ p \in Int /\ v + DwordHalf = p + r
      BY <1>2, <1>3
    <2>. HIDE DEF r, p
    <2>3. Extended(v, DwordHalf) - v = -p
      BY <1>1, <2>1, <2>2
    <2>4. QED
      BY <2>3 DEF p
  <1>5. Extended(v, DwordHalf) - v = (-q) * (2 * DwordHalf)
    BY <1>1, <1>4, ProductOfFactors
  <1>6. QED
    BY <1>1, <1>5, MultipleHasNoRemainder

HalfOf(w) == IF w = "BYTE" THEN ByteHalf ELSE IF w = "DWORD" THEN DwordHalf ELSE QwordHalf

LEMMA ExtendedInt ==
  ASSUME NEW v \in UInt64, NEW half \in {ByteHalf, DwordHalf, QwordHalf}
  PROVE  Extended(v, half) \in Int /\ Extended(v, half) - v \in Int
  <1>1. v + half \in Int /\ half \in Int /\ v \in Int /\ 2 * half \in Nat \ {0}
    BY Halves DEF UInt64
  <1>2. (v + half) % (2 * half) \in Int
    BY <1>1
  <1>3. QED
    BY <1>1, <1>2 DEF Extended

LEMMA SignExtendedIs == \A v, w : SignExtended(v, w) = Extended(v, HalfOf(w))
  BY DEF SignExtended, Extended, HalfOf

(***************************************************************************)
(* The width of a displacement.                                            *)
(***************************************************************************)

\* Eight bits hold the value with its sign.  Of 32 bits, the values from 2^31
\* on are the ones the shift of PromoteImmediateWidth lets through.
Holds(v, w) == /\ w \in {"BYTE", "DWORD", "QWORD"}
               /\ w = "BYTE" => Near(v, ByteHalf)
               /\ w = "DWORD" => v < 2 * DwordHalf \/ v >= 2 * QwordHalf - DwordHalf

LEMMA DispWidthHolds ==
  ASSUME NEW v \in UInt64, NEW sign \in BOOLEAN
  PROVE  Holds(v, DispWidthOf(sign, v))
  <1>1. v \in Int /\ 0 <= v /\ v < 2 * QwordHalf
    BY Halves DEF UInt64
  <1>2. CASE sign
    <2>1. DispWidthOf(sign, v) = PromoteImmediateWidth(TRUE, v, ShortestSigned(v))
      BY <1>2 DEF DispWidthOf
    <2>2. minhalf("BYTE") = 2 * QwordHalf - ByteHalf /\ minhalf("DWORD") = DwordHalf
          /\ minhalf("QWORD") = DwordHalf
      BY Halves DEF minhalf, maxhalf, Negate
    <2>3. ShortestSigned(v) \in {"BYTE", "DWORD", "QWORD"}
      BY DEF ShortestSigned
    <2>4. ShortestSigned(v) = "BYTE" => v < ByteHalf \/ v >= 2 * QwordHalf - ByteHalf
      BY <1>1, Halves DEF ShortestSigned, ToSigned
    <2>5. ShortestSigned(v) = "DWORD" => v < DwordHalf \/ v >= 2 * QwordHalf - DwordHalf
      BY <1>1, Halves DEF ShortestSigned, ToSigned
    <2>6. QED
      BY <1>1, <2>1, <2>2, <2>3, <2>4, <2>5, Halves DEF PromoteImmediateWidth, Holds, Near
  <1>3. CASE ~sign
    <2>1. DispWidthOf(sign, v) = PromoteImmediateWidth(FALSE, v, ShortestUnsigned(v))
      BY <1>3 DEF DispWidthOf
    <2>2. maxhalf("BYTE") = ByteHalf /\ maxhalf("DWORD") = 2 * QwordHalf - DwordHalf
      BY DEF maxhalf
    <2>3. QED
      BY <1>1, <2>1, <2>2, Halves DEF PromoteImmediateWidth, ShortestUnsigned, Holds, Near
  <1>4. QED
    BY <1>2, <1>3

(***************************************************************************)
(* Reading one piece.                                                      *)
(***************************************************************************)

LEMMA PieceFacts ==
  ASSUME NEW p \in Pieces
  PROVE  /\ p.kind \in {"reg", "num", "name", "empty", "other"}
         /\ p.kind = "reg" => p.reg \in Regs /\ p.reg # "INVALID"
         /\ p.val \in UInt64
         /\ Value(p) \in UInt64
         /\ Empty \in Pieces
  <1>1. 0 \in UInt64 /\ Values \subseteq UInt64 /\ "INVALID" \notin Regs
    BY MemAssumption DEF UInt64
  <1>2. p.val \in UInt64
    BY <1>1 DEF Pieces, Piece, Empty, Other
  <1>3. Value(p) \in UInt64
    BY <1>2, Halves DEF Value, Negate, UInt64
  <1>4. QED
    BY <1>1, <1>2, <1>3 DEF Pieces, Piece, Empty, Other

\* What a piece means, in each of the cases of Meaning.
LEMMA MeaningCases ==
  ASSUME NEW p \in Pieces, NEW next \in Operators
  PROVE  /\ Alone(next) /\ IsReg(p) => Meaning(p, next) = WithRegister(p.reg)
         /\ Alone(next) /\ (IsNum(p) \/ (IsName(p) /\ ~Negative))
                => Meaning(p, next) = WithConstant(Value(p))
         /\ Opens(next) /\ (IsReg(p) \/ (IsNum(p) /\ ~Negative)) => Meaning(p, next) = meant
         /\ Closes(next) /\ IsReg(p) => Meaning(p, next) = IF pending.kind = "num"
                                             THEN WithProduct(p.reg, pending.val) ELSE NoSum
         /\ Closes(next) /\ IsNum(p) => Meaning(p, next) = IF pending.kind = "reg"
                                             THEN WithProduct(pending.reg, p.val) ELSE NoSum
         /\ ~IsReg(p) /\ ~IsNum(p) /\ ~(Alone(next) /\ IsName(p) /\ ~Negative)
                => Meaning(p, next) \in IF Alone(next) THEN {meant, NoSum} ELSE {NoSum}
         /\ ~Alone(next) /\ ~Opens(next) /\ ~Closes(next) => Meaning(p, next) = NoSum
         /\ Opens(next) /\ Negative /\ IsNum(p) => Meaning(p, next) = NoSum
         /\ Alone(next) /\ Negative /\ IsName(p) => Meaning(p, next) = NoSum
  BY DEF Meaning, Alone, Opens, Closes, IsReg, IsNum, IsName, Negative, Empty, Piece

LEMMA SumTypes ==
  ASSUME meant \in Terms
  PROVE  /\ \A r \in Regs : WithRegister(r) \in Terms
         /\ \A v \in UInt64 : WithConstant(v) \in Terms
         /\ \A r \in Regs, k \in UInt64 : WithProduct(r, k) \in Terms
         /\ NoSum \in Terms
  <1>1. /\ meant.coef \in [Regs -> Nat] /\ meant.const \in UInt64
        /\ meant.regs \in Nat /\ meant.products \in Nat /\ meant.disps \in Nat
    BY DEF Terms
  <1>2. ASSUME NEW r \in Regs PROVE WithRegister(r) \in Terms
    <2>. DEFINE c == [meant.coef EXCEPT ![r] = meant.coef[r] + 1]
                n == meant.regs + 1
    <2>1. c \in [Regs -> Nat] /\ n \in Nat
      BY <1>1
    <2>2. WithRegister(r) = [meant EXCEPT !.coef = c, !.regs = n]
      BY DEF WithRegister
    <2>. HIDE DEF c, n
    <2>3. QED
      BY <2>1, <2>2 DEF Terms
  <1>3. ASSUME NEW v \in UInt64 PROVE WithConstant(v) \in Terms
    <2>. DEFINE c == (meant.const + v) % (2 * QwordHalf)
                n == meant.disps + 1
    <2>1. c \in UInt64 /\ n \in Nat
      BY <1>1, Halves DEF UInt64
    <2>2. WithConstant(v) = [meant EXCEPT !.const = c, !.disps = n]
      BY DEF WithConstant
    <2>. HIDE DEF c, n
    <2>3. QED
      BY <2>1, <2>2 DEF Terms
  <1>4. ASSUME NEW r \in Regs, NEW k \in UInt64 PROVE WithProduct(r, k) \in Terms
    <2>. DEFINE c == [meant.coef EXCEPT ![r] = meant.coef[r] + k]
                n == meant.products + 1
    <2>1. c \in [Regs -> Nat] /\ n \in Nat
      <3>1. k \in Nat
        BY Halves DEF UInt64
      <3>2. QED
        BY <1>1, <3>1
    <2>2. WithProduct(r, k) = [meant EXCEPT !.coef = c, !.products = n]
      BY DEF WithProduct
    <2>. HIDE DEF c, n
    <2>3. QED
      BY <2>1, <2>2 DEF Terms
  <1>5. NoSum \in Terms
    BY DEF NoSum, Terms
  <1>6. QED
    BY <1>2, <1>3, <1>4, <1>5

LEMMA MeaningType ==
  ASSUME meant \in Terms, pending \in Pieces, NEW p \in Pieces, NEW next \in Operators
  PROVE  Meaning(p, next) \in Terms
  <1>1. /\ IsReg(p) => p.reg \in Regs
        /\ Value(p) \in UInt64 /\ p.val \in UInt64 /\ pending.val \in UInt64
        /\ pending.kind = "reg" => pending.reg \in Regs
    BY PieceFacts DEF IsReg
  <1>2. CASE Alone(next)
    BY <1>1, <1>2, MeaningCases, SumTypes
  <1>3. CASE Opens(next)
    BY <1>1, <1>3, MeaningCases, SumTypes
  <1>4. CASE Closes(next)
    BY <1>1, <1>4, MeaningCases, SumTypes
  <1>5. QED
    BY <1>2, <1>3, <1>4, MeaningCases, SumTypes

\* Whatever a step of the loop does to the operand, if it keeps its type the
\* rest of the state stays well formed and the call is not over.
LEMMA ReadFrame ==
  ASSUME IInv, NEW p \in Pieces, NEW next \in Operators, Read(p, next),
         Mem' \in MemType, error' \in BOOLEAN, Mem'.ImplicitRip = Mem.ImplicitRip
  PROVE  TypeOK' /\ Unread' /\ DenotesText'
  <1>1. /\ phase = "calc" /\ (next # "end" => pieces < MaxPieces - 1)
        /\ pieces' = pieces + 1
        /\ phase' = IF next = "end" THEN "fixup" ELSE "calc"
        /\ sep' = IF next = "end" THEN "+" ELSE next
        /\ UNCHANGED <<block, Segment, Size, XedEOSZ, result>>
    BY DEF Read
  <1>2. TypeOK /\ result = "none" /\ ~Mem.ImplicitRip /\ pieces < MaxPieces
    BY <1>1 DEF IInv, Unread
  <1>3. meant' \in Terms
    BY <1>2, MeaningType DEF Read, TypeOK
  <1>4. pending' \in Pieces
    BY PieceFacts DEF Read
  <1>5. pieces' \in 0 .. MaxPieces /\ (phase' = "calc" => pieces' < MaxPieces)
    BY <1>1, <1>2, MemAssumption DEF TypeOK
  <1>6. sep' \in {"+", "-", "*"} /\ (phase' = "fixup" => sep' = "+")
    BY <1>1 DEF Operators
  <1>7. TypeOK'
    BY <1>1, <1>2, <1>3, <1>4, <1>5, <1>6 DEF TypeOK, block
  <1>8. Unread'
    BY <1>1, <1>2, <1>5, <1>6 DEF Unread
  <1>9. DenotesText'
    BY <1>1, <1>2 DEF DenotesText
  <1>10. QED
    BY <1>7, <1>8, <1>9

\* What a term adds to the sum, field by field.
LEMMA SumFields ==
  ASSUME meant \in Terms
  PROVE  /\ \A r \in Regs :
              LET m == WithRegister(r)
              IN  /\ m.ok = meant.ok /\ m.regs = meant.regs + 1 /\ m.products = meant.products
                  /\ m.const = meant.const /\ m.disps = meant.disps
                  /\ \A x \in Regs : m.coef[x] = meant.coef[x] + (IF x = r THEN 1 ELSE 0)
         /\ \A v \in UInt64 :
              LET m == WithConstant(v)
              IN  /\ m.ok = meant.ok /\ m.regs = meant.regs /\ m.products = meant.products
                  /\ m.const = (meant.const + v) % (2 * QwordHalf)
                  /\ m.disps = meant.disps + 1 /\ m.coef = meant.coef
         /\ \A r \in Regs, k \in UInt64 :
              LET m == WithProduct(r, k)
              IN  /\ m.ok = meant.ok /\ m.regs = meant.regs
                  /\ m.products = meant.products + 1
                  /\ m.const = meant.const /\ m.disps = meant.disps
                  /\ \A x \in Regs : m.coef[x] = meant.coef[x] + (IF x = r THEN k ELSE 0)
         /\ NoSum.ok = FALSE
  <1>1. /\ meant.coef \in [Regs -> Nat] /\ meant.const \in UInt64
        /\ meant.regs \in Nat /\ meant.products \in Nat /\ meant.disps \in Nat
        /\ meant = [coef |-> meant.coef, const |-> meant.const, regs |-> meant.regs,
                    products |-> meant.products, disps |-> meant.disps, ok |-> meant.ok]
    BY DEF Terms
  <1>2. ASSUME NEW r \in Regs, NEW k \in Nat, NEW x \in Regs
        PROVE  [meant.coef EXCEPT ![r] = meant.coef[r] + k][x]
                   = meant.coef[x] + (IF x = r THEN k ELSE 0)
    BY <1>1
  <1>3. ASSUME NEW r \in Regs
        PROVE  LET m == WithRegister(r)
               IN  /\ m.ok = meant.ok /\ m.regs = meant.regs + 1
                   /\ m.products = meant.products
                   /\ m.const = meant.const /\ m.disps = meant.disps
                   /\ m.coef = [meant.coef EXCEPT ![r] = meant.coef[r] + 1]
    BY <1>1 DEF WithRegister
  <1>4. ASSUME NEW v \in UInt64
        PROVE  LET m == WithConstant(v)
               IN  /\ m.ok = meant.ok /\ m.regs = meant.regs /\ m.products = meant.products
                   /\ m.const = (meant.const + v) % (2 * QwordHalf)
                   /\ m.disps = meant.disps + 1 /\ m.coef = meant.coef
    BY <1>1 DEF WithConstant
  <1>5. ASSUME NEW r \in Regs, NEW k \in UInt64
        PROVE  LET m == WithProduct(r, k)
               IN  /\ m.ok = meant.ok /\ m.regs = meant.regs
                   /\ m.products = meant.products + 1
                   /\ m.const = meant.const /\ m.disps = meant.disps
                   /\ m.coef = [meant.coef EXCEPT ![r] = meant.coef[r] + k]
    BY <1>1 DEF WithProduct
  <1>6. NoSum.ok = FALSE
    BY <1>1 DEF NoSum
  <1>7. UInt64 \subseteq Nat /\ 1 \in Nat
    BY Halves DEF UInt64
  <1>8. ASSUME NEW r \in Regs, NEW x \in Regs
        PROVE  WithRegister(r).coef[x] = meant.coef[x] + (IF x = r THEN 1 ELSE 0)
    <2>1. [meant.coef EXCEPT ![r] = meant.coef[r] + 1][x]
              = meant.coef[x] + (IF x = r THEN 1 ELSE 0)
      BY <1>2, <1>7
    <2>2. WithRegister(r).coef = [meant.coef EXCEPT ![r] = meant.coef[r] + 1]
      BY <1>3
    <2>3. QED
      BY ONLY <2>1, <2>2
  <1>9. ASSUME NEW r \in Regs, NEW k \in UInt64, NEW x \in Regs
        PROVE  WithProduct(r, k).coef[x] = meant.coef[x] + (IF x = r THEN k ELSE 0)
    <2>1. [meant.coef EXCEPT ![r] = meant.coef[r] + k][x]
              = meant.coef[x] + (IF x = r THEN k ELSE 0)
      BY <1>2, <1>7
    <2>2. WithProduct(r, k).coef = [meant.coef EXCEPT ![r] = meant.coef[r] + k]
      BY <1>5
    <2>3. QED
      BY ONLY <2>1, <2>2
  <1>10. QED
    BY <1>3, <1>4, <1>5, <1>6, <1>8, <1>9

\* Once the text is no sum the invariant promises nothing about the operand.
LEMMA NoSumKept ==
  ASSUME meant'.ok = FALSE
  PROVE  RegsRead' /\ DispRead'
  BY DEF RegsRead, Room, DispRead

\* A piece that is no displacement leaves what is known of the displacement.
LEMMA DispKept ==
  ASSUME DispRead, phase = "calc",
         meant'.ok = meant.ok, meant'.const = meant.const, meant'.disps = meant.disps,
         Mem'.Disp = Mem.Disp, Mem'.DispVal = Mem.DispVal, Mem'.DispWidth = Mem.DispWidth
  PROVE  DispRead'
  BY DEF DispRead

\* A term without a register leaves what is known of the registers.
LEMMA RegsKept ==
  ASSUME RegsRead, phase = "calc", sep # "*", sep' # "*",
         meant'.ok = meant.ok, meant'.regs = meant.regs,
         meant'.products = meant.products, meant'.coef = meant.coef,
         Mem'.Base = Mem.Base, Mem'.BaseVal = Mem.BaseVal,
         Mem'.Index = Mem.Index, Mem'.IndexVal = Mem.IndexVal,
         Mem'.Scale = Mem.Scale, Mem'.ScaleVal = Mem.ScaleVal
  PROVE  RegsRead'
  BY DEF RegsRead, Room, Counted

\* The state in which a piece is read, and the state after it.
LEMMA ReadState ==
  ASSUME IInv, NEW p \in Pieces, NEW next \in Operators, Read(p, next)
  PROVE  /\ phase = "calc" /\ Mem \in MemType /\ meant \in Terms /\ pending \in Pieces
         /\ error \in BOOLEAN /\ sep \in {"+", "-", "*"}
         /\ RegsRead /\ DispRead
         /\ sep' = IF next = "end" THEN "+" ELSE next
         /\ meant.ok => meant' = Meaning(p, next)
         /\ ~meant.ok => meant' = meant
         /\ pending' = IF meant.ok /\ Opens(next) THEN p ELSE Empty
         /\ meant.ok \in BOOLEAN
  BY DEF IInv, TypeOK, Read, Terms

\* Whether or not the text still was a sum, it is none after these.
LEMMA ReadNoSum ==
  ASSUME IInv, NEW p \in Pieces, NEW next \in Operators, Read(p, next),
         meant.ok => Meaning(p, next) = NoSum
  PROVE  RegsRead' /\ DispRead'
  <1>1. NoSum.ok = FALSE
    BY ReadState, SumFields
  <1>2. meant'.ok = FALSE
    BY <1>1, ReadState
  <1>3. QED
    BY <1>2, NoSumKept

\* The invariant, from what a setter does to the operand.
LEMMA ReadKeeps ==
  ASSUME IInv, NEW p \in Pieces, NEW next \in Operators, Read(p, next),
         Mem' \in MemType, error' \in BOOLEAN, Mem'.ImplicitRip = Mem.ImplicitRip,
         RegsRead' /\ DispRead'
  PROVE  IInv'
  BY ReadFrame DEF IInv

(***************************************************************************)
(* The steps of the loop.                                                  *)
(***************************************************************************)

LEMMA BaseIInv == IInv /\ SetBase => IInv'
  <1>. SUFFICES ASSUME IInv, NEW p \in Pieces, NEW next \in Operators,
                       ~Factor(next), IsReg(p), ~Mem.Base,
                       Mem' = [Mem EXCEPT !.Base = TRUE, !.BaseVal = p.reg],
                       error' = error, Read(p, next)
                PROVE  IInv'
    BY DEF SetBase
  <1>1. p.reg \in Regs
    BY PieceFacts DEF IsReg
  <1>2. /\ Mem' \in MemType /\ Mem'.ImplicitRip = Mem.ImplicitRip
        /\ Mem'.Disp = Mem.Disp /\ Mem'.DispVal = Mem.DispVal
        /\ Mem'.DispWidth = Mem.DispWidth
        /\ Mem'.Base = TRUE /\ Mem'.BaseVal = p.reg
        /\ Mem'.Index = Mem.Index /\ Mem'.IndexVal = Mem.IndexVal
        /\ Mem'.Scale = Mem.Scale /\ Mem'.ScaleVal = Mem.ScaleVal
        /\ Mem.Index \in BOOLEAN /\ Mem.Scale \in BOOLEAN /\ Mem.ScaleVal \in UInt64
    BY <1>1, ReadState DEF MemType
  <1>3. sep # "*" /\ next # "*" /\ sep' # "*" /\ phase = "calc"
    BY ReadState DEF Factor
  <1>4. CASE ~meant.ok
    <2>1. RegsRead' /\ DispRead'
      BY <1>4, ReadNoSum
    <2>2. QED
      BY <1>2, <2>1, ReadState, ReadKeeps
  <1>5. CASE meant.ok
    <2>1. meant' = WithRegister(p.reg)
      BY <1>3, <1>5, ReadState, MeaningCases DEF Alone
    <2>2. /\ meant'.ok = meant.ok /\ meant'.regs = meant.regs + 1
          /\ meant'.products = meant.products
          /\ meant'.const = meant.const /\ meant'.disps = meant.disps
          /\ \A x \in Regs : meant'.coef[x] = meant.coef[x] + (IF x = p.reg THEN 1 ELSE 0)
      BY <1>1, <2>1, ReadState, SumFields
    <2>3. DispRead'
      BY <1>2, <1>3, <2>2, ReadState, DispKept
    <2>4. RegsRead'
      <3>. SUFFICES ASSUME Room' PROVE RegsRead'
        BY DEF RegsRead
      <3>1. meant.regs \in Nat /\ meant.products \in Nat
        BY ReadState DEF Terms
      <3>2. Room
        BY <1>3, <2>2, <3>1, <1>5 DEF Room
      <3>3. meant.regs = 0
        BY <1>3, <3>1, <3>2, ReadState DEF RegsRead
      <3>4. IF meant'.regs = 2 \/ meant'.products = 1
            THEN Mem'.Index /\ Mem'.Scale ELSE ~Mem'.Index /\ ~Mem'.Scale
        BY <1>2, <1>3, <2>2, <3>1, <3>2, <3>3, ReadState DEF RegsRead
      <3>5. ASSUME NEW x \in Regs PROVE meant'.coef[x] = Counted(x)'
        <4>1. meant.coef[x] = Counted(x)
          BY <1>3, <3>2, ReadState DEF RegsRead
        <4>2. QED
          BY <1>2, <1>3, <2>2, <4>1, Halves DEF Counted, UInt64
      <3>6. QED
        BY <1>2, <1>3, <2>2, <3>3, <3>4, <3>5 DEF RegsRead
    <2>5. QED
      BY <1>2, <2>3, <2>4, ReadState, ReadKeeps
  <1>6. QED
    BY <1>4, <1>5

LEMMA ImplicitIndexIInv == IInv /\ SetImplicitIndex => IInv'
  <1>. SUFFICES ASSUME IInv, NEW p \in Pieces, NEW next \in Operators,
                       ~Factor(next), IsReg(p), Mem.Base,
                       Mem' = [Mem EXCEPT !.Index = TRUE, !.IndexVal = p.reg,
                                          !.Scale = TRUE, !.ScaleVal = 1],
                       error' = error, Read(p, next)
                PROVE  IInv'
    BY DEF SetImplicitIndex
  <1>1. p.reg \in Regs /\ 1 \in UInt64
    BY PieceFacts, Halves DEF IsReg, UInt64
  <1>2. /\ Mem' \in MemType /\ Mem'.ImplicitRip = Mem.ImplicitRip
        /\ Mem'.Disp = Mem.Disp /\ Mem'.DispVal = Mem.DispVal
        /\ Mem'.DispWidth = Mem.DispWidth
        /\ Mem'.Base = Mem.Base /\ Mem'.BaseVal = Mem.BaseVal
        /\ Mem'.Index = TRUE /\ Mem'.IndexVal = p.reg
        /\ Mem'.Scale = TRUE /\ Mem'.ScaleVal = 1
    BY <1>1, ReadState DEF MemType
  <1>3. sep # "*" /\ next # "*" /\ sep' # "*" /\ phase = "calc"
    BY ReadState DEF Factor
  <1>4. CASE ~meant.ok
    <2>1. RegsRead' /\ DispRead'
      BY <1>4, ReadNoSum
    <2>2. QED
      BY <1>2, <2>1, ReadState, ReadKeeps
  <1>5. CASE meant.ok
    <2>1. meant' = WithRegister(p.reg)
      BY <1>3, <1>5, ReadState, MeaningCases DEF Alone
    <2>2. /\ meant'.ok = meant.ok /\ meant'.regs = meant.regs + 1
          /\ meant'.products = meant.products
          /\ meant'.const = meant.const /\ meant'.disps = meant.disps
          /\ \A x \in Regs : meant'.coef[x] = meant.coef[x] + (IF x = p.reg THEN 1 ELSE 0)
      BY <1>1, <2>1, ReadState, SumFields
    <2>3. DispRead'
      BY <1>2, <1>3, <2>2, ReadState, DispKept
    <2>4. RegsRead'
      <3>. SUFFICES ASSUME Room' PROVE RegsRead'
        BY DEF RegsRead
      <3>1. meant.regs \in Nat /\ meant.products \in Nat
        BY ReadState DEF Terms
      <3>2. Room
        BY <1>3, <2>2, <3>1, <1>5 DEF Room
      <3>3. meant.regs = 1 /\ meant.products = 0
        BY <1>3, <2>2, <3>1, <3>2, ReadState DEF RegsRead, Room
      <3>4. ~Mem.Index
        BY <1>3, <3>2, <3>3, ReadState DEF RegsRead
      <3>5. ASSUME NEW x \in Regs PROVE meant'.coef[x] = Counted(x)'
        <4>1. meant.coef[x] = Counted(x)
          BY <1>3, <3>2, ReadState DEF RegsRead
        <4>2. QED
          BY <1>2, <1>3, <2>2, <3>4, <4>1 DEF Counted
      <3>6. QED
        BY <1>2, <1>3, <2>2, <3>3, <3>5 DEF RegsRead
    <2>5. QED
      BY <1>2, <2>3, <2>4, ReadState, ReadKeeps
  <1>6. QED
    BY <1>4, <1>5

LEMMA DisplacementIInv == IInv /\ SetDisplacement => IInv'
  <1>. SUFFICES ASSUME IInv, NEW p \in Pieces, NEW next \in Operators,
                       ~Factor(next), IsNum(p) \/ IsName(p),
                       Mem' = [Mem EXCEPT !.Disp = TRUE, !.DispVal = Value(p),
                                          !.DispWidth = DispWidthOf(Negative, Value(p))],
                       error' = error, Read(p, next)
                PROVE  IInv'
    BY DEF SetDisplacement
  <1>. DEFINE v == Value(p)
              w == DispWidthOf(Negative, v)
  <1>1. v \in UInt64 /\ Negative \in BOOLEAN /\ w \in {"BYTE", "DWORD", "QWORD"}
    <2>1. v \in UInt64 /\ Negative \in BOOLEAN
      BY PieceFacts DEF Negative
    <2>2. Holds(v, w)
      BY <2>1, DispWidthHolds
    <2>3. QED
      BY <2>1, <2>2 DEF Holds
  <1>2. /\ Mem' \in MemType /\ Mem'.ImplicitRip = Mem.ImplicitRip
        /\ Mem'.Disp = TRUE /\ Mem'.DispVal = v /\ Mem'.DispWidth = w
        /\ Mem'.Base = Mem.Base /\ Mem'.BaseVal = Mem.BaseVal
        /\ Mem'.Index = Mem.Index /\ Mem'.IndexVal = Mem.IndexVal
        /\ Mem'.Scale = Mem.Scale /\ Mem'.ScaleVal = Mem.ScaleVal
    <2>. HIDE DEF v, w
    <2>1. Mem' = [Mem EXCEPT !.Disp = TRUE, !.DispVal = v, !.DispWidth = w]
      BY DEF v, w
    <2>2. QED
      BY <1>1, <2>1, ReadState DEF MemType, Widths
  <1>3. sep # "*" /\ next # "*" /\ sep' # "*" /\ phase = "calc" /\ Alone(next)
    BY ReadState DEF Factor, Alone
  <1>4. CASE ~meant.ok \/ (IsName(p) /\ Negative)
    <2>1. RegsRead' /\ DispRead'
      BY <1>3, <1>4, ReadNoSum, MeaningCases
    <2>2. QED
      BY <1>2, <2>1, ReadState, ReadKeeps
  <1>5. CASE meant.ok /\ ~(IsName(p) /\ Negative)
    <2>1. meant' = WithConstant(v)
      BY <1>3, <1>5, ReadState, MeaningCases
    <2>2. /\ meant'.ok = meant.ok /\ meant'.regs = meant.regs
          /\ meant'.products = meant.products
          /\ meant'.const = (meant.const + v) % (2 * QwordHalf)
          /\ meant'.disps = meant.disps + 1 /\ meant'.coef = meant.coef
      BY <1>1, <2>1, ReadState, SumFields
    <2>3. RegsRead'
      BY <1>2, <1>3, <2>2, ReadState, RegsKept
    <2>4. DispRead'
      <3>. SUFFICES ASSUME meant'.disps <= 1 PROVE DispRead'
        BY DEF DispRead
      <3>1. meant.disps = 0
        BY <2>2, ReadState DEF Terms
      <3>2. meant.const = 0
        BY <1>3, <1>5, <3>1, ReadState DEF DispRead
      <3>3. ASSUME NEW m \in Nat \ {0}, NEW u \in 0 .. m - 1 PROVE (0 + u) % m = u
        <4>1. 0 + u \in Int /\ 0 + u = 0 * m + u
          OBVIOUS
        <4>2. QED
          BY <4>1, RemainderUnique
      <3>4. meant'.const = v
        <4>. HIDE DEF v
        <4>1. v \in 0 .. 2 * QwordHalf - 1 /\ 2 * QwordHalf \in Nat \ {0}
          BY <1>1, Halves DEF UInt64
        <4>2. (0 + v) % (2 * QwordHalf) = v
          BY <3>3, <4>1
        <4>3. QED
          BY <2>2, <3>2, <4>2
      <3>5. \E sign \in BOOLEAN : Mem'.DispWidth = DispWidthOf(sign, Mem'.DispVal)
        BY <1>1, <1>2
      <3>6. meant'.disps = 1
        BY <2>2, <3>1
      <3>7. QED
        BY <1>2, <3>4, <3>5, <3>6 DEF DispRead
    <2>5. QED
      BY <1>2, <2>3, <2>4, ReadState, ReadKeeps
  <1>6. QED
    BY <1>4, <1>5

LEMMA UnknownTermIInv == IInv /\ UnknownTerm => IInv'
  <1>. SUFFICES ASSUME IInv, NEW p \in Pieces, NEW next \in Operators,
                       ~Factor(next), ~IsReg(p), ~IsNum(p), ~IsName(p),
                       Mem' = Mem, error' = TRUE, Read(p, next)
                PROVE  IInv'
    BY DEF UnknownTerm
  <1>1. sep # "*" /\ next # "*" /\ sep' # "*" /\ phase = "calc" /\ Alone(next)
    BY ReadState DEF Factor, Alone
  <1>2. Meaning(p, next) \in {meant, NoSum}
    BY <1>1, MeaningCases
  <1>3. RegsRead' /\ DispRead'
    <2>1. CASE meant.ok => Meaning(p, next) = NoSum
      BY <2>1, ReadNoSum
    <2>2. CASE meant.ok /\ Meaning(p, next) = meant
      <3>1. meant' = meant
        BY <2>2, ReadState
      <3>2. QED
        BY <1>1, <3>1, ReadState, RegsKept, DispKept
    <2>3. QED
      BY <1>2, <2>1, <2>2
  <1>4. QED
    BY <1>3, ReadState, ReadKeeps

LEMMA UnknownFactorIInv == IInv /\ UnknownFactor => IInv'
  <1>. SUFFICES ASSUME IInv, NEW p \in Pieces, NEW next \in Operators,
                       Factor(next), ~IsReg(p), ~IsNum(p),
                       Mem' = Mem, error' = TRUE, Read(p, next)
                PROVE  IInv'
    BY DEF UnknownFactor
  <1>1. Meaning(p, next) = NoSum
    BY MeaningCases DEF Factor, Alone
  <1>2. RegsRead' /\ DispRead'
    BY <1>1, ReadNoSum
  <1>3. QED
    BY <1>2, ReadState, ReadKeeps

LEMMA IndexIInv == IInv /\ SetIndex => IInv'
  <1>. SUFFICES ASSUME IInv, NEW p \in Pieces, NEW next \in Operators,
                       Factor(next), IsReg(p),
                       Mem' = [Mem EXCEPT !.Index = TRUE, !.IndexVal = p.reg],
                       error' = error, Read(p, next)
                PROVE  IInv'
    BY DEF SetIndex
  <1>1. p.reg \in Regs /\ p.kind = "reg"
    BY PieceFacts DEF IsReg
  <1>2. /\ Mem' \in MemType /\ Mem'.ImplicitRip = Mem.ImplicitRip
        /\ Mem'.Disp = Mem.Disp /\ Mem'.DispVal = Mem.DispVal
        /\ Mem'.DispWidth = Mem.DispWidth
        /\ Mem'.Base = Mem.Base /\ Mem'.BaseVal = Mem.BaseVal
        /\ Mem'.Index = TRUE /\ Mem'.IndexVal = p.reg
        /\ Mem'.Scale = Mem.Scale /\ Mem'.ScaleVal = Mem.ScaleVal
    BY <1>1, ReadState DEF MemType
  <1>3. phase = "calc"
    BY ReadState
  <1>4. CASE meant.ok => Meaning(p, next) = NoSum
    <2>1. RegsRead' /\ DispRead'
      BY <1>4, ReadNoSum
    <2>2. QED
      BY <1>2, <2>1, ReadState, ReadKeeps
  <1>5. CASE meant.ok /\ Opens(next) 
    <2>1. meant' = meant /\ pending' = p /\ sep # "*" /\ sep' = "*"
      BY <1>5, ReadState, MeaningCases DEF Opens
    <2>2. DispRead'
      BY <1>2, <1>3, <2>1, ReadState, DispKept
    <2>3. RegsRead'
      <3>. SUFFICES ASSUME Room' PROVE RegsRead'
        BY DEF RegsRead
      <3>1. meant.regs \in Nat /\ meant.products \in Nat
        BY ReadState DEF Terms
      <3>2. Room /\ meant.regs <= 1 /\ meant.products = 0
        BY <1>5, <2>1, <3>1 DEF Room
      <3>3. /\ Mem.Base <=> meant.regs >= 1
            /\ ~Mem.Index /\ ~Mem.Scale
        BY <1>3, <2>1, <3>1, <3>2, ReadState DEF RegsRead
      <3>4. ASSUME NEW x \in Regs PROVE meant'.coef[x] = Counted(x)'
        <4>1. meant.coef[x] = Counted(x)
          BY <1>3, <3>2, ReadState DEF RegsRead
        <4>2. QED
          BY <1>2, <2>1, <3>3, <4>1 DEF Counted
      <3>5. QED
        BY <1>1, <1>2, <2>1, <3>3, <3>4 DEF RegsRead
    <2>4. QED
      BY <1>2, <2>2, <2>3, ReadState, ReadKeeps
  <1>6. CASE meant.ok /\ Closes(next) /\ pending.kind = "num"
    <2>. DEFINE r == p.reg
                k == pending.val
    <2>1. /\ meant' = WithProduct(r, k) /\ sep = "*" /\ sep' # "*"
          /\ r \in Regs /\ k \in UInt64
      BY <1>1, <1>6, ReadState, MeaningCases, PieceFacts DEF Closes
    <2>2. /\ meant'.ok = meant.ok /\ meant'.regs = meant.regs
          /\ meant'.products = meant.products + 1
          /\ meant'.const = meant.const /\ meant'.disps = meant.disps
          /\ \A x \in Regs : meant'.coef[x] = meant.coef[x] + (IF x = r THEN k ELSE 0)
      <3>. HIDE DEF r, k
      <3>1. QED
        BY <2>1, ReadState, SumFields
    <2>3. DispRead'
      BY <1>2, <1>3, <2>2, ReadState, DispKept
    <2>4. RegsRead'
      <3>. SUFFICES ASSUME Room' PROVE RegsRead'
        BY DEF RegsRead
      <3>1. meant.regs \in Nat /\ meant.products \in Nat
        BY ReadState DEF Terms
      <3>2. Room /\ meant.products = 0 /\ meant.regs <= 1
        BY <1>6, <2>1, <2>2, <3>1 DEF Room
      <3>3. /\ Mem.Base <=> meant.regs >= 1
            /\ Mem.Scale /\ Mem.ScaleVal = pending.val
        BY <1>3, <1>6, <2>1, <3>2, ReadState DEF RegsRead
      <3>4. Mem'.Index /\ Mem'.Scale /\ Mem'.IndexVal = r /\ Mem'.ScaleVal = k
        BY <1>2, <3>3
      <3>5. ASSUME NEW x \in Regs PROVE meant'.coef[x] = Counted(x)'
        <4>1. meant.coef[x] = Counted(x)
          BY <1>3, <3>2, ReadState DEF RegsRead
        <4>2. k \in Int
          BY <2>1, Halves DEF UInt64
        <4>. HIDE DEF r, k
        <4>3. QED
          BY <1>2, <2>1, <2>2, <3>4, <4>1, <4>2 DEF Counted
      <3>6. QED
        BY <1>2, <2>1, <2>2, <3>2, <3>3, <3>4, <3>5 DEF RegsRead
    <2>5. QED
      BY <1>2, <2>3, <2>4, ReadState, ReadKeeps
  <1>7. \/ Meaning(p, next) = NoSum
        \/ Opens(next)
        \/ Closes(next) /\ pending.kind = "num"
    <2>1. ~Alone(next)
      BY DEF Factor, Alone
    <2>2. QED
      BY <2>1, MeaningCases
  <1>8. QED
    BY <1>4, <1>5, <1>6, <1>7

LEMMA ScaleIInv == IInv /\ SetScale => IInv'
  <1>. SUFFICES ASSUME IInv, NEW p \in Pieces, NEW next \in Operators,
                       Factor(next), IsNum(p),
                       Mem' = [Mem EXCEPT !.Scale = TRUE, !.ScaleVal = Value(p)],
                       error' = error, Read(p, next)
                PROVE  IInv'
    BY DEF SetScale
  <1>1. /\ Value(p) \in UInt64 /\ p.kind = "num"
        /\ ~Negative => Value(p) = p.val
    BY PieceFacts DEF IsNum, Value
  <1>2. /\ Mem' \in MemType /\ Mem'.ImplicitRip = Mem.ImplicitRip
        /\ Mem'.Disp = Mem.Disp /\ Mem'.DispVal = Mem.DispVal
        /\ Mem'.DispWidth = Mem.DispWidth
        /\ Mem'.Base = Mem.Base /\ Mem'.BaseVal = Mem.BaseVal
        /\ Mem'.Scale = TRUE /\ Mem'.ScaleVal = Value(p)
        /\ Mem'.Index = Mem.Index /\ Mem'.IndexVal = Mem.IndexVal
    BY <1>1, ReadState DEF MemType
  <1>3. phase = "calc"
    BY ReadState
  <1>4. CASE meant.ok => Meaning(p, next) = NoSum
    <2>1. RegsRead' /\ DispRead'
      BY <1>4, ReadNoSum
    <2>2. QED
      BY <1>2, <2>1, ReadState, ReadKeeps
  <1>5. CASE meant.ok /\ Opens(next) /\ ~Negative
    <2>1. meant' = meant /\ pending' = p /\ sep # "*" /\ sep' = "*"
      BY <1>5, ReadState, MeaningCases DEF Opens
    <2>2. DispRead'
      BY <1>2, <1>3, <2>1, ReadState, DispKept
    <2>3. RegsRead'
      <3>. SUFFICES ASSUME Room' PROVE RegsRead'
        BY DEF RegsRead
      <3>1. meant.regs \in Nat /\ meant.products \in Nat
        BY ReadState DEF Terms
      <3>2. Room /\ meant.regs <= 1 /\ meant.products = 0
        BY <1>5, <2>1, <3>1 DEF Room
      <3>3. /\ Mem.Base <=> meant.regs >= 1
            /\ ~Mem.Index /\ ~Mem.Scale
        BY <1>3, <2>1, <3>1, <3>2, ReadState DEF RegsRead
      <3>4. ASSUME NEW x \in Regs PROVE meant'.coef[x] = Counted(x)'
        <4>1. meant.coef[x] = Counted(x)
          BY <1>3, <3>2, ReadState DEF RegsRead
        <4>2. QED
          BY <1>2, <2>1, <3>3, <4>1 DEF Counted
      <3>5. QED
        BY <1>1, <1>2, <1>5, <2>1, <3>3, <3>4 DEF RegsRead
    <2>4. QED
      BY <1>2, <2>2, <2>3, ReadState, ReadKeeps
  <1>6. CASE meant.ok /\ Closes(next) /\ pending.kind = "reg"
    <2>. DEFINE r == pending.reg
                k == p.val
    <2>1. /\ meant' = WithProduct(r, k) /\ sep = "*" /\ sep' # "*"
          /\ r \in Regs /\ k \in UInt64
      BY <1>1, <1>6, ReadState, MeaningCases, PieceFacts DEF Closes
    <2>2. /\ meant'.ok = meant.ok /\ meant'.regs = meant.regs
          /\ meant'.products = meant.products + 1
          /\ meant'.const = meant.const /\ meant'.disps = meant.disps
          /\ \A x \in Regs : meant'.coef[x] = meant.coef[x] + (IF x = r THEN k ELSE 0)
      <3>. HIDE DEF r, k
      <3>1. QED
        BY <2>1, ReadState, SumFields
    <2>3. DispRead'
      BY <1>2, <1>3, <2>2, ReadState, DispKept
    <2>4. RegsRead'
      <3>. SUFFICES ASSUME Room' PROVE RegsRead'
        BY DEF RegsRead
      <3>1. meant.regs \in Nat /\ meant.products \in Nat
        BY ReadState DEF Terms
      <3>2. Room /\ meant.products = 0 /\ meant.regs <= 1
        BY <1>6, <2>1, <2>2, <3>1 DEF Room
      <3>3. /\ Mem.Base <=> meant.regs >= 1
            /\ Mem.Index /\ Mem.IndexVal = pending.reg
        BY <1>3, <1>6, <2>1, <3>2, ReadState DEF RegsRead
      <3>4. Mem'.Index /\ Mem'.Scale /\ Mem'.IndexVal = r /\ Mem'.ScaleVal = k
        BY <1>1, <1>2, <2>1, <3>3 DEF Negative
      <3>5. ASSUME NEW x \in Regs PROVE meant'.coef[x] = Counted(x)'
        <4>1. meant.coef[x] = Counted(x)
          BY <1>3, <3>2, ReadState DEF RegsRead
        <4>2. k \in Int
          BY <2>1, Halves DEF UInt64
        <4>. HIDE DEF r, k
        <4>3. QED
          BY <1>2, <2>1, <2>2, <3>4, <4>1, <4>2 DEF Counted
      <3>6. QED
        BY <1>2, <2>1, <2>2, <3>2, <3>3, <3>4, <3>5 DEF RegsRead
    <2>5. QED
      BY <1>2, <2>3, <2>4, ReadState, ReadKeeps
  <1>7. \/ Meaning(p, next) = NoSum
        \/ Opens(next) /\ ~Negative
        \/ Closes(next) /\ pending.kind = "reg"
    <2>1. ~Alone(next)
      BY DEF Factor, Alone
    <2>2. QED
      BY <2>1, MeaningCases
  <1>8. QED
    BY <1>4, <1>5, <1>6, <1>7

(***************************************************************************)
(* The end of the call.                                                    *)
(***************************************************************************)

\* A width that holds a value says which value it is, up to a multiple of 2^32,
\* and in its address space where 32 bits do.
LEMMA HeldIsSame ==
  ASSUME NEW v \in UInt64, NEW w \in Widths, Holds(v, w), x64 \in BOOLEAN
  PROVE  /\ SignExtended(v, w) - v \in Int
         /\ (SignExtended(v, w) - v) % (2 * DwordHalf) = 0
         /\ (x64 => v \notin DwordHalf .. 2 * DwordHalf - 1)
                => (SignExtended(v, w) - v) % AddressSpace = 0
  <1>1. SignExtended(v, w) = Extended(v, HalfOf(w))
    BY SignExtendedIs
  <1>2. AddressSpace \in {2 * DwordHalf, 2 * QwordHalf}
    BY DEF AddressSpace
  <1>3. v \in Int /\ 0 <= v /\ v < 2 * QwordHalf
    BY Halves DEF UInt64
  <1>4. CASE w = "BYTE"
    <2>1. HalfOf(w) = ByteHalf /\ Near(v, ByteHalf)
      BY <1>4 DEF HalfOf, Holds
    <2>2. QED
      BY <1>1, <1>2, <2>1, NearIsSame, ExtendedInt
  <1>5. CASE w = "QWORD"
    <2>1. HalfOf(w) = QwordHalf /\ Near(v, QwordHalf)
      BY <1>3, <1>5, Halves DEF HalfOf, Near
    <2>2. QED
      BY <1>1, <1>2, <2>1, NearIsSame, ExtendedInt
  <1>6. CASE w = "DWORD"
    <2>1. HalfOf(w) = DwordHalf
      BY <1>6 DEF HalfOf
    <2>2. x64 /\ v \notin DwordHalf .. 2 * DwordHalf - 1 => Near(v, DwordHalf)
      BY <1>3, <1>6, Halves DEF Near, Holds
    <2>3. ~x64 => AddressSpace = 2 * DwordHalf
      BY DEF AddressSpace
    <2>4. QED
      BY <1>1, <1>2, <2>1, <2>2, <2>3, NearIsSame, DwordIsSame, ExtendedInt
  <1>7. QED
    BY <1>4, <1>5, <1>6 DEF Holds

\* A displacement measured from the instruction leads back to its value.
LEMMA RelativeLeadsBack ==
  ASSUME NEW v \in UInt64, NEW c \in UInt64
  PROVE  /\ ToUnsigned(v - c) \in UInt64
         /\ ((c + ToUnsigned(v - c)) - v) % (2 * QwordHalf) = 0
  <1>1. /\ QwordHalf \in Int /\ 2 * QwordHalf \in Nat \ {0}
        /\ v \in 0 .. 2 * QwordHalf - 1 /\ c \in 0 .. 2 * QwordHalf - 1
    BY Halves DEF UInt64
  <1>2. ToUnsigned(v - c) \in UInt64
    BY <1>1 DEF ToUnsigned, UInt64
  <1>3. (c + ToUnsigned(v - c)) - v \in {0 * (2 * QwordHalf), 1 * (2 * QwordHalf)}
    BY <1>1 DEF ToUnsigned
  <1>4. QED
    BY <1>1, <1>2, <1>3, MultipleHasNoRemainder

\* So do the 32 bits that are written of it, up to a multiple of 2^32; exactly,
\* if it lies in them.
LEMMA RelativeDword ==
  ASSUME NEW v \in UInt64, NEW c \in UInt64
  PROVE  LET d == ToUnsigned(v - c)
             a == c + SignExtended(d, "DWORD")
         IN  /\ (a - v) % (2 * DwordHalf) = 0
             /\ ToSigned(d) \in -DwordHalf .. DwordHalf - 1 => (a - v) % (2 * QwordHalf) = 0
  <1>. DEFINE d == ToUnsigned(v - c)
              x == SignExtended(d, "DWORD")
              y == x - d
              z == (c + d) - v
  <1>1. d \in UInt64 /\ z % (2 * QwordHalf) = 0
    BY RelativeLeadsBack
  <1>2. d \in Int /\ v \in Int /\ c \in Int /\ z \in Int
    BY <1>1, Halves DEF UInt64
  <1>3. x = Extended(d, DwordHalf)
    BY SignExtendedIs DEF HalfOf
  <1>4. x \in Int /\ y \in Int /\ y % (2 * DwordHalf) = 0
    BY <1>1, <1>3, ExtendedInt, DwordIsSame
  <1>5. ToSigned(d) \in -DwordHalf .. DwordHalf - 1 => y % (2 * QwordHalf) = 0
    <2>. SUFFICES ASSUME ToSigned(d) \in -DwordHalf .. DwordHalf - 1
                  PROVE  y % (2 * QwordHalf) = 0
      OBVIOUS
    <2>. HIDE DEF d
    <2>1. Near(d, DwordHalf)
      BY <1>1, <1>2, Halves DEF Near, ToSigned, UInt64
    <2>2. QED
      BY <1>1, <1>3, <2>1, NearIsSame
  <1>6. z % (2 * DwordHalf) = 0
    BY <1>1, <1>2, LowBitsOfMultiple
  <1>7. (c + x) - v = y + z
    <2>. HIDE DEF d, x
    <2>1. QED
      BY <1>2, <1>4
  <1>. HIDE DEF y, z
  <1>8. (y + z) % (2 * DwordHalf) = 0
    BY <1>2, <1>4, <1>6, Halves, SumOfMultiples
  <1>9. y % (2 * QwordHalf) = 0 => (y + z) % (2 * QwordHalf) = 0
    BY <1>1, <1>2, <1>4, Halves, SumOfMultiples
  <1>10. QED
    BY <1>5, <1>7, <1>8, <1>9

\* What Fixup makes of the operand: the registers stay what they are, and a
\* displacement its value in a width that holds it, or the operand becomes
\* relative to the instruction.
LEMMA FixupCases ==
  ASSUME IInv, Fixup
  PROVE  /\ Mem' \in MemType
         /\ \/ /\ Mem'.Base = Mem.Base /\ Mem'.BaseVal = Mem.BaseVal
               /\ Mem'.Index = Mem.Index /\ Mem'.IndexVal = Mem.IndexVal
               /\ Mem'.ScaleVal = Mem.ScaleVal /\ ~Mem'.ImplicitRip
               /\ Mem.Disp => /\ Mem'.Disp /\ Mem'.DispVal = Mem.DispVal
                              /\ Mem'.DispWidth \in {Mem.DispWidth, AtLeastDword(Mem.DispWidth),
                                                     "QWORD"}
               /\ ~Mem.Disp => \/ ~Mem'.Disp
                               \/ Mem'.Disp /\ Mem'.DispVal = 0 /\ Mem'.DispWidth = "DWORD"
            \/ /\ x64 /\ Mem.Disp /\ AbsoluteAddress
               /\ Mem'.ImplicitRip /\ Mem'.DispVal = TranslateRelativeCip(Mem.DispVal)
               /\ Mem'.Disp /\ Mem'.DispWidth = "DWORD" /\ Mem'.Index = Mem.Index
  <1>1. /\ phase = "fixup" /\ Mem \in MemType /\ ~Mem.ImplicitRip /\ cip \in UInt64
    BY MemAssumption DEF IInv, TypeOK, Unread, Fixup, UInt64
  <1>2. /\ Mem.DispVal \in UInt64 /\ 0 \in UInt64
        /\ TranslateRelativeCip(Mem.DispVal) \in UInt64 /\ "RIP" \in Regs
        /\ AtLeastDword(Mem.DispWidth) \in Widths
    <2>1. Mem.DispVal \in UInt64 /\ Mem.DispWidth \in Widths
      BY <1>1 DEF MemType
    <2>2. TranslateRelativeCip(Mem.DispVal) \in UInt64
      BY <1>1, <2>1, RelativeLeadsBack DEF TranslateRelativeCip
    <2>3. 0 \in UInt64 /\ "RIP" \in Regs
      BY Halves, MemAssumption DEF UInt64
    <2>4. AtLeastDword(Mem.DispWidth) \in Widths
      BY <2>1 DEF AtLeastDword, Widths
    <2>5. QED
      BY <2>1, <2>2, <2>3, <2>4
  <1>3. CASE ~Mem.Disp
    <2>1. Mem' = WithoutDisplacement
      BY <1>3 DEF Fixup
    <2>2. QED
      BY <1>1, <1>2, <1>3, <2>1 DEF WithoutDisplacement, MemType, Widths
  <1>4. CASE Mem.Disp
    <2>. DEFINE w == IF Mem.Base THEN Mem.DispWidth ELSE AtLeastDword(Mem.DispWidth)
                d == TranslateRelativeCip(Mem.DispVal)
    <2>1. /\ w \in Widths /\ w \in {Mem.DispWidth, AtLeastDword(Mem.DispWidth)}
          /\ d \in UInt64
      BY <1>1, <1>2 DEF MemType
    <2>2. \/ Mem' = [Mem EXCEPT !.DispWidth = w]
          \/ Mem' = [Mem EXCEPT !.DispWidth = "QWORD"]
          \/ /\ x64 /\ AbsoluteAddress
             /\ Mem' = [Mem EXCEPT !.DispVal = d, !.DispWidth = "DWORD",
                                   !.Base = TRUE, !.BaseVal = "RIP", !.ImplicitRip = TRUE]
      BY <1>4 DEF Fixup, WithDisplacement
    <2>3. d = TranslateRelativeCip(Mem.DispVal)
      OBVIOUS
    <2>. HIDE DEF w, d
    <2>4. CASE Mem' = [Mem EXCEPT !.DispWidth = w]
      BY <1>1, <1>4, <2>1, <2>4 DEF MemType
    <2>5. CASE Mem' = [Mem EXCEPT !.DispWidth = "QWORD"]
      BY <1>1, <1>4, <2>5 DEF MemType, Widths
    <2>6. CASE /\ x64 /\ AbsoluteAddress
               /\ Mem' = [Mem EXCEPT !.DispVal = d, !.DispWidth = "DWORD",
                                     !.Base = TRUE, !.BaseVal = "RIP", !.ImplicitRip = TRUE]
      BY <1>1, <1>2, <1>4, <2>1, <2>3, <2>6 DEF MemType, Widths
    <2>7. QED
      BY <2>2, <2>4, <2>5, <2>6
  <1>5. QED
    BY <1>3, <1>4

\* The operand of a text of the form denotes its address.
LEMMA FixupDenotes ==
  ASSUME IInv, Fixup
  PROVE  DenotesText'
  <1>1. /\ phase = "fixup" /\ sep = "+" /\ Mem \in MemType /\ meant \in Terms
        /\ x64 \in BOOLEAN /\ cip \in UInt64 /\ RegsRead /\ DispRead
        /\ x64' = x64 /\ cip' = cip /\ meant' = meant
    BY MemAssumption DEF IInv, TypeOK, Unread, Fixup, block, ghost, UInt64
  <1>. SUFFICES ASSUME Formed
                PROVE  /\ AddressCoef' = meant.coef
                       /\ (AddressConst' - meant.const) % (2 * DwordHalf) = 0
                       /\ Exact' => (AddressConst' - meant.const) % AddressSpace = 0
    BY <1>1 DEF DenotesText, Formed, AddressSpace
  <1>2. Room /\ meant.disps <= 1
    BY <1>1 DEF Formed, Room, Terms
  <1>3. \A r \in Regs : meant.coef[r] = Counted(r)
    BY <1>1, <1>2 DEF RegsRead
  <1>4. IF Mem.Disp THEN /\ meant.const = Mem.DispVal
                         /\ \E sign \in BOOLEAN : Mem.DispWidth = DispWidthOf(sign, Mem.DispVal)
        ELSE meant.const = 0
    BY <1>1, <1>2 DEF DispRead, Formed
  <1>5. meant.coef \in [Regs -> Nat] /\ Mem.DispVal \in UInt64 /\ Mem'.DispVal \in UInt64
        /\ Mem'.DispWidth \in Widths
    BY <1>1, FixupCases DEF Terms, MemType
  <1>6. 0 % AddressSpace = 0 /\ 0 % (2 * DwordHalf) = 0
    <2>1. AddressSpace \in Nat \ {0} /\ 0 * AddressSpace = 0
          /\ 2 * DwordHalf \in Nat \ {0} /\ 0 * (2 * DwordHalf) = 0
      BY <1>1, Halves DEF AddressSpace
    <2>2. 0 \in Int
      OBVIOUS
    <2>3. QED
      BY <2>1, <2>2, MultipleHasNoRemainder
  <1>7. ASSUME NEW f, f = [r \in Regs |-> f[r]],
               \A r \in Regs : f[r] = meant.coef[r]
        PROVE  f = meant.coef
    BY <1>5, <1>7
  <1>8. CASE /\ x64 /\ Mem.Disp /\ AbsoluteAddress
             /\ Mem'.ImplicitRip /\ Mem'.DispVal = TranslateRelativeCip(Mem.DispVal)
             /\ Mem'.Disp /\ Mem'.DispWidth = "DWORD" /\ Mem'.Index = Mem.Index
    <2>1. ~Mem.Base /\ ~Mem.Index
      BY <1>8 DEF AbsoluteAddress
    <2>2. \A r \in Regs : AddressCoef'[r] = meant.coef[r]
      BY <1>1, <1>3, <1>8, <2>1 DEF AddressCoef, Counted
    <2>3. AddressCoef' = meant.coef
      BY <1>7, <2>2 DEF AddressCoef
    <2>. DEFINE d == ToUnsigned(Mem.DispVal - cip)
    <2>4. Mem'.DispVal = d /\ AddressSpace = 2 * QwordHalf /\ meant.const = Mem.DispVal
      BY <1>1, <1>4, <1>8 DEF TranslateRelativeCip, AddressSpace
    <2>5. AddressConst' = cip + SignExtended(d, "DWORD")
      BY <1>1, <1>8, <2>4 DEF AddressConst, SignExtended
    <2>6. Exact' => ToSigned(d) \in -DwordHalf .. DwordHalf - 1
      BY <1>1, <1>8, <2>4 DEF Exact, ToSigned
    <2>7. /\ ((cip + SignExtended(d, "DWORD")) - Mem.DispVal) % (2 * DwordHalf) = 0
          /\ ToSigned(d) \in -DwordHalf .. DwordHalf - 1 =>
                ((cip + SignExtended(d, "DWORD")) - Mem.DispVal) % (2 * QwordHalf) = 0
      BY <1>1, <1>5, RelativeDword
    <2>. HIDE DEF d
    <2>8. QED
      BY <2>3, <2>4, <2>5, <2>6, <2>7
  <1>9. CASE /\ Mem'.Base = Mem.Base /\ Mem'.BaseVal = Mem.BaseVal
             /\ Mem'.Index = Mem.Index /\ Mem'.IndexVal = Mem.IndexVal
             /\ Mem'.ScaleVal = Mem.ScaleVal /\ ~Mem'.ImplicitRip
             /\ Mem.Disp => /\ Mem'.Disp /\ Mem'.DispVal = Mem.DispVal
                            /\ Mem'.DispWidth \in {Mem.DispWidth, AtLeastDword(Mem.DispWidth),
                                                   "QWORD"}
             /\ ~Mem.Disp => \/ ~Mem'.Disp
                             \/ Mem'.Disp /\ Mem'.DispVal = 0 /\ Mem'.DispWidth = "DWORD"
    <2>1. \A r \in Regs : AddressCoef'[r] = meant.coef[r]
      BY <1>1, <1>3, <1>9 DEF AddressCoef, Counted
    <2>2. AddressCoef' = meant.coef
      BY <1>7, <2>1 DEF AddressCoef
    <2>3. CASE ~Mem'.Disp
      <3>1. AddressConst' = 0 /\ meant.const = 0
        BY <1>4, <1>9, <2>3 DEF AddressConst
      <3>2. QED
        BY <1>6, <2>2, <3>1
    <2>4. CASE Mem'.Disp
      <3>1. meant.const = Mem'.DispVal
        BY <1>4, <1>9, <2>4
      <3>2. Holds(Mem'.DispVal, Mem'.DispWidth)
        <4>1. CASE ~Mem.Disp
          BY <1>9, <2>4, <4>1, Halves DEF Holds
        <4>2. CASE Mem.Disp
          <5>1. Holds(Mem.DispVal, Mem.DispWidth)
            BY <1>4, <1>5, <4>2, DispWidthHolds
          <5>2. Holds(Mem.DispVal, AtLeastDword(Mem.DispWidth))
            BY <1>5, <5>1, Halves DEF Holds, AtLeastDword, Near, UInt64
          <5>3. Holds(Mem.DispVal, "QWORD")
            BY DEF Holds
          <5>4. QED
            BY <1>9, <4>2, <5>1, <5>2, <5>3
        <4>3. QED
          BY <4>1, <4>2
      <3>. DEFINE x == SignExtended(Mem'.DispVal, Mem'.DispWidth)
      <3>3. /\ x - Mem'.DispVal \in Int
            /\ (x - Mem'.DispVal) % (2 * DwordHalf) = 0
            /\ (x64 => Mem'.DispVal \notin DwordHalf .. 2 * DwordHalf - 1)
                   => (x - Mem'.DispVal) % AddressSpace = 0
        BY <1>1, <1>5, <3>2, HeldIsSame
      <3>4. AddressConst' = 0 + x /\ x \in Int
        <4>1. AddressConst' = 0 + x
          BY <1>9, <2>4 DEF AddressConst, SignExtended
        <4>2. x = Extended(Mem'.DispVal, HalfOf(Mem'.DispWidth))
          BY SignExtendedIs
        <4>3. QED
          BY <1>5, <4>1, <4>2, ExtendedInt DEF HalfOf
      <3>5. Exact' => (x64 => meant.const \notin DwordHalf .. 2 * DwordHalf - 1)
        BY <1>1, <1>9 DEF Exact
      <3>. HIDE DEF x
      <3>6. AddressConst' = x
        BY <3>4
      <3>7. QED
        BY <2>2, <3>1, <3>3, <3>5, <3>6
    <2>5. QED
      BY <2>3, <2>4
  <1>10. QED
    BY <1>8, <1>9, FixupCases

LEMMA FixupIInv == IInv /\ Fixup => IInv'
  <1>. SUFFICES ASSUME IInv, Fixup PROVE IInv'
    OBVIOUS
  <1>1. TypeOK /\ phase' = "done" /\ result' = "true"
        /\ UNCHANGED <<block, Size, XedEOSZ, sep, pieces, error, ghost>>
    BY DEF IInv, Fixup
  <1>2. Segment' \in SegRegs \union WordRegs \union {"INVALID"}
    BY <1>1, MemAssumption DEF Fixup, DefaultSegment, TypeOK
  <1>3. TypeOK'
    BY <1>1, <1>2, FixupCases DEF TypeOK, block, ghost
  <1>4. Unread' /\ RegsRead' /\ DispRead'
    BY <1>1 DEF Unread, RegsRead, DispRead
  <1>5. QED
    BY <1>3, <1>4, FixupDenotes DEF IInv

(***************************************************************************)
(* The theorems.                                                           *)
(***************************************************************************)

LEMMA InitIInv == Init => IInv
  <1>. SUFFICES ASSUME Init PROVE IInv
    OBVIOUS
  <1>1. 0 \in UInt64
    BY Halves DEF UInt64
  <1>2. EmptyMem \in MemType
    BY <1>1 DEF EmptyMem, MemType, Widths
  <1>3. NothingMeant \in Terms
    BY <1>1 DEF NothingMeant, Terms
  <1>4. TypeOK
    <2>1. Empty \in Pieces
      BY DEF Pieces
    <2>2. pieces \in 0 .. MaxPieces
      BY MemAssumption DEF Init
    <2>3. error \in BOOLEAN /\ x64 \in BOOLEAN
      BY DEF Init
    <2>4. QED
      BY <1>2, <1>3, <2>1, <2>2, <2>3 DEF Init, TypeOK, EOSZ_64_32
  <1>5. Unread
    BY <1>2, MemAssumption DEF Init, Unread, EmptyMem
  <1>6. RegsRead /\ DispRead /\ DenotesText
    BY DEF Init, RegsRead, DispRead, DenotesText
  <1>7. QED
    BY <1>4, <1>5, <1>6 DEF IInv

LEMMA RefuseIInv == IInv /\ Refuse => IInv'
  <1>. SUFFICES ASSUME IInv, Refuse PROVE IInv'
    OBVIOUS
  <1>1. TypeOK'
    BY DEF IInv, TypeOK, Refuse, block, operand, ghost
  <1>2. Unread' /\ RegsRead' /\ DispRead' /\ DenotesText'
    BY DEF Refuse, Unread, RegsRead, DispRead, DenotesText
  <1>3. QED
    BY <1>1, <1>2 DEF IInv

LEMMA PrefixIInv == IInv /\ Prefix => IInv'
  <1>. SUFFICES ASSUME IInv, Prefix PROVE IInv'
    OBVIOUS
  <1>1. /\ phase = "prefix" /\ phase' = "calc" /\ result = "none" /\ result' = result
        /\ Mem = EmptyMem /\ Mem' = Mem /\ sep = "+" /\ sep' = sep
        /\ meant = NothingMeant /\ meant' = meant /\ pieces < MaxPieces /\ pieces' = pieces
    BY DEF IInv, Unread, Prefix, ghost
  <1>2. TypeOK'
    <2>1. OpsizeToEosz(Size') \in 0 .. 3
      BY DEF OpsizeToEosz
    <2>2. QED
      BY <2>1 DEF IInv, TypeOK, Prefix, block, ghost
  <1>3. Unread' /\ DenotesText'
    BY <1>1 DEF Unread, DenotesText, EmptyMem
  <1>4. RegsRead'
    BY <1>1 DEF RegsRead, EmptyMem, NothingMeant, Counted
  <1>5. DispRead'
    BY <1>1 DEF DispRead, EmptyMem, NothingMeant
  <1>6. QED
    BY <1>2, <1>3, <1>4, <1>5 DEF IInv

\* What the flags of the operand tell of the text read so far, as long as it
\* can still be of the form, is told in every reachable state.
THEOREM Invariance == Spec => []IInv
  <1>1. IInv /\ UNCHANGED vars => IInv'
    BY DEF IInv, TypeOK, Unread, RegsRead, DispRead, DenotesText, Room, Counted, Formed,
           Exact, ToSigned, AddressCoef, AddressConst, AddressSpace, SignExtended,
           vars, block, operand, ghost
  <1>2. IInv /\ [Next]_vars => IInv'
    BY <1>1, RefuseIInv, PrefixIInv, BaseIInv, ImplicitIndexIInv, DisplacementIInv,
       UnknownTermIInv, IndexIInv, ScaleIInv, UnknownFactorIInv, FixupIInv DEF Next
  <1>3. QED
    BY InitIInv, <1>2, PTL DEF Spec

\* Type correctness.
THEOREM TypeCorrect == Spec => []TypeOK
  <1>1. IInv => TypeOK
    BY DEF IInv
  <1>2. QED
    BY <1>1, Invariance, PTL

\* An operand of the documented form denotes the address of its text, in
\* whatever order its terms come.
THEOREM TextDenoted == Spec => []DenotesText
  <1>1. IInv => DenotesText
    BY DEF IInv
  <1>2. QED
    BY <1>1, Invariance, PTL
=============================================================================
