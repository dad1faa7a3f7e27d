-------------------------- MODULE BranchInstProofs --------------------------
(***************************************************************************)
(* Proofs about BranchInst for every width of byte, dword and qword and    *)
(* every instruction pointer: the short form is chosen exactly when it     *)
(* fits, and an accepted branch goes where its text says.                  *)
(***************************************************************************)
EXTENDS BranchInst, TLAPS

\* The inductive invariant.
IInv == TypeOK /\ Fresh /\ ShortestForm /\ LandsOnTarget32 /\ ReachesNear64

\* A conversion to int gives an int.
LEMMA Low32Type == ASSUME NEW v \in Int PROVE Low32(v) \in Int32
  BY WidthAssumption DEF Low32, Int32

LEMMA WrapType ==
  ASSUME NEW h \in Nat, NEW v \in -(3 * h) .. 3 * h - 1
  PROVE  Wrap(v, h) \in -h .. h - 1
  BY DEF Wrap

\* In 32-bit code the displacement, masked to 32 bits and read back as an int,
\* leads to the target modulo the address space.
LEMMA Lands32 ==
  ASSUME NEW c \in 0 .. 2 * DwordHalf - 1, NEW v \in Int64, NEW len \in 0 .. 6,
         NEW d, d = Wrap(Wrap(v - c, QwordHalf) - len, QwordHalf), HighHalfEmpty(d),
         NEW im, im = IF d < 0 THEN d + 2 * DwordHalf ELSE d
  PROVE  /\ im \in 0 .. 2 * DwordHalf - 1
         /\ \E k \in -(DwordsPerQword + 1) .. DwordsPerQword + 1 :
               c + len + Wrap(im, DwordHalf) - v = k * (2 * DwordHalf)
  <1> DEFINE N == DwordsPerQword
             e == Wrap(v - c, QwordHalf)
  <1>1. N \in Nat /\ 2 * QwordHalf = N * (2 * DwordHalf) /\ 2 * DwordHalf \in Nat
    BY WidthAssumption
  <1>2. im \in 0 .. 2 * DwordHalf - 1 /\ d \in Int
    BY WidthAssumption DEF HighHalfEmpty
  <1>3. PICK a \in {0, 1} : e = v - c + a * (2 * QwordHalf)
    BY WidthAssumption DEF Wrap, Int64
  <1>4. e \in Int64 /\ d = e - len
    BY WidthAssumption DEF Wrap, Int64, HighHalfEmpty
  <1>5. PICK b \in {-1, 0, 1} : Wrap(im, DwordHalf) = d + b * (2 * DwordHalf)
    BY <1>2, WidthAssumption DEF Wrap, HighHalfEmpty
  <1>6. c + len + Wrap(im, DwordHalf) - v = a * (2 * QwordHalf) + b * (2 * DwordHalf)
    BY <1>1, <1>2, <1>3, <1>4, <1>5 DEF Int64
  <1>7. a * (2 * QwordHalf) + b * (2 * DwordHalf) = (a * N + b) * (2 * DwordHalf)
    BY <1>1
  <1>8. a * N + b \in -(N + 1) .. N + 1
    BY <1>1
  <1>9. QED
    BY <1>2, <1>6, <1>7, <1>8

\* In 64-bit code a target less than 2^31 away is reached modulo 2^64.
LEMMA Lands64 ==
  ASSUME NEW c \in 0 .. 2 * QwordHalf - 1, NEW v \in Int64, NEW len \in 0 .. 6,
         NEW e, e = Wrap(v - c, QwordHalf), e \in -(DwordHalf - 6) .. DwordHalf - 1,
         NEW d, d = Wrap(e - len, QwordHalf)
  PROVE  /\ d = e - len /\ HighHalfEmpty(d)
         /\ \E k \in -(DwordsPerQword + 1) .. DwordsPerQword + 1 :
               c + len + Wrap(d, DwordHalf) - v = k * (2 * QwordHalf)
  <1>1. d = e - len /\ d \in Int32 /\ HighHalfEmpty(d)
    BY WidthAssumption DEF Wrap, HighHalfEmpty, Int32
  <1>2. Wrap(d, DwordHalf) = d
    BY <1>1, WidthAssumption DEF Wrap, Int32
  <1>3. PICK a \in {0, 1} : e = v - c + a * (2 * QwordHalf)
    BY WidthAssumption DEF Wrap, Int64
  <1>4. c + len + Wrap(d, DwordHalf) - v = a * (2 * QwordHalf)
    <2>1. c + len + d - v = c + len + (e - len) - v
      BY <1>1
    <2>2. c \in Int /\ v \in Int /\ e \in Int /\ QwordHalf \in Int
      BY WidthAssumption DEF Int64
    <2>3. e - (v - c) = a * (2 * QwordHalf)
      <3>1. CASE a = 0
        BY <1>3, <2>2, <3>1
      <3>2. CASE a = 1
        BY <1>3, <2>2, <3>2
      <3>3. QED
        BY <3>1, <3>2
    <2>4. c + len + (e - len) - v = e - (v - c)
      BY <2>2
    <2>5. QED
      BY <1>2, <2>1, <2>3, <2>4
  <1>5. a \in -(DwordsPerQword + 1) .. DwordsPerQword + 1
    BY WidthAssumption
  <1>6. QED
    BY <1>1, <1>4, <1>5

\* The test on delta says that the one-byte displacement fits.
LEMMA ShortRangeExact ==
  ASSUME NEW e \in Int64
  PROVE  ShortRange(e) <=> Wrap(e - 2, QwordHalf) \in -ByteHalf .. ByteHalf - 1
  BY WidthAssumption DEF ShortRange, Wrap, Int64

\* The operands the parser hands over are operands.
LEMMA ParsedType ==
  ASSUME NEW v \in Int64, NEW o \in Parsed(v)
  PROVE  o \in Operand /\ ~o.RelBranch /\ (o.Type = "IMM" => o.imm = v)
  <1>1. Low32(v) \in Int32
    BY Low32Type DEF Int64
  <1>2. 0 \in Int64 /\ 0 \in Int32 /\ 0 \in 0 .. 2 * WordHalf - 1 /\ 1 \in 0 .. 2 * WordHalf - 1
    BY WidthAssumption DEF Int64, Int32
  <1>3. CASE o = [Blank EXCEPT !.Type = "REG", !.Size = "DWORD"]
    BY <1>2, <1>3 DEF Blank, Operand
  <1>4. CASE o = [Blank EXCEPT !.Type = "IMM", !.Size = "VALUE", !.imm = v]
    BY <1>2, <1>4 DEF Blank, Operand
  <1>5. CASE o = [Blank EXCEPT !.Type = "SEGSEL", !.Size = "DWORD", !.Selector = 1,
                               !.Offset = Low32(v)]
    BY <1>1, <1>2, <1>5 DEF Blank, Operand
  <1>6. ASSUME NEW z \in {"UNSET", "DWORD", "FWORD"},
               o = [Blank EXCEPT !.Type = "MEM", !.Size = z, !.imm = v]
        PROVE  o \in Operand /\ ~o.RelBranch /\ (o.Type = "IMM" => o.imm = v)
    BY <1>2, <1>6 DEF Blank, Operand
  <1>7. QED
    BY <1>3, <1>4, <1>5, <1>6 DEF Parsed

\* So is an operand slot the parser has not touched.
LEMMA BlankType == Blank \in Operand /\ ~Blank.RelBranch /\ Blank.Type # "IMM"
  <1>1. 0 \in Int64 /\ 0 \in Int32 /\ 0 \in 0 .. 2 * WordHalf - 1
    BY WidthAssumption DEF Int64, Int32
  <1>2. QED
    BY <1>1 DEF Blank, Operand

LEMMA InitIInv == ASSUME Init PROVE IInv
  <1>3. text \in Int64
    BY WidthAssumption DEF Init
  <1>4. op0 \in Operand /\ ~op0.RelBranch /\ (op0.Type = "IMM" => op0.imm = text)
    BY <1>3, ParsedType, BlankType DEF Init
  <1>5. op1 \in Operand
    BY WidthAssumption, ParsedType, BlankType DEF Init
  <1>6. TypeOK
    BY <1>3, <1>4, <1>5 DEF Init, TypeOK
  <1>7. Fresh
    BY <1>4 DEF Init, Fresh, Direct
  <1>8. ShortestForm /\ LandsOnTarget32 /\ ReachesNear64
    BY DEF Init, ShortestForm, LandsOnTarget32, ReachesNear64
  <1>9. QED
    BY <1>6, <1>7, <1>8 DEF IInv

\* The typing survives every call.
LEMMA StepType == ASSUME IInv, [Next]_vars PROVE TypeOK'
  <1> USE DEF TypeOK, IInv
  <1>1. CASE UNCHANGED vars \/ NotABranch \/ TooManyOperands \/ RefuseShort \/ RefuseFar
             \/ Untouched
    BY <1>1 DEF vars, call, NotABranch, TooManyOperands, RefuseShort, RefuseFar, Untouched
  <1>2. CASE FarPair
    <2>1. Low32(op0.imm) \in Int32
      BY Low32Type DEF Operand, Int64
    <2>2. op0' \in Operand /\ op1' \in Operand /\ op0'.RelBranch = op0.RelBranch
          /\ op0'.imm = op0.imm
      BY <1>2, <2>1 DEF FarPair, Operand
    <2>3. QED
      BY <1>2, <2>2 DEF FarPair, call
  <1>3. CASE Relative
    <2>1. displacement \in Int
      BY WidthAssumption DEF displacement, delta, branchClass, IClassBranchLength, Classes,
         TranslateRelativeCip, Wrap, Operand, Int64
    <2>2. Mask(displacement) \in Int64
          /\ (~x64 => Mask(displacement) \in 0 .. 2 * DwordHalf - 1)
      BY <1>3, <2>1, WidthAssumption DEF Relative, HighHalfEmpty, Mask, Int64
    <2>3. op0' \in Operand /\ op0'.imm = Mask(displacement)
      BY <1>3, <2>2 DEF Relative, Operand
    <2>4. QED
      BY <1>3, <2>2, <2>3 DEF Relative, call
  <1>4. CASE Memory
    <2>1. op0' \in Operand /\ op0'.RelBranch = op0.RelBranch /\ op0'.imm = op0.imm
      BY <1>4 DEF Memory, Operand
    <2>2. QED
      BY <1>4, <2>1 DEF Memory, call
  <1>5. CASE SegSel
    <2>1. op0.Selector \in Int64
      BY WidthAssumption DEF Operand, Int64
    <2>2. op1' \in Operand
      BY <1>5, <2>1 DEF SegSel, Operand
    <2>3. QED
      BY <1>5, <2>2 DEF SegSel, call
  <1>6. QED
    BY <1>1, <1>2, <1>3, <1>4, <1>5 DEF Next

\* The whole argument about an accepted relative branch.
LEMMA RelativeLands ==
  ASSUME IInv, Relative
  PROVE  (ShortestForm /\ LandsOnTarget32 /\ ReachesNear64)'
  <1> DEFINE v == text
             e == Wrap(v - cip, QwordHalf)
             len == branchClass
             d == displacement
  <1>1. /\ op0 \in Operand /\ cip \in 0 .. 2 * QwordHalf - 1 /\ v \in Int64
        /\ op0' = [op0 EXCEPT !.Size = IF branchClass = 2 THEN "BYTE" ELSE "DWORD",
                              !.RelBranch = TRUE, !.imm = Mask(displacement)]
        /\ UNCHANGED <<call, OperandCount>> /\ result' = "true" /\ result = "none"
        /\ HighHalfEmpty(d)
        /\ ~x64 => cip \in 0 .. 2 * DwordHalf - 1
    BY WidthAssumption DEF IInv, TypeOK, Fresh, Relative, Return
  <1>2. op0'.Size = (IF len = 2 THEN "BYTE" ELSE "DWORD") /\ op0'.imm = Mask(d)
        /\ op0'.Type = "IMM" /\ op0.Type = "IMM"
    BY <1>1 DEF Operand, Relative, Single
  <1>3. e \in Int64
    BY <1>1, WidthAssumption DEF Wrap, Int64
  <1>4. SUFFICES ASSUME Direct'
                 PROVE  (ShortestForm /\ LandsOnTarget32 /\ ReachesNear64)'
    BY DEF ShortestForm, LandsOnTarget32, ReachesNear64
  <1>5. Class \in {"Jcc", "JMP", "CALL_NEAR"} /\ op0.imm = v
    BY <1>1, <1>2, <1>4 DEF Direct, call, IInv, Fresh
  <1>6. /\ delta = e /\ d = Wrap(e - len, QwordHalf)
        /\ len = IF Class = "CALL_NEAR" THEN 5
                 ELSE IF ShortRange(e) THEN 2 ELSE IF Class = "Jcc" THEN 6 ELSE 5
    BY <1>5 DEF delta, displacement, branchClass, TranslateRelativeCip, IClassBranchLength
  <1>7. len \in 0 .. 6 /\ (op0'.Size = "BYTE" <=> len = 2) /\ EncodedLength' = len
    <2>1. len \in {2, 5, 6} /\ (len = 6 => Class = "Jcc") /\ (len = 5 => Class # "Jcc")
      BY <1>5, <1>6
    <2>2. op0'.Size = "BYTE" <=> len = 2
      BY <1>2
    <2>3. Class' = Class
      BY <1>1 DEF call
    <2>4. ASSUME len = 2 PROVE EncodedLength' = len
      BY <2>2, <2>4 DEF EncodedLength
    <2>5. ASSUME len = 5 PROVE EncodedLength' = len
      BY <2>1, <2>2, <2>3, <2>5 DEF EncodedLength
    <2>6. ASSUME len = 6 PROVE EncodedLength' = len
      BY <2>1, <2>2, <2>3, <2>6 DEF EncodedLength
    <2>7. len \in 0 .. 6
      BY <2>1
    <2>8. EncodedLength' = len
      BY <2>1, <2>4, <2>5, <2>6
    <2>9. QED
      BY <2>2, <2>7, <2>8
  <1>8. len = 2 <=> Class # "CALL_NEAR" /\ ShortRange(e)
    BY <1>5, <1>6
  <1>9. ShortestForm'
    <2>1. e \in Int64 => (ShortRange(e) <=> Wrap(e - 2, QwordHalf) \in -ByteHalf .. ByteHalf - 1)
      BY ShortRangeExact
    <2>2. QED
      BY <1>1, <1>3, <1>7, <1>8, <2>1 DEF ShortestForm, call
  <1>10. brdisp' = Wrap(Mask(d), DwordHalf)
    BY <1>2 DEF brdisp
  <1>11. /\ cip \in Int /\ len \in Int /\ v \in Int /\ DwordHalf \in Int /\ QwordHalf \in Int
         /\ Wrap(Mask(d), DwordHalf) \in Int
    <2>1. Mask(d) \in Int
      BY <1>1, WidthAssumption DEF HighHalfEmpty, Mask
    <2>2. Wrap(Mask(d), DwordHalf) \in Int
      BY <2>1, WidthAssumption DEF Wrap
    <2>3. QED
      BY <1>1, <1>7, <2>2, WidthAssumption DEF Int64
  <1>12. Fits'
    <2>1. SUFFICES ASSUME len = 2 PROVE brdisp' \in -ByteHalf .. ByteHalf - 1
      BY <1>7 DEF Fits
    <2>2. d \in -ByteHalf .. ByteHalf - 1
      BY <1>3, <1>6, <1>8, <2>1, WidthAssumption DEF ShortRange, Wrap, Int64
    <2>3. Wrap(Mask(d), DwordHalf) = d
      BY <2>2, WidthAssumption DEF Wrap, Mask
    <2>4. QED
      BY <1>10, <2>2, <2>3
  <1>13. LandsOnTarget32'
    <2>1. SUFFICES ASSUME ~x64 PROVE SameAddress(Landing, text)'
      BY <1>1, <1>12 DEF LandsOnTarget32, call
    <2>2. Mask(d) = IF d < 0 THEN d + 2 * DwordHalf ELSE d
      BY <2>1 DEF Mask
    <2>3. \E k \in -(DwordsPerQword + 1) .. DwordsPerQword + 1 :
             cip + len + Wrap(Mask(d), DwordHalf) - v = k * (2 * DwordHalf)
      BY <1>1, <1>6, <1>7, <2>1, <2>2, Lands32
    <2>4. Landing' = cip + len + Wrap(Mask(d), DwordHalf) /\ text' = v
          /\ AddressSpace' = 2 * DwordHalf
      BY <1>1, <1>7, <1>10, <2>1 DEF Landing, AddressSpace, call
    <2>5. PICK k \in -(DwordsPerQword + 1) .. DwordsPerQword + 1 :
             Landing' - text' = k * AddressSpace'
      <3>1. PICK k \in -(DwordsPerQword + 1) .. DwordsPerQword + 1 :
               cip + len + Wrap(Mask(d), DwordHalf) - v = k * AddressSpace'
        BY <2>3, <2>4
      <3>2. Landing' - text' = k * AddressSpace'
        BY <2>4, <3>1, <1>11
      <3>3. QED
        BY <3>2
    <2>6. QED
      BY <2>5 DEF SameAddress
  <1>14. ReachesNear64'
    <2>1. SUFFICES ASSUME x64, e \in -(DwordHalf - 6) .. DwordHalf - 1
                   PROVE  SameAddress(Landing, text)'
      BY <1>1, <1>12 DEF ReachesNear64, call
    <2>2. Mask(d) = d
      BY <2>1 DEF Mask
    <2>3. \E k \in -(DwordsPerQword + 1) .. DwordsPerQword + 1 :
             cip + len + Wrap(Mask(d), DwordHalf) - v = k * (2 * QwordHalf)
      BY <1>1, <1>6, <1>7, <2>1, <2>2, Lands64
    <2>4. Landing' = cip + len + Wrap(Mask(d), DwordHalf) /\ text' = v
          /\ AddressSpace' = 2 * QwordHalf
      BY <1>1, <1>7, <1>10, <2>1 DEF Landing, AddressSpace, call
    <2>5. PICK k \in -(DwordsPerQword + 1) .. DwordsPerQword + 1 :
             Landing' - text' = k * AddressSpace'
      <3>1. PICK k \in -(DwordsPerQword + 1) .. DwordsPerQword + 1 :
               cip + len + Wrap(Mask(d), DwordHalf) - v = k * AddressSpace'
        BY <2>3, <2>4
      <3>2. Landing' - text' = k * AddressSpace'
        BY <2>4, <3>1, <1>11
      <3>3. QED
        BY <3>2
    <2>6. QED
      BY <2>5 DEF SameAddress
  <1>15. QED
    BY <1>9, <1>13, <1>14

\* The calls that refuse a branch do not refuse a near 64-bit target.
LEMMA RefusalsAreFar ==
  ASSUME IInv, RefuseFar
  PROVE  ReachesNear64'
  <1> DEFINE e == Wrap(text - cip, QwordHalf)
  <1>1. UNCHANGED <<call, OperandCount, op0>> /\ ~HighHalfEmpty(displacement)
        /\ result = "none"
    BY DEF RefuseFar, Return
  <1>2. SUFFICES ASSUME Direct, x64, e \in -(DwordHalf - 6) .. DwordHalf - 1
                 PROVE  FALSE
    BY <1>1 DEF ReachesNear64, Direct, call
  <1>3. op0.imm = text /\ Class \in {"Jcc", "JMP", "CALL_NEAR"}
    BY <1>1, <1>2 DEF IInv, Fresh, Direct
  <1>4. displacement = Wrap(e - branchClass, QwordHalf)
    BY <1>3 DEF displacement, delta, TranslateRelativeCip
  <1>5. branchClass \in 0 .. 6
    BY <1>3 DEF branchClass, IClassBranchLength
  <1>6. cip \in 0 .. 2 * QwordHalf - 1 /\ text \in Int64
    BY WidthAssumption DEF IInv, TypeOK
  <1>7. HighHalfEmpty(displacement)
    BY <1>2, <1>4, <1>5, <1>6, Lands64
  <1>8. QED
    BY <1>1, <1>7

LEMMA StepIInv == ASSUME IInv, [Next]_vars PROVE IInv'
  <1>1. TypeOK'
    BY StepType
  <1>2. Fresh'
    BY DEF Next, vars, call, Return, NotABranch, FarPair, TooManyOperands, RefuseShort,
           RefuseFar, Relative, Memory, SegSel, Untouched, IInv, Fresh, Direct
  <1>3. ASSUME UNCHANGED vars PROVE (ShortestForm /\ LandsOnTarget32 /\ ReachesNear64)'
    BY <1>3 DEF IInv, ShortestForm, LandsOnTarget32, ReachesNear64, vars, call, Direct, Fits,
       brdisp, SameAddress, Landing, AddressSpace, EncodedLength
  <1>4. ASSUME Relative PROVE (ShortestForm /\ LandsOnTarget32 /\ ReachesNear64)'
    BY <1>4, RelativeLands
  <1>5. ASSUME RefuseFar PROVE (ShortestForm /\ LandsOnTarget32 /\ ReachesNear64)'
    BY <1>5, RefusalsAreFar DEF RefuseFar, Return, ShortestForm, LandsOnTarget32
  <1>6. ASSUME RefuseShort PROVE (ShortestForm /\ LandsOnTarget32 /\ ReachesNear64)'
    BY <1>6 DEF RefuseShort, Return, call, ShortestForm, LandsOnTarget32, ReachesNear64
  <1>7. ASSUME NotABranch \/ FarPair \/ TooManyOperands \/ Memory \/ SegSel \/ Untouched
        PROVE  (ShortestForm /\ LandsOnTarget32 /\ ReachesNear64)'
    <2>1. ~Direct'
      <3>1. CASE NotABranch \/ TooManyOperands
        <4>1. NotABranch => Class' = "other"
          BY DEF NotABranch, IClassIsBranch, call
        <4>2. TooManyOperands => OperandCount' # 1
          <5>1. TooManyOperands => OperandCount' = OperandCount /\ OperandCount > 1
            BY DEF TooManyOperands
          <5>2. OperandCount \in Int
            BY DEF IInv, TypeOK
          <5>3. QED
            BY <5>1, <5>2
        <4>3. QED
          BY <3>1, <4>1, <4>2 DEF Direct
      <3>2. CASE FarPair \/ SegSel
        <4>1. op0 \in Operand
          BY DEF IInv, TypeOK
        <4>2. FarPair => op0'.Type = "SEGSEL"
          BY <4>1 DEF FarPair, Operand
        <4>3. SegSel => OperandCount' = 2
          BY DEF SegSel
        <4>4. QED
          BY <3>2, <4>2, <4>3 DEF Direct
      <3>3. CASE Memory
        <4>1. op0 \in Operand /\ op0.Type = "MEM"
          BY <3>3 DEF Memory, Single, IInv, TypeOK
        <4>2. op0' = op0 \/ op0' = [op0 EXCEPT !.Size = "FWORD"]
          BY <3>3 DEF Memory
        <4>3. op0'.Type = "MEM"
          BY <4>1, <4>2 DEF Operand
        <4>4. QED
          BY <4>3 DEF Direct
      <3>4. CASE Untouched
        BY <3>4 DEF Untouched, Direct, Single
      <3>5. QED
        BY <1>7, <3>1, <3>2, <3>3, <3>4
    <2>2. QED
      BY <2>1 DEF ShortestForm, LandsOnTarget32, ReachesNear64
  <1>8. QED
    BY <1>1, <1>2, <1>3, <1>4, <1>5, <1>6, <1>7 DEF Next, IInv

(***************************************************************************)
(* The theorems.                                                           *)
(***************************************************************************)

LEMMA Invariance == Spec => []IInv
  <1>1. Init => IInv
    BY InitIInv
  <1>2. IInv /\ [Next]_vars => IInv'
    BY StepIInv
  <1>3. QED
    BY <1>1, <1>2, PTL DEF Spec

\* TranslateBranchInst leaves well-formed operands, and in 32-bit code a
\* displacement of 32 bits.
THEOREM TypeCorrect == Spec => []TypeOK
  <1>1. IInv => TypeOK
    BY DEF IInv
  <1>2. QED
    BY <1>1, Invariance, PTL

\* The two-byte form of a jump is chosen exactly when its displacement fits.
THEOREM ShortestFormChosen == Spec => []ShortestForm
  <1>1. IInv => ShortestForm
    BY DEF IInv
  <1>2. QED
    BY <1>1, Invariance, PTL

\* In 32-bit code an accepted direct branch goes where its text says.
THEOREM Lands32Correct == Spec => []LandsOnTarget32
  <1>1. IInv => LandsOnTarget32
    BY DEF IInv
  <1>2. QED
    BY <1>1, Invariance, PTL

\* In 64-bit code a target within reach is accepted and reached.
THEOREM Near64Correct == Spec => []ReachesNear64
  <1>1. IInv => ReachesNear64
    BY DEF IInv
  <1>2. QED
    BY <1>1, Invariance, PTL
=============================================================================
