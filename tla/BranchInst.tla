----------------------------- MODULE BranchInst -----------------------------
(***************************************************************************)
(* TranslateBranchInst (BranchInst.cpp): what happens to the operands of a *)
(* branch between the parser and the validator.  A behaviour is one call:  *)
(* Init ranges over the instructions the parser can hand over, and each    *)
(* action is the whole call along one of its paths.                        *)
(*                                                                         *)
(* Integers keep their width.  ByteHalf, WordHalf, DwordHalf and QwordHalf *)
(* stand for 2^7, 2^15, 2^31 and 2^63, so that a 64-bit signed value is a  *)
(* number in -QwordHalf .. QwordHalf - 1; TLC takes small ones, the proofs *)
(* take any.  The Signed flag of an immediate is left out: its one reader  *)
(* skips branches (Validator.cpp:9).                                       *)
(***************************************************************************)
EXTENDS Integers

CONSTANTS ByteHalf, WordHalf, DwordHalf, QwordHalf,
          DwordsPerQword,  \* QwordHalf / DwordHalf
          Cips,            \* instruction pointers the caller passes
          Values           \* values a second operand may have in the text

Int64 == -QwordHalf .. QwordHalf - 1
Int32 == -DwordHalf .. DwordHalf - 1

ASSUME WidthAssumption ==
    /\ ByteHalf \in Nat /\ WordHalf \in Nat /\ DwordHalf \in Nat /\ QwordHalf \in Nat
    /\ DwordsPerQword \in Nat
    /\ 6 < ByteHalf /\ ByteHalf < WordHalf
    /\ 2 * WordHalf <= DwordHalf /\ 4 * DwordHalf <= QwordHalf
    /\ QwordHalf = DwordsPerQword * DwordHalf
    /\ Cips \subseteq 0 .. 2 * QwordHalf - 1
    /\ Values \subseteq Int64

\* Two's complement of a value at most one wrap away.
Wrap(v, half) == IF v >= half THEN v - 2 * half
                 ELSE IF v < -half THEN v + 2 * half ELSE v

\* Conversion to a 32-bit int.
Low32(v) == ((v + DwordHalf) % (2 * DwordHalf)) - DwordHalf

\* The classes that IClassBranchLength tells apart; "Jcc" is the 16 classes
\* of lines 22-37, "other" everything that is not a branch.
Classes == {"Jcc", "LOOP", "JRCXZ", "JMP", "JMP_FAR", "CALL_NEAR", "CALL_FAR", "other"}

\* An operand.  imm is the 8 bytes at the place of Imm.imm in the union: the
\* value of an immediate, the DispVal of a memory operand, 0 otherwise.
\* "VALUE" is the size OpsizeFromValue finds, which nothing here reads.
Operand == [Type : {"INVALID", "REG", "IMM", "MEM", "SEGSEL"},
            Size : {"UNSET", "VALUE", "BYTE", "WORD", "DWORD", "FWORD"},
            imm : Int64, RelBranch : BOOLEAN,
            Selector : 0 .. 2 * WordHalf - 1, Offset : Int32]

VARIABLES x64, cip,            \* XEDPARSE: the mode, the instruction pointer
          Class, Short, Far,   \* Inst: the class and the modifiers
          OperandCount,        \* Inst::OperandCount
          op0, op1,            \* Inst::Operands[0] and [1]
          text,                \* Operands[0].Imm.imm as the text gave it
          result               \* "none", then "true" or the error text

call == <<x64, cip, Class, Short, Far, text>>
vars == <<call, OperandCount, op0, op1, result>>

Blank == [Type |-> "INVALID", Size |-> "UNSET", imm |-> 0, RelBranch |-> FALSE,
          Selector |-> 0, Offset |-> 0]

\* What AnalyzeOperand makes of an operand whose value in the text is v.
Parsed(v) ==
    {[Blank EXCEPT !.Type = "REG", !.Size = "DWORD"],
     [Blank EXCEPT !.Type = "IMM", !.Size = "VALUE", !.imm = v],
     [Blank EXCEPT !.Type = "SEGSEL", !.Size = "DWORD", !.Selector = 1, !.Offset = Low32(v)]}
    \union
    {[Blank EXCEPT !.Type = "MEM", !.Size = s, !.imm = v] : s \in {"UNSET", "DWORD", "FWORD"}}

-----------------------------------------------------------------------------

IClassIsBranch(c) == c # "other"

IClassBranchLength(c, Imm8) ==
    CASE c = "Jcc"               -> IF Imm8 THEN 2 ELSE 6
      [] c \in {"LOOP", "JRCXZ"} -> 2
      [] c = "JMP"               -> IF Imm8 THEN 2 ELSE 5
      [] c = "CALL_NEAR"         -> 5
      [] OTHER                   -> 0

\* (LONGLONG)((LONGLONG)Value - Parse->cip)
TranslateRelativeCip(Value) == Wrap(Value - cip, QwordHalf)

\* Variant of ShortRange that forgets the length of the short jump.
ShortRangeTight(delta) == delta <= ByteHalf - 1 /\ delta > -(ByteHalf - 1)

\* (delta <= 127 + 2) && (delta > -127)
ShortRange(delta) == delta <= ByteHalf - 1 + 2 /\ delta > -(ByteHalf - 1)

\* Variant of HighHalfEmpty that accepts forward displacements only.
HighHalfZero(d) == d \in 0 .. 2 * DwordHalf - 1

\* masked == 0 || masked == 0xFFFFFFFF00000000
HighHalfEmpty(d) == d \in -(2 * DwordHalf) .. 2 * DwordHalf - 1

\* Variant of Mask without the condition on the mode's address size.
MaskNever(d) == d

\* if(!Parse->x64) delta &= 0xFFFFFFFF;
Mask(d) == IF ~x64 /\ d < 0 THEN d + 2 * DwordHalf ELSE d

delta == TranslateRelativeCip(op0.imm)

branchClass == IClassBranchLength(Class, ShortRange(delta))

\* Variant of displacement that leaves the length of the instruction out.
displacementFromStart == delta

\* delta -= branchClass;
displacement == Wrap(delta - branchClass, QwordHalf)

-----------------------------------------------------------------------------

Init ==
    /\ x64 \in BOOLEAN
    /\ cip \in Cips /\ (x64 \/ cip < 2 * DwordHalf)
    /\ Class \in Classes
    /\ Short \in BOOLEAN /\ Far \in BOOLEAN
    /\ ~(Short /\ Far)                     \* one modifier, Parser.cpp:223
    /\ Far => Class # "JMP"                \* MnemonicTable.cpp:52-57
    /\ OperandCount \in 0 .. 4
    /\ text \in IF OperandCount = 1 THEN Int64 ELSE Values
    /\ IF OperandCount = 0 THEN op0 = Blank ELSE op0 \in Parsed(text)
    /\ IF OperandCount <= 1 THEN op1 = Blank ELSE \E v \in Values : op1 \in Parsed(v)
    /\ result = "none"

Return(r) == result = "none" /\ result' = r

\* Lines 64-75.
NotABranch ==
    /\ ~IClassIsBranch(Class)
    /\ Return(IF Short THEN "Unsupported 'short' modifier for instruction" ELSE "true")
    /\ UNCHANGED <<call, OperandCount, op0, op1>>

\* Lines 78-89: JMP FAR offset, selector.
FarPair ==
    /\ IClassIsBranch(Class)
    /\ OperandCount = 2 /\ Far
    /\ op0' = [op0 EXCEPT !.Type = "SEGSEL", !.Offset = Low32(op0.imm)]
    /\ op1' = [op1 EXCEPT !.Type = "IMM", !.Size = "WORD"]
    /\ Return("true")
    /\ UNCHANGED <<call, OperandCount>>

\* Lines 91-92.
TooManyOperands ==
    /\ IClassIsBranch(Class)
    /\ OperandCount > 1 /\ ~(OperandCount = 2 /\ Far)
    /\ Return("Too many operands in branch")
    /\ UNCHANGED <<call, OperandCount, op0, op1>>

Single(type) == IClassIsBranch(Class) /\ OperandCount <= 1 /\ op0.Type = type

\* Lines 113-117.
RefuseShort ==
    /\ Single("IMM")
    /\ Short /\ branchClass > 2
    /\ Return("Unable to use a short jump for displacement")
    /\ UNCHANGED <<call, OperandCount, op0, op1>>

\* Lines 120-126.
RefuseFar ==
    /\ Single("IMM")
    /\ ~(Short /\ branchClass > 2)
    /\ ~HighHalfEmpty(displacement)
    /\ Return("Branch displacement is too large")
    /\ UNCHANGED <<call, OperandCount, op0, op1>>

\* Lines 98-136: the address in the text becomes a displacement.
Relative ==
    /\ Single("IMM")
    /\ ~(Short /\ branchClass > 2)
    /\ HighHalfEmpty(displacement)
    /\ op0' = [op0 EXCEPT !.Size = IF branchClass = 2 THEN "BYTE" ELSE "DWORD",
                          !.RelBranch = TRUE, !.imm = Mask(displacement)]
    /\ Return("true")
    /\ UNCHANGED <<call, OperandCount, op1>>

\* Lines 137-150.
Memory ==
    /\ Single("MEM")
    /\ LET isFar == Class \in {"CALL_FAR", "JMP_FAR"}
           bad   == isFar /\ op0.Size \notin {"UNSET", "FWORD"}
       IN  /\ Return(IF bad THEN "Invalid memory type for far branch" ELSE "true")
           /\ op0' = IF isFar /\ ~bad THEN [op0 EXCEPT !.Size = "FWORD"] ELSE op0
    /\ UNCHANGED <<call, OperandCount, op1>>

\* Lines 151-159: JMP FAR selector:offset becomes two operands.
SegSel ==
    /\ Single("SEGSEL")
    /\ OperandCount' = 2
    /\ op1' = [op1 EXCEPT !.Type = "IMM", !.Size = "WORD", !.imm = op0.Selector]
    /\ Return("true")
    /\ UNCHANGED <<call, op0>>

\* Line 161: a register, or no operand at all.
Untouched ==
    /\ Single("REG") \/ Single("INVALID")
    /\ Return("true")
    /\ UNCHANGED <<call, OperandCount, op0, op1>>

Next == \/ NotABranch \/ FarPair \/ TooManyOperands \/ RefuseShort \/ RefuseFar
        \/ Relative \/ Memory \/ SegSel \/ Untouched

Spec == Init /\ [][Next]_vars

-----------------------------------------------------------------------------

TypeOK ==
    /\ x64 \in BOOLEAN /\ cip \in Cips /\ Class \in Classes
    /\ Short \in BOOLEAN /\ Far \in BOOLEAN
    /\ OperandCount \in 0 .. 4
    /\ op0 \in Operand /\ op1 \in Operand
    /\ text \in Int64
    /\ op0.RelBranch /\ ~x64 => op0.imm \in 0 .. 2 * DwordHalf - 1

\* What the processor does with an encoded relative branch: xed_relbr takes a
\* 32-bit int, and the branch goes that far from the end of the instruction.
brdisp == Wrap(op0.imm, DwordHalf)

EncodedLength == IF op0.Size = "BYTE" THEN 2 ELSE IF Class = "Jcc" THEN 6 ELSE 5

Landing == cip + EncodedLength + brdisp

AddressSpace == IF x64 THEN 2 * QwordHalf ELSE 2 * DwordHalf

SameAddress(a, b) ==
    \E k \in -(DwordsPerQword + 1) .. DwordsPerQword + 1 : a - b = k * AddressSpace

\* The displacement fits the width the encoder is asked to write.
Fits == op0.Size = "BYTE" => brdisp \in -ByteHalf .. ByteHalf - 1

\* The direct branches that come in a 32-bit form.
Direct == op0.Type = "IMM" /\ Class \in {"Jcc", "JMP", "CALL_NEAR"} /\ OperandCount = 1

\* A jump that has a two-byte form gets it exactly when the distance from the
\* end of those two bytes fits them (lines 106-109).
ShortestForm ==
    result = "true" /\ Direct /\ Class # "CALL_NEAR" =>
        (op0.Size = "BYTE" <=> Wrap(Wrap(text - cip, QwordHalf) - 2, QwordHalf)
                                  \in -ByteHalf .. ByteHalf - 1)

\* In 32-bit code every accepted direct branch goes where its text says,
\* across the wrap of the address space too (lines 100-135).
LandsOnTarget32 ==
    result = "true" /\ Direct /\ ~x64 => Fits /\ SameAddress(Landing, text)

\* In 64-bit code a target that a 32-bit displacement reaches is accepted and
\* reached; only the modifier SHORT can refuse it (lines 113-135).
ReachesNear64 ==
    Direct /\ x64 /\ result # "none" /\ ~Short
    /\ Wrap(text - cip, QwordHalf) \in -(DwordHalf - 6) .. DwordHalf - 1
        => result = "true" /\ Fits /\ SameAddress(Landing, text)

\* Before the return the operand is the one the text gave, and in 32-bit code
\* the caller's instruction pointer has 32 bits.
Fresh ==
    /\ result = "none" => ~op0.RelBranch /\ (Direct => op0.imm = text)
    /\ ~x64 => cip < 2 * DwordHalf

-----------------------------------------------------------------------------
(* Statements of the repository that the code does not keep.               *)

\* "Branches can't have a displacement larger than 32 bits" (line 119): so in
\* 64-bit code an accepted direct branch goes where its text says.
LandsOnTarget64 ==
    result = "true" /\ Direct /\ x64 => Fits /\ SameAddress(Landing, text)
=============================================================================
