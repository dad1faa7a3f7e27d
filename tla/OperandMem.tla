----------------------------- MODULE OperandMem -----------------------------
(***************************************************************************)
(* HandleMemoryOperand (OperandMem.cpp): what PREFIX[CALC] becomes.  CALC  *)
(* is read once, from left to right: a piece of text between two operators *)
(* is used when the operator after it is met, as base or displacement or,  *)
(* next to a '*', as index or scale.                                       *)
(*                                                                         *)
(* A piece is a register, a number, a name that the caller's cbUnknown     *)
(* knows, or something else.  64-bit values are unsigned, as in the code.  *)
(* What the text read so far denotes is recorded in meant; it is not part  *)
(* of the code, and no guard of the code reads it.                         *)
(***************************************************************************)
EXTENDS Integers, OpSize

CONSTANTS ByteHalf, DwordHalf, QwordHalf,  \* 2^7, 2^31, 2^63
          Regs, StackRegs,                 \* the registers; ESP and EBP
          SegRegs, WordRegs,               \* two-letter names: segments, others
          PrefixSizes,                     \* sizes a prefix may give
          Values,                          \* 64-bit values a number may have
          Cips,
          MaxPieces                        \* pieces that fit calc[64]

ASSUME MemAssumption ==
    /\ ByteHalf \in Nat /\ DwordHalf \in Nat /\ QwordHalf \in Nat
    /\ 1 < ByteHalf /\ ByteHalf < DwordHalf /\ 2 * DwordHalf <= QwordHalf
    /\ \E k \in 1 .. DwordHalf : DwordHalf = k * ByteHalf
    /\ \E k \in 1 .. QwordHalf : QwordHalf = k * DwordHalf
    /\ StackRegs \subseteq Regs
    /\ {"DS", "SS"} \subseteq SegRegs
    /\ "INVALID" \notin SegRegs \union WordRegs
    /\ PrefixSizes \subseteq Sizes \ {"UNSET"}
    /\ "INVALID" \notin Regs /\ "RIP" \in Regs
    /\ Values \subseteq 0 .. 2 * QwordHalf - 1 /\ Cips \subseteq 0 .. 2 * QwordHalf - 1
    /\ MaxPieces \in Nat \ {0}

UInt64 == 0 .. 2 * QwordHalf - 1

VARIABLES x64, cip,      \* XEDPARSE
          Segment, Size, XedEOSZ, Mem,     \* InstOperand
          phase, result,
          sep,           \* the operator before the piece being read
          pieces,        \* how many have been used
          error,         \* whether this call has written an error text
          pending,       \* the factor before a '*'
          meant          \* what the terms before this piece denote

block   == <<x64, cip>>
operand == <<Segment, Size, XedEOSZ, Mem>>
ghost   == <<pending, meant>>
vars    == <<block, operand, phase, result, sep, pieces, error, ghost>>

Widths == {"UNSET", "BYTE", "DWORD", "QWORD"}

MemType == [Disp : BOOLEAN, DispVal : UInt64, DispWidth : Widths,
            Scale : BOOLEAN, ScaleVal : UInt64,
            Base : BOOLEAN, BaseVal : Regs \union {"INVALID"},
            Index : BOOLEAN, IndexVal : Regs \union {"INVALID"},
            ImplicitRip : BOOLEAN]

EmptyMem == [Disp |-> FALSE, DispVal |-> 0, DispWidth |-> "UNSET",
             Scale |-> FALSE, ScaleVal |-> 0,
             Base |-> FALSE, BaseVal |-> "INVALID",
             Index |-> FALSE, IndexVal |-> "INVALID", ImplicitRip |-> FALSE]

\* Every piece has all three fields; its kind tells which counts.
Piece(k, r, v) == [kind |-> k, reg |-> r, val |-> v]
Empty == Piece("empty", "INVALID", 0)
Other == Piece("other", "INVALID", 0)
Pieces == {Piece("reg", r, 0) : r \in Regs}
          \union {Piece("num", "INVALID", v) : v \in Values}
          \union {Piece("name", "INVALID", v) : v \in Values}
          \union {Empty, Other}

NothingMeant == [coef |-> [r \in Regs |-> 0], const |-> 0,
                 regs |-> 0, products |-> 0, disps |-> 0, ok |-> TRUE]

Operators == {"+", "-", "*", "end"}

ToUnsigned(v) == IF v < 0 THEN v + 2 * QwordHalf ELSE v
ToSigned(v)   == IF v >= QwordHalf THEN v - 2 * QwordHalf ELSE v
Negate(v)     == IF v = 0 THEN 0 ELSE 2 * QwordHalf - v

-----------------------------------------------------------------------------

\* xed_shortest_width_unsigned(v, 0x5) and xed_shortest_width_signed(v, 0x5).
ShortestUnsigned(v) == IF v < 2 * ByteHalf THEN "BYTE"
                       ELSE IF v < 2 * DwordHalf THEN "DWORD" ELSE "QWORD"
ShortestSigned(v) == IF ToSigned(v) \in -ByteHalf .. ByteHalf - 1 THEN "BYTE"
                     ELSE IF ToSigned(v) \in -DwordHalf .. DwordHalf - 1 THEN "DWORD"
                     ELSE "QWORD"

\* 1 << (bits - 1) is an int: for 32 bits it is negative, and widens so; for
\* 64 the shift is by 63 of 32 bits, and what it gives changes nothing.
maxhalf(w) == IF w = "BYTE" THEN ByteHalf ELSE 2 * QwordHalf - DwordHalf
minhalf(w) == Negate(maxhalf(w))

\* Variant of PromoteImmediateWidth that promotes past the sign bit only.
PromoteLate(sign, v, w) == IF w = "BYTE" /\ ~sign /\ v > maxhalf(w) THEN "DWORD" ELSE w

PromoteImmediateWidth(sign, v, w) ==
    IF (sign /\ v < minhalf(w)) \/ (~sign /\ v >= maxhalf(w))
    THEN CASE w = "BYTE" -> "DWORD" [] w = "DWORD" -> "QWORD" [] OTHER -> w
    ELSE w

DispWidthOf(sign, v) ==
    PromoteImmediateWidth(sign, v, IF sign THEN ShortestSigned(v) ELSE ShortestUnsigned(v))

-----------------------------------------------------------------------------

Init ==
    /\ x64 \in BOOLEAN /\ cip \in Cips
    /\ Segment = "INVALID" /\ Size = "UNSET" /\ XedEOSZ = EOSZ_64_32(x64) /\ Mem = EmptyMem
    /\ phase = "prefix" /\ result = "none" /\ sep = "+" /\ pieces = 0 /\ error = FALSE
    /\ pending = Empty
    /\ meant = NothingMeant

\* Brackets the wrong way round, a prefix that is neither, an empty CALC.
Refuse ==
    /\ phase = "prefix"
    /\ phase' = "done" /\ result' = "false" /\ error' = TRUE
    /\ UNCHANGED <<block, operand, sep, pieces, ghost>>

\* No prefix, or SIZE PTR SEG: with any of the three left out.  The last two
\* letters are the segment if they are the name of a register.  Without a size
\* the prefix sets the effective operand size to 0, and not to that of the mode.
Prefix ==
    /\ phase = "prefix"
    /\ \/ UNCHANGED <<Segment, Size, XedEOSZ>>
       \/ /\ Segment' \in SegRegs \union WordRegs \union {"INVALID"}
          /\ Size' \in PrefixSizes \union {"UNSET"}
          /\ XedEOSZ' = OpsizeToEosz(Size')
    /\ phase' = "calc"
    /\ UNCHANGED <<block, Mem, result, sep, pieces, error, ghost>>

-----------------------------------------------------------------------------
(* What the text denotes: a sum of registers, products and displacements.  *)

\* A '-' belongs to the piece after it: "-8" is a number, "-ecx" is no register.
Negative  == sep = "-"
IsReg(p)  == p.kind = "reg" /\ ~Negative
IsNum(p)  == p.kind = "num"
IsName(p) == p.kind = "name"
Value(p)  == IF IsNum(p) /\ Negative THEN Negate(p.val) ELSE p.val

\* The piece stands alone, or is a factor.
Alone(next)  == sep # "*" /\ next # "*"
Opens(next)  == sep # "*" /\ next = "*"
Closes(next) == sep = "*" /\ next # "*"

WithRegister(r)   == [meant EXCEPT !.coef[r] = @ + 1, !.regs = @ + 1]
WithConstant(v)   == [meant EXCEPT !.const = (@ + v) % (2 * QwordHalf), !.disps = @ + 1]
WithProduct(r, n) == [meant EXCEPT !.coef[r] = @ + n, !.products = @ + 1]
NoSum             == [meant EXCEPT !.ok = FALSE]

Meaning(p, next) ==
    CASE Alone(next) /\ IsReg(p) -> WithRegister(p.reg)
      [] Alone(next) /\ (IsNum(p) \/ (IsName(p) /\ ~Negative)) -> WithConstant(Value(p))
      [] Opens(next) /\ (IsReg(p) \/ (IsNum(p) /\ ~Negative)) -> meant
      [] Closes(next) /\ IsReg(p) /\ pending.kind = "num" -> WithProduct(p.reg, pending.val)
      [] Closes(next) /\ IsNum(p) /\ pending.kind = "reg" -> WithProduct(pending.reg, p.val)
      [] p = Empty /\ pieces = 0 /\ Alone(next) /\ next = "-" -> meant
      [] OTHER -> NoSum

\* The piece has been used; the loop goes on with the operator after it.
Read(p, next) ==
    /\ phase = "calc" /\ (next # "end" => pieces < MaxPieces - 1)
    /\ pieces' = pieces + 1
    /\ meant' = IF meant.ok THEN Meaning(p, next) ELSE meant
    /\ pending' = IF meant.ok /\ Opens(next) THEN p ELSE Empty
    /\ phase' = IF next = "end" THEN "fixup" ELSE "calc"
    /\ sep' = IF next = "end" THEN "+" ELSE next
    /\ UNCHANGED <<block, Segment, Size, XedEOSZ, result>>

\* Next to a '*' the piece goes to SetMemoryIndexOrScale, elsewhere to
\* SetMemoryDisplacementOrBase.
Factor(next) == sep = "*" \/ next = "*"

-----------------------------------------------------------------------------

SetBase ==
    \E p \in Pieces, next \in Operators :
        /\ ~Factor(next) /\ IsReg(p) /\ ~Mem.Base
        /\ Mem' = [Mem EXCEPT !.Base = TRUE, !.BaseVal = p.reg]
        /\ error' = error
        /\ Read(p, next)

\* Variant of SetImplicitIndex: a second register replaces the base.
SetImplicitBase ==
    \E p \in Pieces, next \in Operators :
        /\ ~Factor(next) /\ IsReg(p) /\ Mem.Base
        /\ Mem' = [Mem EXCEPT !.BaseVal = p.reg]
        /\ error' = error
        /\ Read(p, next)

\* REG + (REG * 1)
SetImplicitIndex ==
    \E p \in Pieces, next \in Operators :
        /\ ~Factor(next) /\ IsReg(p) /\ Mem.Base
        /\ Mem' = [Mem EXCEPT !.Index = TRUE, !.IndexVal = p.reg,
                              !.Scale = TRUE, !.ScaleVal = 1]
        /\ error' = error
        /\ Read(p, next)

SetDisplacement ==
    \E p \in Pieces, next \in Operators :
        /\ ~Factor(next) /\ (IsNum(p) \/ IsName(p))
        /\ Mem' = [Mem EXCEPT !.Disp = TRUE, !.DispVal = Value(p),
                              !.DispWidth = DispWidthOf(Negative, Value(p))]
        /\ error' = error
        /\ Read(p, next)

\* "Unknown displacement or base": the message, and on with the next piece.
UnknownTerm ==
    \E p \in Pieces, next \in Operators :
        /\ ~Factor(next) /\ ~IsReg(p) /\ ~IsNum(p) /\ ~IsName(p)
        /\ Mem' = Mem /\ error' = TRUE
        /\ Read(p, next)

SetIndex ==
    \E p \in Pieces, next \in Operators :
        /\ Factor(next) /\ IsReg(p)
        /\ Mem' = [Mem EXCEPT !.Index = TRUE, !.IndexVal = p.reg]
        /\ error' = error
        /\ Read(p, next)

SetScale ==
    \E p \in Pieces, next \in Operators :
        /\ Factor(next) /\ IsNum(p)
        /\ Mem' = [Mem EXCEPT !.Scale = TRUE, !.ScaleVal = Value(p)]
        /\ error' = error
        /\ Read(p, next)

\* "Unknown index or scale": names are not looked up here.
UnknownFactor ==
    \E p \in Pieces, next \in Operators :
        /\ Factor(next) /\ ~IsReg(p) /\ ~IsNum(p)
        /\ Mem' = Mem /\ error' = TRUE
        /\ Read(p, next)

-----------------------------------------------------------------------------

\* Lines 122-136.
DefaultSegment ==
    IF Segment # "INVALID" THEN Segment
    ELSE IF Mem.BaseVal \in StackRegs /\ ~x64 THEN "SS" ELSE "DS"

\* Variant of TranslateRelativeCip that stores the signed number.
TranslateRelativeSigned(v) == v - cip

\* (LONGLONG)((LONGLONG)Value - Parse->cip), as an unsigned number.
TranslateRelativeCip(v) == ToUnsigned(v - cip)

\* masked == 0 || masked == 0xFFFFFFFF00000000
HighHalfEmpty(v) == ToSigned(v) \in -(2 * DwordHalf) .. 2 * DwordHalf - 1

AbsoluteAddress == ~Mem.Base /\ ~Mem.Index /\ ~Mem.Scale

AtLeastDword(w) == IF w = "BYTE" THEN "DWORD" ELSE w

\* Lines 138-169.
WithDisplacement(seg) ==
    LET w == IF Mem.Base THEN Mem.DispWidth ELSE AtLeastDword(Mem.DispWidth)
        d == TranslateRelativeCip(Mem.DispVal)
    IN  IF ~x64 \/ seg # "DS" \/ ~AbsoluteAddress THEN [Mem EXCEPT !.DispWidth = w]
        ELSE IF ~HighHalfEmpty(d) THEN [Mem EXCEPT !.DispWidth = "QWORD"]
        ELSE [Mem EXCEPT !.DispVal = d, !.DispWidth = "DWORD",
                         !.Base = TRUE, !.BaseVal = "RIP", !.ImplicitRip = TRUE]

\* Lines 171-178: MOV EAX, [ECX * 8]
WithoutDisplacement ==
    IF ~Mem.Base /\ Mem.Index /\ Mem.Scale
    THEN [Mem EXCEPT !.Disp = TRUE, !.DispVal = 0, !.DispWidth = "DWORD"]
    ELSE Mem

Fixup ==
    /\ phase = "fixup"
    /\ Segment' = DefaultSegment
    /\ Mem' = IF Mem.Disp THEN WithDisplacement(DefaultSegment) ELSE WithoutDisplacement
    /\ phase' = "done" /\ result' = "true"
    /\ UNCHANGED <<block, Size, XedEOSZ, sep, pieces, error, ghost>>

Next == \/ Refuse \/ Prefix
        \/ SetBase \/ SetImplicitIndex \/ SetDisplacement \/ UnknownTerm
        \/ SetIndex \/ SetScale \/ UnknownFactor
        \/ Fixup

Spec == Init /\ [][Next]_vars

-----------------------------------------------------------------------------

Terms == [coef : [Regs -> Nat], const : UInt64, regs : Nat, products : Nat,
          disps : Nat, ok : BOOLEAN]

TypeOK ==
    /\ x64 \in BOOLEAN /\ cip \in Cips
    /\ Segment \in SegRegs \union WordRegs \union {"INVALID"}
    /\ Size \in PrefixSizes \union {"UNSET"} /\ XedEOSZ \in 0 .. 3
    /\ Mem \in MemType
    /\ phase \in {"prefix", "calc", "fixup", "done"} /\ result \in {"none", "true", "false"}
    /\ sep \in {"+", "-", "*"} /\ pieces \in 0 .. MaxPieces /\ error \in BOOLEAN
    /\ pending \in Pieces /\ meant \in Terms

\* "[Base + (Index * Scale) + Displacement] -- IN ANY ORDER", each at most once
\* (line 72); a second register counts as an index without a scale (line 196).
Formed == /\ meant.ok /\ meant.disps <= 1 /\ meant.products <= 1
          /\ meant.regs + meant.products <= 2

\* The displacement as the processor reads it: so many bytes, sign-extended.
SignExtended(v, w) ==
    LET half == IF w = "BYTE" THEN ByteHalf ELSE IF w = "DWORD" THEN DwordHalf ELSE QwordHalf
    IN  ((v + half) % (2 * half)) - half

\* The address of the operand: registers with their factors, and a constant.
\* A RIP-relative displacement is still measured from the instruction's start.
AddressCoef ==
    [r \in Regs |->
        (IF Mem.Base /\ ~Mem.ImplicitRip /\ Mem.BaseVal = r THEN 1 ELSE 0)
        + (IF Mem.Index /\ Mem.IndexVal = r THEN Mem.ScaleVal ELSE 0)]

AddressConst ==
    (IF Mem.ImplicitRip THEN cip ELSE 0)
    + (IF Mem.Disp THEN SignExtended(Mem.DispVal, Mem.DispWidth) ELSE 0)

AddressSpace == IF x64 THEN 2 * QwordHalf ELSE 2 * DwordHalf

\* The 32 bits of a displacement, read with their sign, can be the number.  They
\* cannot in 64-bit code from 2^31 to 2^32 - 1, where maxhalf does not promote
\* an absolute displacement (Operand.cpp:10), nor for distances from the
\* instruction outside 32 signed bits that the mask of lines 154-157 lets pass.
Exact == x64 => IF Mem.ImplicitRip
                THEN ToSigned(Mem.DispVal) \in -DwordHalf .. DwordHalf - 1
                ELSE meant.const \notin DwordHalf .. 2 * DwordHalf - 1

\* An operand of the documented form denotes the address of its text, in
\* whatever order the terms come and however a register is used twice: exactly
\* where the displacement can be exact, and otherwise up to a multiple of 2^32,
\* since the processor reads its 32 bits with their sign.
DenotesText ==
    result = "true" /\ Formed =>
        /\ AddressCoef = meant.coef
        /\ (AddressConst - meant.const) % (2 * DwordHalf) = 0
        /\ Exact => (AddressConst - meant.const) % AddressSpace = 0

-----------------------------------------------------------------------------
(* Why it holds: while the text still can be of the form, the flags of the  *)
(* operand tell which terms have been read.                                 *)

Room == /\ meant.ok
        /\ meant.regs + meant.products + (IF sep = "*" THEN 1 ELSE 0) <= 2
        /\ meant.products + (IF sep = "*" THEN 1 ELSE 0) <= 1

\* The number of times a register counts, a factor before a '*' left out.
Counted(r) == (IF Mem.Base /\ Mem.BaseVal = r THEN 1 ELSE 0)
              + (IF sep # "*" /\ Mem.Index /\ Mem.IndexVal = r THEN Mem.ScaleVal ELSE 0)

RegsRead ==
    phase \in {"calc", "fixup"} /\ Room =>
        /\ Mem.Base <=> meant.regs >= 1
        /\ \A r \in Regs : meant.coef[r] = Counted(r)
        /\ sep # "*" => IF meant.regs = 2 \/ meant.products = 1
                        THEN Mem.Index /\ Mem.Scale
                        ELSE ~Mem.Index /\ ~Mem.Scale
        /\ sep = "*" => \/ /\ pending.kind = "reg" /\ Mem.Index /\ ~Mem.Scale
                           /\ Mem.IndexVal = pending.reg
                        \/ /\ pending.kind = "num" /\ ~Mem.Index /\ Mem.Scale
                           /\ Mem.ScaleVal = pending.val

DispRead ==
    phase \in {"calc", "fixup"} /\ meant.ok /\ meant.disps <= 1 =>
        IF meant.disps = 0 THEN ~Mem.Disp /\ meant.const = 0
        ELSE /\ Mem.Disp /\ meant.const = Mem.DispVal
             /\ \E sign \in BOOLEAN : Mem.DispWidth = DispWidthOf(sign, Mem.DispVal)

Unread ==
    /\ phase \in {"prefix", "calc", "fixup"} => result = "none" /\ ~Mem.ImplicitRip
    /\ phase = "prefix" => /\ Mem = EmptyMem /\ sep = "+" /\ pieces = 0
                           /\ meant = NothingMeant
    /\ phase \in {"prefix", "calc"} => pieces < MaxPieces
    /\ phase = "fixup" => sep = "+"

IInv == TypeOK /\ Unread /\ RegsRead /\ DispRead /\ DenotesText
=============================================================================
