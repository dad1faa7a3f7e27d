------------------------------ MODULE Assemble ------------------------------
(***************************************************************************)
(* XEDParseAssemble (XEDParse.cpp), called again and again on one XEDPARSE *)
(* block: the parser's operands, the branch and validation passes, and the *)
(* encoder tried at three effective widths.  In 64-bit code a RIP-relative *)
(* displacement depends on the length of the instruction, which is known   *)
(* only once it is encoded: Translate encodes, subtracts the length from   *)
(* the operands in place, encodes again, and does not put the operands     *)
(* back when it moves on to the next width.                                *)
(*                                                                         *)
(* An operand keeps its type and, when it is RIP-relative, its address and *)
(* its displacement.  What the text, the table and the branch arithmetic   *)
(* decide is a choice among the outcomes the code has for such operands    *)
(* (BranchInst and LookupTable hold the detail).                           *)
(***************************************************************************)
EXTENDS Integers

CONSTANTS DwordHalf, QwordHalf,  \* 2^31 and 2^63
          MaxLength,             \* XED_MAX_INSTRUCTION_BYTES, 15
          MaxOperands,           \* the size of Inst::Operands, 4
          MaxTokens,             \* operands a text can have, 6
          Cips, Addresses        \* 64-bit values

ASSUME AssembleAssumption ==
    /\ DwordHalf \in Nat /\ QwordHalf \in Nat /\ MaxLength \in Nat
    /\ MaxOperands \in Nat /\ MaxTokens \in Nat
    /\ 2 <= MaxOperands /\ MaxOperands <= MaxTokens
    /\ MaxLength < DwordHalf /\ 4 * DwordHalf <= QwordHalf
    /\ Cips \subseteq 0 .. 2 * QwordHalf - 1
    /\ Addresses \subseteq 0 .. 2 * QwordHalf - 1

VARIABLES x64, cip,            \* XEDPARSE: what the caller sets
          given,               \* ... and how many operands its text has
          error,               \* XEDPARSE: whose text the error buffer holds
          dest_size, dest,     \* XEDPARSE: the length, and the displacements written
          Class,               \* Inst: what the passes tell apart
          OperandCount, Operands,
          phase,               \* where the call is
          attempt,             \* which of the Widths is being tried
          i, reEncode,         \* the locals of TryRecode
          enc,                 \* the encoder's answer for each width, 0 for none
          result

block == <<x64, cip, given>>
inst  == <<Class, OperandCount, Operands>>
local == <<attempt, i, reEncode>>
vars  == <<block, error, dest_size, dest, inst, phase, local, enc, result>>

\* InstOperand Operands[4]
Slots == 1 .. MaxOperands

Classes == {"branch", "string", "x87", "XCHG", "OUT", "other"}

OperandType == {"INVALID", "REG", "IMM", "MEM", "SEGSEL"}

Operand == [Type : OperandType, ImplicitRip : BOOLEAN, DispVal : Int, address : Int]

Plain(type) == [Type |-> type, ImplicitRip |-> FALSE, DispVal |-> 0, address |-> 0]

Zeros == [s \in Slots |-> 0]

\* The effective widths, in the order Translate tries them.
Order32First == <<32, 64, 16>>
Order16Never == <<32, 64, 64>>
Order16First == <<32, 16, 64>>
Widths == Order32First

Encodings == [{16, 32, 64} -> 0 .. MaxLength]

Wrap(v, half) == IF v >= half THEN v - 2 * half
                 ELSE IF v < -half THEN v + 2 * half ELSE v

\* (LONGLONG)((LONGLONG)Value - Parse->cip)
TranslateRelativeCip(a) == Wrap(a - cip, QwordHalf)

\* masked == 0 || masked == 0xFFFFFFFF00000000 (OperandMem.cpp:157)
HighHalfEmpty(d) == d \in -(2 * DwordHalf) .. 2 * DwordHalf - 1

\* Variant of TooLarge for a displacement of 31 bits and a sign.
TooLargeSigned(d) == d \notin -DwordHalf .. DwordHalf - 1

\* abs((LONGLONG)DispVal) > ULONG_MAX
TooLarge(d) == d > 2 * DwordHalf - 1 \/ -d > 2 * DwordHalf - 1

\* operand->Type == OPERAND_MEM && operand->Mem.ImplicitRip
IsRip(op) == op.Type = "MEM" /\ op.ImplicitRip

-----------------------------------------------------------------------------

Init ==
    /\ x64 \in BOOLEAN /\ cip \in Cips /\ given \in 0 .. MaxTokens
    /\ error = "stale" /\ dest_size = 0 /\ dest = Zeros
    /\ Class = "other" /\ OperandCount = 0
    /\ Operands = [s \in Slots |-> Plain("INVALID")]
    /\ phase = "idle" /\ attempt = 1 /\ i = 1 /\ reEncode = FALSE
    /\ enc = [w \in {16, 32, 64} |-> 0]
    /\ result = "none"

\* return XEDPARSE_ERROR, with this text in the buffer.
Fail(text) == phase' = "idle" /\ result' = "ERROR" /\ error' = text

\* The caller fills the block in and calls; the instruction is zeroed.  The
\* block still holds the text, the length and the bytes of the call before.
Call ==
    /\ phase = "idle"
    /\ x64' \in BOOLEAN /\ cip' \in Cips /\ given' \in 0 .. MaxTokens
    /\ error' = "stale"
    /\ Class' = "other" /\ OperandCount' = 0
    /\ Operands' = [s \in Slots |-> Plain("INVALID")]
    /\ phase' = "parse" /\ result' = "none"
    /\ attempt' = 1 /\ i' = 1 /\ reEncode' = FALSE
    /\ enc' = [w \in {16, 32, 64} |-> 0]
    /\ UNCHANGED <<dest_size, dest>>

\* An address with neither base nor index, segment DS, in 64-bit code.
RipOperand(a) ==
    IF HighHalfEmpty(TranslateRelativeCip(a))
    THEN [Type |-> "MEM", ImplicitRip |-> TRUE,
          DispVal |-> TranslateRelativeCip(a), address |-> a]
    ELSE Plain("MEM")

Parsed == {Plain(t) : t \in {"REG", "IMM", "MEM", "SEGSEL"}}
          \union IF x64 THEN {RipOperand(a) : a \in Addresses} ELSE {}

\* AnalyzeOperand accepts a token.  A term of a memory operand that is no
\* register and no number leaves its message and is passed over
\* (OperandMem.cpp:224, 249).
AnalyzeOperand ==
    /\ phase = "parse" /\ OperandCount < given /\ OperandCount < MaxOperands
    /\ OperandCount' = OperandCount + 1
    /\ \E op \in Parsed :
           /\ Operands' = [Operands EXCEPT ![OperandCount + 1] = op]
           /\ error' \in {error} \union IF op.Type = "MEM" THEN {"message"} ELSE {}
    /\ UNCHANGED <<block, dest_size, dest, Class, phase, local, enc, result>>

\* The loop writes one operand more than the array has: behind it, over what
\* the build has put there.  That is storage of the call which is not read
\* any more, for the count is refused when the loop is over, or something
\* the process does not survive.
OverrunOperand ==
    /\ phase = "parse" /\ OperandCount < given /\ OperandCount >= MaxOperands
    /\ OperandCount' = OperandCount + 1
    /\ phase' \in {"parse", "stopped"}
    /\ error' \in {error, "message"}
    /\ UNCHANGED <<block, dest_size, dest, Class, Operands, local, enc, result>>

\* Every other return of ParseInstString: modifiers, tokens, a bad operand,
\* too many of them, an unknown mnemonic.
ParseFails ==
    /\ phase = "parse"
    /\ Fail("message")
    /\ UNCHANGED <<block, dest_size, dest, inst, local, enc>>

\* Variant of ParseEnds that does not count the operands.
ParseEndsUncounted ==
    /\ phase = "parse" /\ OperandCount = given
    /\ Class' \in Classes
    /\ phase' = "branch"
    /\ UNCHANGED <<block, error, dest_size, dest, OperandCount, Operands, local, enc, result>>

\* The mnemonic is known.  A string instruction drops its operands, which are
\* implicit (MnemonicTable.cpp:122).
ParseEnds ==
    /\ phase = "parse" /\ OperandCount = given /\ OperandCount <= MaxOperands
    /\ Class' \in Classes
    /\ OperandCount' = IF Class' = "string" THEN 0 ELSE OperandCount
    /\ phase' = "branch"
    /\ UNCHANGED <<block, error, dest_size, dest, Operands, local, enc, result>>

-----------------------------------------------------------------------------

\* TranslateBranchInst with a message: SHORT without a branch, too many
\* operands, a displacement or a memory type that does not do.
BranchFails ==
    /\ phase = "branch"
    /\ \/ Class # "branch"
       \/ OperandCount > 1
       \/ Operands[1].Type \in {"IMM", "MEM"}
    /\ Fail("message")
    /\ UNCHANGED <<block, dest_size, dest, inst, local, enc>>

\* JMP FAR offset, selector: the two operands change type in place.
BranchFarPair ==
    /\ phase = "branch"
    /\ Class = "branch" /\ OperandCount = 2
    /\ Operands' = [Operands EXCEPT ![1].Type = "SEGSEL", ![2].Type = "IMM"]
    /\ phase' = "validate"
    /\ UNCHANGED <<block, error, dest_size, dest, Class, OperandCount, local, enc, result>>

\* JMP FAR selector:offset becomes two operands.
BranchSegSel ==
    /\ phase = "branch"
    /\ Class = "branch" /\ OperandCount = 1 /\ Operands[1].Type = "SEGSEL"
    /\ OperandCount' = 2
    /\ Operands' = [Operands EXCEPT ![2].Type = "IMM"]
    /\ phase' = "validate"
    /\ UNCHANGED <<block, error, dest_size, dest, Class, local, enc, result>>

BranchPasses ==
    /\ phase = "branch"
    /\ Class = "branch" => OperandCount <= 1 /\ Operands[1].Type # "SEGSEL"
    /\ phase' = "validate"
    /\ UNCHANGED <<block, error, dest_size, dest, inst, local, enc, result>>

-----------------------------------------------------------------------------

\* ValidateFpuOperands: an implicit ST0 is appended.
AddsST0 == Class = "x87" /\ OperandCount <= 1

WithST0 == IF AddsST0 THEN [Operands EXCEPT ![OperandCount + 1] = Plain("REG")]
                      ELSE Operands

\* XCHG takes its memory operand first.
Swapped(ops) == IF Class = "XCHG" /\ ops[2].Type = "MEM"
                THEN [ops EXCEPT ![1] = ops[2], ![2] = ops[1]]
                ELSE ops

\* The ways ResizeSingleOperand returns: "silent" is false without a message.
SingleOutcomes(t) ==
    CASE t = "REG"            -> {"true"}
      [] t \in {"IMM", "MEM"} -> {"true", "message"}
      [] OTHER                -> {"silent"}

\* The same for the first two of several operands.
DoubleOutcomes(t1, t2) ==
    CASE t1 = "SEGSEL"                       -> {"true"}
      [] t1 = "IMM"                          -> IF Class = "OUT" /\ t2 = "REG"
                                                THEN SingleOutcomes(t1) ELSE {"message"}
      [] t1 = "REG" /\ t2 = "REG"            -> {"true"}
      [] t1 = "REG" /\ t2 \in {"IMM", "MEM"} -> {"true", "message"}
      [] t1 = "MEM" /\ t2 \in {"REG", "IMM"} -> {"true", "message"}
      [] t1 = "MEM" /\ t2 = "MEM"            -> {"message"}
      [] OTHER                               -> {"silent"}

Outcomes(ops, n) == IF n = 0 THEN {"true"}
                    ELSE IF n = 1 THEN SingleOutcomes(ops[1].Type)
                    ELSE DoubleOutcomes(ops[1].Type, ops[2].Type)

ValidateInstOperands ==
    /\ phase = "validate"
    /\ LET n   == IF AddsST0 THEN OperandCount + 1 ELSE OperandCount
           ops == IF n > 1 THEN Swapped(WithST0) ELSE WithST0
       IN  /\ OperandCount' = n
           /\ Operands' = ops
           /\ \/ /\ "true" \in Outcomes(ops, n)
                 /\ phase' = "encode"
                 /\ enc' \in Encodings
                 /\ UNCHANGED <<error, result>>
              \/ /\ "message" \in Outcomes(ops, n)
                 /\ Fail("message")
                 /\ enc' = enc
              \/ /\ "silent" \in Outcomes(ops, n)
                 /\ Fail(error)
                 /\ enc' = enc
    /\ UNCHANGED <<block, dest_size, dest, Class, local>>

-----------------------------------------------------------------------------

Width == Widths[attempt]

\* TryRecode returned false: the next width, or XEDPARSE_ERROR after the last.
NextWidth(text) ==
    IF attempt < 3
    THEN attempt' = attempt + 1 /\ phase' = "encode" /\ error' = text /\ result' = result
    ELSE attempt' = attempt /\ Fail(text)

\* The low 32 bits of a value, read with their sign.
Cut(v) == ((v + DwordHalf) % (2 * DwordHalf)) - DwordHalf

\* The bytes of an encoding, as far as they depend on the operands: each
\* displacement has displacement_width = 32 (OperandMem.cpp:160), and is what
\* the processor reads there.
Bytes == [s \in Slots |-> Cut(Operands[s].DispVal)]

\* TryEncode fails: in the conversion, which leaves dest and dest_size alone,
\* or in xed_encode, after which dest holds nothing of use.
EncodeFails ==
    /\ phase \in {"encode", "reencode"}
    /\ enc[Width] = 0
    /\ \/ UNCHANGED <<dest_size, dest>>
       \/ dest_size' = 0 /\ dest' = Zeros
    /\ NextWidth("message")
    /\ UNCHANGED <<block, inst, i, reEncode, enc>>

\* Variant of FirstEncode that keeps the length the block came with.
FirstEncodeStale ==
    /\ phase = "encode"
    /\ enc[Width] # 0
    /\ dest_size' = dest_size /\ dest' = Bytes
    /\ i' = 1 /\ reEncode' = FALSE
    /\ phase' = IF x64 THEN "adjust" ELSE "render"
    /\ UNCHANGED <<block, error, inst, attempt, enc, result>>

\* The first TryEncode of TryRecode; 32-bit code returns immediately.
FirstEncode ==
    /\ phase = "encode"
    /\ enc[Width] # 0
    /\ dest_size' = enc[Width] /\ dest' = Bytes
    /\ i' = 1 /\ reEncode' = FALSE
    /\ phase' = IF x64 THEN "adjust" ELSE "render"
    /\ UNCHANGED <<block, error, inst, attempt, enc, result>>

\* An operand the loop leaves alone.
Skip ==
    /\ phase = "adjust" /\ i <= OperandCount
    /\ ~IsRip(Operands[i])
    /\ i' = i + 1
    /\ UNCHANGED <<block, error, dest_size, dest, inst, phase, attempt, reEncode, enc, result>>

\* operand->Mem.DispVal -= Parse->dest_size, and the check of its range.
Adjust ==
    /\ phase = "adjust" /\ i <= OperandCount
    /\ IsRip(Operands[i])
    /\ LET d == Operands[i].DispVal - dest_size
       IN  /\ Operands' = [Operands EXCEPT ![i].DispVal = d]
           /\ IF TooLarge(d)
              THEN NextWidth(error) /\ i' = i
              ELSE i' = i + 1 /\ UNCHANGED <<error, phase, attempt, result>>
    /\ reEncode' = TRUE
    /\ UNCHANGED <<block, dest_size, dest, Class, OperandCount, enc>>

\* Variant of EndAdjust that keeps the bytes of the first encoding.
EndAdjustKeeps ==
    /\ phase = "adjust" /\ i > OperandCount
    /\ phase' = "render"
    /\ UNCHANGED <<block, error, dest_size, dest, inst, local, enc, result>>

EndAdjust ==
    /\ phase = "adjust" /\ i > OperandCount
    /\ phase' = IF reEncode THEN "reencode" ELSE "render"
    /\ UNCHANGED <<block, error, dest_size, dest, inst, local, enc, result>>

\* The second TryEncode, of the adjusted operands.
Reencode ==
    /\ phase = "reencode"
    /\ enc[Width] # 0
    /\ dest_size' = enc[Width] /\ dest' = Bytes
    /\ phase' = "render"
    /\ UNCHANGED <<block, error, inst, local, enc, result>>

\* InstructionToString into the error buffer; return XEDPARSE_OK.
Render ==
    /\ phase = "render"
    /\ phase' = "idle" /\ result' = "OK" /\ error' = "instruction"
    /\ UNCHANGED <<block, dest_size, dest, inst, local, enc>>

Step == \/ AnalyzeOperand \/ OverrunOperand \/ ParseFails \/ ParseEnds
        \/ BranchFails \/ BranchFarPair \/ BranchSegSel \/ BranchPasses
        \/ ValidateInstOperands
        \/ EncodeFails \/ FirstEncode \/ Skip \/ Adjust \/ EndAdjust \/ Reencode \/ Render

Next == Call \/ Step

\* The call runs on its caller's thread and waits for nobody.
Spec == Init /\ [][Next]_vars /\ WF_vars(Step)

-----------------------------------------------------------------------------

TypeOK ==
    /\ x64 \in BOOLEAN /\ cip \in Cips /\ given \in 0 .. MaxTokens
    /\ error \in {"stale", "message", "instruction"}
    /\ dest_size \in 0 .. MaxLength /\ dest \in [Slots -> Int]
    /\ Class \in Classes
    /\ OperandCount \in 0 .. MaxTokens /\ Operands \in [Slots -> Operand]
    /\ phase \in {"idle", "parse", "branch", "validate",
                  "encode", "adjust", "reencode", "render", "stopped"}
    /\ phase \notin {"idle", "parse", "stopped"} => OperandCount <= MaxOperands
    /\ attempt \in 1 .. 3 /\ i \in 1 .. MaxOperands + 1 /\ reEncode \in BOOLEAN
    /\ enc \in Encodings
    /\ result \in {"none", "OK", "ERROR"}

Rips == {s \in Slots : s <= OperandCount /\ IsRip(Operands[s])}

\* From the end of an instruction of this length to the operand's address.
FromEnd(s, length) == TranslateRelativeCip(Operands[s].address) - length

\* What 32 bits with a sign reach.
InReach(d) == -DwordHalf <= d /\ d < DwordHalf

\* The displacement in dest for each RIP-relative operand of an instruction that
\* was assembled, read as the processor reads it, is the distance from the end
\* of that instruction to the address in the text, whatever widths were tried
\* and given up on the way, and whatever the block held before.  A distance that
\* 32 bits with a sign do not reach is not refused as long as its magnitude is
\* below 2^32: what is read then is off by exactly 2^32 (Translator.cpp:136-159).
RipExact ==
    result = "OK" =>
        \A s \in Rips :
            LET d == FromEnd(s, dest_size)
            IN  IF InReach(d) THEN dest[s] = d
                ELSE InReach(dest[s]) /\ dest[s] \in {d - 2 * DwordHalf, d + 2 * DwordHalf}

\* The width the encoder accepts first, 32 before 64 before 16.
FirstWidth == CASE enc[32] # 0 -> 32
                [] enc[32] = 0 /\ enc[64] # 0 -> 64
                [] OTHER -> 16

\* An operand lies too far back for an instruction of this length.
OutOfReach(s) ==
    TranslateRelativeCip(Operands[s].address) - enc[FirstWidth] < -(2 * DwordHalf - 1)

Hopeless == enc[FirstWidth] = 0 \/ \E s \in Rips : OutOfReach(s)

\* An assembled instruction has the first width the encoder accepts, also
\* when a displacement had to be adjusted (Translator.cpp:175-185).
FirstWidthWins == result = "OK" => enc[FirstWidth] # 0 /\ dest_size = enc[FirstWidth]

\* An instruction that some width encodes is refused only if an address is out
\* of reach of the first such width: neither the widths that failed before it
\* nor the operands a failed try has changed lose it (Translator.cpp:125-188).
RefusedOnlyIfHopeless ==
    result = "ERROR" /\ (\E w \in {16, 32, 64} : enc[w] # 0) => Hopeless

\* What the call is for its caller.
Caller == INSTANCE AssembleCall
          WITH busy <- phase \notin {"idle", "stopped"},
               alive <- phase # "stopped",
               fits <- given <= MaxOperands

\* The whole of XEDParseAssemble keeps the promise its callers rely on: mode
\* and instruction pointer stay, the call returns unless the text has more
\* operands than there is room for, and XEDPARSE_OK comes with one byte at
\* least and with no more than an instruction can have, whatever was tried
\* before and whatever length the block held from an earlier call
\* (XEDParse.cpp:21-47).
ImplementsAssembleCall == Caller!Spec

\* The part of it that is no fairness.
CallerSafety == Caller!Init /\ [][Caller!Next]_(Caller!vars)

-----------------------------------------------------------------------------
(* Why these hold.  A try that fails in Adjust leaves operands shortened,   *)
(* but also one that no later try brings back into range: Spoiled.  So a    *)
(* try either starts from the operands of the text or cannot succeed.       *)

Distance(s) == TranslateRelativeCip(Operands[s].address)

\* The operands from slot n on are as the parser left them.
IntactFrom(n) == \A s \in Rips : s >= n => Operands[s].DispVal = Distance(s)

\* The operands before slot n are adjusted to an instruction of this length.
AdjustedBefore(n, length) ==
    \A s \in Rips : s < n => Operands[s].DispVal = Distance(s) - length

\* From slot n on there is an operand that the check will refuse.
SpoiledFrom(n) == \E s \in Rips : s >= n /\ Operands[s].DispVal < -(2 * DwordHalf - 1)

\* The widths tried before this one encode nothing.
NoneBefore == \A m \in 1 .. 3 : m < attempt => enc[Order32First[m]] = 0

NoRip32 == ~x64 => Rips = {}

Intact ==
    phase \in {"parse", "branch", "validate"} =>
        /\ \A s \in Slots : Operands[s].ImplicitRip =>
               /\ x64 /\ Operands[s].DispVal = Distance(s)
               /\ HighHalfEmpty(Operands[s].DispVal)
        /\ enc = [w \in {16, 32, 64} |-> 0] /\ attempt = 1

Trying ==
    phase = "encode" => \/ IntactFrom(1) /\ NoneBefore
                        \/ SpoiledFrom(1) /\ Hopeless

Adjusting ==
    phase = "adjust" =>
        /\ x64 /\ enc[Width] # 0 /\ dest_size = enc[Width]
        /\ i <= OperandCount + 1
        /\ reEncode <=> \E s \in Rips : s < i
        /\ \/ IntactFrom(i) /\ AdjustedBefore(i, dest_size) /\ NoneBefore
           \/ SpoiledFrom(i) /\ Hopeless

Adjusted ==
    phase = "reencode" =>
        /\ enc[Width] # 0 /\ dest_size = enc[Width]
        /\ AdjustedBefore(MaxOperands + 1, dest_size) /\ NoneBefore

Encoded ==
    phase = "render" \/ result = "OK" =>
        /\ \A s \in Rips : dest[s] = Cut(Distance(s) - dest_size)
        /\ enc[FirstWidth] # 0 /\ dest_size = enc[FirstWidth]

Bounded ==
    phase \in {"encode", "adjust"} =>
        \A s \in Rips : Operands[s].DispVal <= 2 * DwordHalf - 1

\* What the check lets through has a magnitude below 2^32.
WithinCheck(n) == \A s \in Rips : s < n => ~TooLarge(FromEnd(s, dest_size))

Checked ==
    /\ phase = "adjust" => SpoiledFrom(i) \/ WithinCheck(i)
    /\ phase \in {"reencode", "render"} \/ result = "OK" => WithinCheck(MaxOperands + 1)

IInv == /\ TypeOK /\ NoRip32 /\ Intact /\ Trying /\ Adjusting /\ Adjusted /\ Encoded
        /\ Bounded /\ Checked /\ RefusedOnlyIfHopeless
        /\ phase # "idle" => result = "none"

-----------------------------------------------------------------------------
(* Statements of the repository that the code does not keep.               *)

\* "error text (in case of an error)" (XEDParse.h:43): a call that returns an
\* error has put a text there.
ErrorExplained == result = "ERROR" => error = "message"
=============================================================================
