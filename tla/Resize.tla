------------------------------- MODULE Resize -------------------------------
(***************************************************************************)
(* ValidateInstOperands (Validator.cpp): what happens to the operands of   *)
(* an instruction between the branch pass and the encoder.  The text says  *)
(* neither how wide an immediate is nor, often, how wide memory is: the    *)
(* code scans the forms of the class, in the order of XED's table, for the *)
(* narrowest immediate that holds the value and for the one width memory   *)
(* can have.  A behaviour is one call; a step of the scan is one form.     *)
(*                                                                         *)
(* The row of the class in the table is any sequence of forms, looked up   *)
(* where a loop begins.  A form has two operand templates, whose width     *)
(* depends on the effective operand size.  Widths are the bits of the      *)
(* code.  Values are those of a machine whose byte, word, dword and qword  *)
(* have ByteBits, WordBits, DwordBits and QwordBits bits.                  *)
(***************************************************************************)
EXTENDS Integers, Sequences, Powers, OpSize

CONSTANTS ByteBits, WordBits, DwordBits, QwordBits,
          Rows,      \* rows of XedInstLookupTable
          Values     \* immediates, as unsigned 64-bit numbers

INT_MAX == 2147483647

\* Whole bytes, up to the largest area an instruction saves.
Widths == {8 * n : n \in 0 .. 128}
ImmWidths == {0, 8, 16, 32, 64}

Template == [kind : {"reg", "mem", "none"}, width : [0 .. 3 -> Widths]]
            \union [kind : {"imm"}, width : [0 .. 3 -> ImmWidths]]

\* ULONGLONG.
Unsigned64 == 0 .. Power(2, QwordBits) - 1

ASSUME ResizeAssumption ==
    /\ ByteBits \in Nat /\ WordBits \in Nat /\ DwordBits \in Nat /\ QwordBits \in Nat
    /\ 1 < ByteBits /\ ByteBits < WordBits /\ WordBits < DwordBits /\ DwordBits < QwordBits
    /\ Rows \subseteq Seq([op0 : Template, op1 : Template])
    /\ Values \subseteq Unsigned64

\* What the code asks of a class: "x87" has a form that ends in ST0.
Classes == {"branch", "x87", "LEA", "XCHG", "OUT", "other"}

Operand == [Type : {"INVALID", "REG", "IMM", "MEM", "SEGSEL"}, Segment : {"INVALID", "DS"},
            Size : Sizes, BitSize : Nat, XedEOSZ : 0 .. 3, Signed : BOOLEAN, imm : Nat]

VARIABLES x64,                  \* XEDPARSE: the mode
          Class, OperandCount, op0, op1,           \* Inst
          Forms,                \* Instructions of the row, once looked up
          job,                  \* which of the loops runs, by the operands it is for
          i, targetSize, fixedSize, largestSize,   \* its locals
          memoryOperandCount, memoryOperandSize,
          error, result

input == <<x64, Class>>
operands == <<OperandCount, op0, op1>>
locals == <<i, fixedSize, largestSize, memoryOperandCount, memoryOperandSize>>
vars == <<input, operands, Forms, job, targetSize, locals, error, result>>

MaxOf(a, b) == IF a > b THEN a ELSE b

MinOf(a, b) == IF a < b THEN a ELSE b

-----------------------------------------------------------------------------
(* OpsizeFromValue (OpSize.cpp), PromoteImmediateWidth (Operand.cpp)       *)

Bit(v, n) == (v \div Power(2, n)) % 2

\* for(ULONGLONG temp = Value; temp >>= 1;) setBitStart++;
setBitStart(v) ==
    LET set == {n \in 1 .. QwordBits - 1 : Bit(v, n) = 1}
    IN  IF set = {} THEN 0 ELSE CHOOSE n \in set : \A m \in set : m <= n

\* Down the ones from setBitStart: the place of the last one before a zero.
lastOne(v) ==
    LET zeros == {n \in 1 .. setBitStart(v) : Bit(v, n) = 0}
    IN  IF zeros = {} THEN 0 ELSE (CHOOSE n \in zeros : \A m \in zeros : m <= n) + 1

\* The bit that makes a value negative: mask.
signBit(is64) == IF is64 THEN QwordBits - 1 ELSE DwordBits - 1

SizeOfBit(n) == CASE n < ByteBits  -> "BYTE"
                  [] n < WordBits  -> "WORD"
                  [] n < DwordBits -> "DWORD"
                  [] OTHER         -> "QWORD"

\* Variant of OpsizeFromValue that starts from the last zero, one bit too low.
OpsizeFromValueLow(is64, v) ==
    SizeOfBit(IF Bit(v, signBit(is64)) = 1 THEN MaxOf(lastOne(v) - 1, 0) ELSE setBitStart(v))

OpsizeFromValue(is64, v) ==
    SizeOfBit(IF Bit(v, signBit(is64)) = 1 THEN lastOne(v) ELSE setBitStart(v))

\* 1 << (OpsizeToBits(Width) - 1) is an int, which 64 bits sign-extend.
maxhalf(Width) == CASE Width = "BYTE" -> Power(2, ByteBits - 1)
                    [] Width = "WORD" -> Power(2, WordBits - 1)
                    [] OTHER          -> Power(2, QwordBits) - Power(2, DwordBits - 1)

\* 1 + (~maxhalf)
minhalf(Width) == Power(2, QwordBits) - maxhalf(Width)

NeedsPromotion(Signed, Value, Width) ==
    \/ Signed /\ Value < minhalf(Width)
    \/ ~Signed /\ Value >= maxhalf(Width)

\* Variant of PromoteImmediateWidth that keeps the lower half's bound.
PromoteImmediateWidthSigned(Signed, Value, Width) ==
    IF Signed /\ Value < minhalf(Width) /\ Width = "BYTE" THEN "DWORD" ELSE Width

PromoteImmediateWidth(Signed, Value, Width) ==
    IF ~NeedsPromotion(Signed, Value, Width) THEN Width
    ELSE CASE Width = "BYTE"  -> "DWORD"
           [] Width = "DWORD" -> "QWORD"
           [] OTHER           -> Width

ResizeOperandImmediate(op, FixedSize, LargestSize) ==
    IF Class = "branch" \/ FixedSize >= LargestSize
    THEN FixedSize
    ELSE MinOf(OpsizeToBits(PromoteImmediateWidth(op.Signed, op.imm, OpsizeFromBits(FixedSize))),
               LargestSize)

\* The width OperandToXed hands to the encoder.
bitsize(op) == IF op.Size = "UNSET" THEN op.BitSize ELSE OpsizeToBits(op.Size)

-----------------------------------------------------------------------------
(* What AnalyzeOperand can have made of an operand.                        *)

Blank == [Type |-> "INVALID", Segment |-> "INVALID", Size |-> "UNSET", BitSize |-> 0,
          XedEOSZ |-> 0, Signed |-> FALSE, imm |-> 0]

Register(size) == [Blank EXCEPT !.Type = "REG", !.Size = size, !.XedEOSZ = OpsizeToEosz(size)]

\* With a size in its prefix memory has that operand size; without a size it
\* has that of the mode, or 0 if the prefix is a segment or PTR alone.
Memory(size, eosz) == [Blank EXCEPT !.Type = "MEM", !.Segment = "DS", !.Size = size,
                                    !.XedEOSZ = eosz]

Immediate(is64, negative, v) ==
    [Blank EXCEPT !.Type = "IMM", !.Size = OpsizeFromValue(is64, v),
                  !.XedEOSZ = EOSZ_64_32(is64), !.Signed = negative, !.imm = v]

Selector(is64) == [Blank EXCEPT !.Type = "SEGSEL", !.Size = "DWORD",
                                !.XedEOSZ = EOSZ_64_32(is64)]

Parsed == [is64 \in BOOLEAN |->
    {Register(s) : s \in {"BYTE", "WORD", "DWORD"} \union IF is64 THEN {"QWORD"} ELSE {}}
    \union {Memory("UNSET", e) : e \in {EOSZ_64_32(is64), 0}}
    \union {Memory(s, OpsizeToEosz(s)) : s \in Sizes \ {"UNSET"}}
    \union {Immediate(is64, negative, v) : negative \in BOOLEAN, v \in Values}
    \union {Selector(is64)}]

\* What the branch pass leaves of the operands of a branch.
Displacement(is64, size, v) == [Immediate(is64, TRUE, v) EXCEPT !.Size = size]

BranchOperand == [is64 \in BOOLEAN |->
    {op \in Parsed[is64] : op.Type \in {"REG", "MEM"}}
    \union {Displacement(is64, s, v) : s \in {"BYTE", "DWORD"}, v \in Values}]

FarSelector == [is64 \in BOOLEAN |->
    {[Immediate(is64, FALSE, v) EXCEPT !.Size = "WORD"] : v \in Values}]

Init ==
    /\ x64 \in BOOLEAN /\ Class \in Classes
    /\ OperandCount \in 0 .. 2
    /\ IF Class # "branch"
       THEN /\ op0 \in IF OperandCount >= 1 THEN Parsed[x64] ELSE {Blank}
            /\ op1 \in IF OperandCount = 2 THEN Parsed[x64] ELSE {Blank}
       ELSE \/ OperandCount = 0 /\ op0 = Blank /\ op1 = Blank
            \/ OperandCount = 1 /\ op0 \in BranchOperand[x64] /\ op1 = Blank
            \/ OperandCount = 2 /\ op0 = Selector(x64) /\ op1 \in FarSelector[x64]
    /\ Forms = <<>>
    /\ job = "fpu" /\ i = 1
    /\ targetSize = 0 /\ fixedSize = INT_MAX /\ largestSize = 0
    /\ memoryOperandCount = 0 /\ memoryOperandSize = 0
    /\ error = "stale" /\ result = "none"

-----------------------------------------------------------------------------
(* Before the loops.                                                       *)

Return(value, text) == job' = "done" /\ result' = value /\ error' = text /\ Forms' = Forms

\* Variant of AddsST0 that does not count the operands.
AddsST0Always == Class = "x87"

AddsST0 == Class = "x87" /\ OperandCount <= 1

\* An x87 class with a form that ends in ST0 gets the register the text omits.
ValidateFpuOperands ==
    /\ job = "fpu"
    /\ IF AddsST0
       THEN /\ OperandCount' = OperandCount + 1
            /\ op0' = IF OperandCount = 0 THEN Register("TBYTE") ELSE op0
            /\ op1' = IF OperandCount = 1 THEN Register("TBYTE") ELSE op1
       ELSE UNCHANGED operands
    /\ job' = "dispatch"
    /\ UNCHANGED <<input, Forms, targetSize, locals, error, result>>

NoOperand ==
    /\ job = "dispatch" /\ OperandCount = 0
    /\ Return("true", error)
    /\ UNCHANGED <<input, operands, targetSize, locals>>

\* A loop over the row begins; the immediate it is for has this size.
Begin(which, size) ==
    /\ job' = which /\ targetSize' = OpsizeToBits(size)
    /\ Forms' \in Rows
    /\ UNCHANGED <<error, result>>

\* ResizeSingleOperand up to its loops.
SingleOperand(op) ==
    \/ /\ op.Type = "REG" \/ (op.Type = "MEM" /\ op.Size # "UNSET")
       /\ Return("true", error) /\ UNCHANGED targetSize
    \/ op.Type = "IMM" /\ Begin("imm", op.Size)
    \/ op.Type = "MEM" /\ op.Size = "UNSET" /\ Begin("mem", op.Size)
    \/ /\ op.Type \in {"SEGSEL", "INVALID"}
       /\ Return("false", error) /\ UNCHANGED targetSize

OneOperand ==
    /\ job = "dispatch" /\ OperandCount = 1
    /\ SingleOperand(op0)
    /\ UNCHANGED <<input, operands, locals>>

\* LEA cannot use a segment.
Unsegmented(op) == IF Class = "LEA" THEN [op EXCEPT !.Segment = "INVALID"] ELSE op

\* XCHG takes its memory operand first.
Swaps == Class = "XCHG" /\ op1.Type = "MEM"
first == IF Swaps THEN op1 ELSE op0
second == IF Swaps THEN op0 ELSE Unsegmented(op1)

\* Variant of Sized that keeps the operand size of the mode.
SizedByMode(op, other) == op

\* XedEOSZ = XedEOSZ of the other operand.
Sized(op, other) == [op EXCEPT !.XedEOSZ = other.XedEOSZ]

TwoOperands(type0, type1) ==
    /\ job = "dispatch" /\ OperandCount >= 2
    /\ first.Type = type0 /\ second.Type = type1
    /\ UNCHANGED <<input, OperandCount, locals>>

\* The pairs that need no loop: two registers, a memory size that is given,
\* a selector.
NothingToDo ==
    \/ TwoOperands("REG", "REG")
    \/ TwoOperands("REG", "MEM") /\ second.Size # "UNSET"
    \/ TwoOperands("MEM", "REG") /\ first.Size # "UNSET"
    \/ \E t \in {"INVALID", "REG", "IMM", "MEM", "SEGSEL"} : TwoOperands("SEGSEL", t)

PassThrough ==
    /\ NothingToDo
    /\ op0' = first /\ op1' = second
    /\ Return("true", error) /\ UNCHANGED targetSize

\* OUT is the one instruction whose first operand is an immediate.
ImmediateFirst ==
    /\ \E t \in {"INVALID", "REG", "IMM", "MEM", "SEGSEL"} : TwoOperands("IMM", t)
    /\ op0' = first /\ op1' = second
    /\ IF Class = "OUT" /\ second.Type = "REG"
       THEN Begin("imm", first.Size)
       ELSE Return("false", "Operand immediate mismatch") /\ UNCHANGED targetSize

TwoMemories ==
    /\ TwoOperands("MEM", "MEM")
    /\ op0' = first /\ op1' = second
    /\ Return("false", "Too many memory references") /\ UNCHANGED targetSize

\* The pairs no case covers: false, and no text.
Unhandled ==
    /\ \E t \in {"REG", "MEM"} : TwoOperands(t, "SEGSEL")
    /\ op0' = first /\ op1' = second
    /\ Return("false", error) /\ UNCHANGED targetSize

RegImm ==
    /\ TwoOperands("REG", "IMM")
    /\ op0' = first /\ op1' = Sized(second, first)
    /\ Begin("reg,imm", second.Size)

RegMem ==
    /\ TwoOperands("REG", "MEM") /\ second.Size = "UNSET"
    /\ op0' = first /\ op1' = Sized(second, first)
    /\ Begin("reg,mem", "UNSET")

MemReg ==
    /\ TwoOperands("MEM", "REG") /\ first.Size = "UNSET"
    /\ op0' = Sized(first, second) /\ op1' = second
    /\ Begin("mem,reg", "UNSET")

MemImm ==
    /\ TwoOperands("MEM", "IMM")
    /\ op0' = first /\ op1' = Sized(second, first)
    /\ Begin("mem,imm", second.Size)

-----------------------------------------------------------------------------
(* The loops.                                                              *)

IsRegisterOf(template, op) ==
    template.kind = "reg" /\ template.width[op.XedEOSZ] = OpsizeToBits(op.Size)

immWidth(form) == IF job = "imm" THEN form.op0.width[op0.XedEOSZ]
                                 ELSE form.op1.width[op1.XedEOSZ]

memWidth(form) == IF job = "reg,mem" THEN form.op1.width[op1.XedEOSZ]
                                     ELSE form.op0.width[op0.XedEOSZ]

\* No continue: the form goes with the operands whose size is known.
Matches(form) ==
    CASE job = "imm"     -> form.op0.kind = "imm"
      [] job = "mem"     -> form.op0.kind = "mem"
      [] job = "reg,imm" -> IsRegisterOf(form.op0, op0) /\ form.op1.kind = "imm"
      [] job = "reg,mem" -> IsRegisterOf(form.op0, op0) /\ form.op1.kind = "mem"
      [] job = "mem,reg" -> IsRegisterOf(form.op1, op1) /\ form.op0.kind = "mem"
      [] job = "mem,imm" -> /\ form.op0.kind = "mem" /\ form.op1.kind = "imm"
                            /\ immWidth(form) >= targetSize
                            /\ op0.Size # "UNSET" => memWidth(form) >= OpsizeToBits(op0.Size)
      [] OTHER           -> FALSE

ImmJobs == {"imm", "reg,imm", "mem,imm"}
MemJobs == {"mem", "reg,mem", "mem,reg"}

\* The loops that count the widths memory can have.
Counts == job \in MemJobs \/ (job = "mem,imm" /\ op0.Size = "UNSET")

Scanning == job \in ImmJobs \union MemJobs /\ i <= Len(Forms)

Skip ==
    /\ Scanning /\ ~Matches(Forms[i])
    /\ i' = i + 1
    /\ UNCHANGED <<input, operands, Forms, job, targetSize, fixedSize, largestSize,
                   memoryOperandCount, memoryOperandSize, error, result>>

\* Variant of FitsCloser that wants a width to spare.
FitsCloserStrict(size) == size > targetSize /\ size <= fixedSize

\* Variant of FitsCloser that takes the last width that fits.
FitsLast(size) == size >= targetSize

FitsCloser(size) == size >= targetSize /\ size <= fixedSize

TakeImmediate(form) ==
    IF job \in ImmJobs
    THEN /\ fixedSize' = IF FitsCloser(immWidth(form)) THEN immWidth(form) ELSE fixedSize
         /\ largestSize' = IF job = "mem,imm" THEN largestSize
                           ELSE MaxOf(largestSize, immWidth(form))
    ELSE UNCHANGED <<fixedSize, largestSize>>

\* Is it a non-standard operand size?
NonStandard(size) == size > 512

\* Variant of CountAfter that counts a width only when it is larger.
CountAfterLarger(size) ==
    (IF job = "mem" /\ (NonStandard(size) \/ NonStandard(memoryOperandSize))
     THEN 0 ELSE memoryOperandCount)
    + (IF size > memoryOperandSize THEN 1 ELSE 0)

CountAfter(size) ==
    (IF job = "mem" /\ (NonStandard(size) \/ NonStandard(memoryOperandSize))
     THEN 0 ELSE memoryOperandCount)
    + (IF size # memoryOperandSize THEN 1 ELSE 0)

TakeMemory(form) ==
    IF Counts
    THEN /\ memoryOperandCount' = CountAfter(memWidth(form))
         /\ memoryOperandSize' = MaxOf(memoryOperandSize, memWidth(form))
    ELSE UNCHANGED <<memoryOperandCount, memoryOperandSize>>

Take ==
    /\ Scanning /\ Matches(Forms[i])
    /\ TakeImmediate(Forms[i]) /\ TakeMemory(Forms[i])
    /\ i' = i + 1
    /\ UNCHANGED <<input, operands, Forms, job, targetSize, error, result>>

-----------------------------------------------------------------------------
(* After the loops.                                                        *)

Scanned(jobs) == job \in jobs /\ i > Len(Forms)

WithImmediate(op, bits) == [op EXCEPT !.Size = OpsizeFromBits(bits)]

\* Variant of WithWidth that leaves the width in bits unset.
WithWidthOfTable(op, bits) == WithImmediate(op, bits)

WithWidth(op, bits) == [op EXCEPT !.Size = OpsizeFromBits(bits), !.BitSize = bits]

ResizedMemory(op) == IF Counts THEN WithWidth(op, memoryOperandSize) ELSE op

Ambiguous ==
    /\ Scanned(MemJobs \union {"mem,imm"})
    /\ Counts /\ memoryOperandCount > 1
    /\ Return("false", "Ambiguous memory size")
    /\ UNCHANGED <<input, operands, targetSize, locals>>

\* With memory in front, its size has been written by then.
TooLarge ==
    /\ Scanned(ImmJobs)
    /\ Counts => memoryOperandCount <= 1
    /\ fixedSize = INT_MAX
    /\ op0' = IF job = "mem,imm" THEN ResizedMemory(op0) ELSE op0
    /\ Return("false", "Immediate size is too large")
    /\ UNCHANGED <<input, OperandCount, op1, targetSize, locals>>

ResizeImmediate ==
    /\ Scanned({"imm", "reg,imm"}) /\ fixedSize # INT_MAX
    /\ IF job = "imm"
       THEN /\ op0' = WithImmediate(op0, ResizeOperandImmediate(op0, fixedSize, largestSize))
            /\ op1' = op1
       ELSE /\ op1' = WithImmediate(op1, ResizeOperandImmediate(op1, fixedSize, largestSize))
            /\ op0' = op0
    /\ Return("true", error)
    /\ UNCHANGED <<input, OperandCount, targetSize, locals>>

ResizeMemory ==
    /\ Scanned(MemJobs) /\ memoryOperandCount <= 1
    /\ IF job = "reg,mem" THEN op1' = ResizedMemory(op1) /\ op0' = op0
                          ELSE op0' = ResizedMemory(op0) /\ op1' = op1
    /\ Return("true", error)
    /\ UNCHANGED <<input, OperandCount, targetSize, locals>>

ResizeBoth ==
    /\ Scanned({"mem,imm"})
    /\ Counts => memoryOperandCount <= 1
    /\ fixedSize # INT_MAX
    /\ op0' = ResizedMemory(op0) /\ op1' = WithWidth(op1, fixedSize)
    /\ Return("true", error)
    /\ UNCHANGED <<input, OperandCount, targetSize, locals>>

Next == \/ ValidateFpuOperands \/ NoOperand \/ OneOperand
        \/ PassThrough \/ ImmediateFirst \/ TwoMemories \/ Unhandled
        \/ RegImm \/ RegMem \/ MemReg \/ MemImm
        \/ Skip \/ Take
        \/ Ambiguous \/ TooLarge \/ ResizeImmediate \/ ResizeMemory \/ ResizeBoth

Spec == Init /\ [][Next]_vars

-----------------------------------------------------------------------------

TypeOK ==
    /\ x64 \in BOOLEAN /\ Class \in Classes
    /\ Forms \in Rows \union {<<>>}
    /\ OperandCount \in 0 .. 2 /\ op0 \in Operand /\ op1 \in Operand
    /\ job \in {"fpu", "dispatch", "done"} \union ImmJobs \union MemJobs
    /\ i \in 1 .. Len(Forms) + 1 /\ targetSize \in 0 .. 512
    /\ fixedSize \in ImmWidths \union {INT_MAX} /\ largestSize \in ImmWidths
    /\ memoryOperandCount \in 0 .. i - 1 /\ memoryOperandSize \in Widths
    /\ error \in {"stale", "Ambiguous memory size", "Immediate size is too large",
                  "Operand immediate mismatch", "Too many memory references"}
    /\ result \in {"none", "true", "false"}

Ends == job \in ImmJobs \union MemJobs /\ job' = "done"
Accepts == Ends /\ result' = "true"

\* The forms before n that go with the operands.
HitsBefore(n) == {k \in 1 .. n - 1 : Matches(Forms[k])}
Hits == HitsBefore(Len(Forms) + 1)

\* Before form n a width has been met and then another one: what the running
\* count against a running maximum finds out.  A width of 0 is not counted when
\* it comes first, and a save area above 512 bits ends the count of others.
TwoWidthsBefore(n) ==
    /\ job = "mem" => \A k \in HitsBefore(n) : ~NonStandard(memWidth(Forms[k]))
    /\ \E j, k \in HitsBefore(n) :
          j < k /\ memWidth(Forms[j]) # 0 /\ memWidth(Forms[k]) # memWidth(Forms[j])

Ordinary(size) == size # 0 /\ (job = "mem" => ~NonStandard(size))

WidthsDiffer == \E j, k \in Hits : memWidth(Forms[j]) # memWidth(Forms[k])

\* Memory is refused as ambiguous only if the text gives no size and two forms
\* that go with the other operand differ in width; and whenever two do, in any
\* order of the table, if all such forms have a width, of at most 512 bits
\* where memory stands alone (lines 84-117, 191-225, 243-277, 293-347).
AmbiguityExact ==
    [][Ends =>
         /\ error' = "Ambiguous memory size" => Counts /\ WidthsDiffer
         /\ Counts /\ WidthsDiffer /\ (\A k \in Hits : Ordinary(memWidth(Forms[k]))) =>
                error' = "Ambiguous memory size"]_vars

\* Unless the count has found memory ambiguous, an immediate is refused exactly
\* when no form that goes with the other operand is wide enough, wherever in the
\* table the wide forms stand.
TooLargeExact ==
    [][Ends => (error' = "Immediate size is too large"
                  <=> /\ job \in ImmJobs
                      /\ ~(Counts /\ TwoWidthsBefore(Len(Forms) + 1))
                      /\ \A k \in Hits : immWidth(Forms[k]) < targetSize)]_vars

\* The width the encoder is asked for is that of the narrowest form that holds
\* the immediate, or a wider one up to the widest, and an immediate beside
\* memory gets exactly the narrowest.
NarrowestForm ==
    [][Accepts /\ job \in ImmJobs =>
         LET bits == bitsize(IF job = "imm" THEN op0' ELSE op1')
             wide == {k \in Hits : immWidth(Forms[k]) >= targetSize}
         IN  \E k \in wide :
               /\ \A m \in wide : immWidth(Forms[k]) <= immWidth(Forms[m])
               /\ immWidth(Forms[k]) <= bits
               /\ IF job = "mem,imm" THEN bits = immWidth(Forms[k])
                  ELSE \E m \in Hits : bits <= immWidth(Forms[m])]_vars

\* Memory without a size reaches the encoder with the width of a form, the
\* save areas that no OPSIZE names too, or with none if no form has memory
\* there; memory with a size keeps it.
MemoryWidthOfAForm ==
    [][Accepts /\ job \in MemJobs \union {"mem,imm"} =>
         LET before == IF job = "reg,mem" THEN op1 ELSE op0
             bits   == bitsize(IF job = "reg,mem" THEN op1' ELSE op0')
         IN  IF Counts THEN \/ Hits = {} /\ bits = 0
                            \/ \E k \in Hits : bits = memWidth(Forms[k])
             ELSE bits = bitsize(before)]_vars

\* The number of values of this many bits, of the modelled machine.
Modulus(bits) == CASE bits = 8 -> Power(2, ByteBits) [] bits = 16 -> Power(2, WordBits)
                   [] bits = 32 -> Power(2, DwordBits) [] OTHER -> Power(2, QwordBits)

SignExtended(v, bits) ==
    LET low == v % Modulus(bits)
    IN  IF low >= Modulus(bits) \div 2 THEN low - Modulus(bits) ELSE low

SameValue(a, b) == (a - b) % Modulus(IF x64 THEN 64 ELSE 32) = 0

ImmOf(op) == <<op.imm, bitsize(op)>>

AcceptedImm == ImmOf(IF job = "imm" THEN op0' ELSE op1')

\* Whatever the form is, the bits written still are the value: read as signed
\* or as unsigned they give it back, in 64 or in 32 bits as the mode has it
\* (OpSize.cpp:79-127, where 32-bit code looks at bit 31 of a 64-bit value).
ValueKept ==
    [][Accepts /\ job \in ImmJobs /\ Class # "branch" =>
         LET v == AcceptedImm[1]
             bits == AcceptedImm[2]
         IN  SameValue(v, SignExtended(v, bits)) \/ SameValue(v, v % Modulus(bits))]_vars

\* Next to a register, or alone, a byte is chosen over a wider form only if the
\* processor's sign extension of that byte gives the value back (lines 12-22).
ByteSignKept ==
    [][Accepts /\ job \in {"imm", "reg,imm"} /\ Class # "branch"
       /\ AcceptedImm[2] = 8 /\ largestSize > 8 =>
         SameValue(AcceptedImm[1], SignExtended(AcceptedImm[1], 8))]_vars

\* An immediate next to a register is never wider than the register, provided
\* no form of the row is: the widths are those of the register's operand size,
\* and not of the mode's (Validator.cpp:472-476).
NotWiderThanRegister ==
    [][Accepts /\ job = "reg,imm"
       /\ (\A k \in 1 .. Len(Forms), e \in 0 .. 3 :
             Forms[k].op0.kind = "reg" /\ Forms[k].op1.kind = "imm" =>
                 Forms[k].op1.width[e] <= Forms[k].op0.width[e]) =>
         bitsize(op1') <= OpsizeToBits(op0.Size)]_vars

-----------------------------------------------------------------------------
(* The locals of a loop tell about the forms that it has passed.           *)

ImmScan ==
    /\ fixedSize # INT_MAX =>
          \E k \in HitsBefore(i) : immWidth(Forms[k]) = fixedSize /\ fixedSize >= targetSize
    /\ \A k \in HitsBefore(i) :
          /\ immWidth(Forms[k]) >= targetSize => fixedSize <= immWidth(Forms[k])
          /\ job # "mem,imm" => immWidth(Forms[k]) <= largestSize
    /\ largestSize # 0 => \E k \in HitsBefore(i) : immWidth(Forms[k]) = largestSize

MemScan ==
    /\ \A k \in HitsBefore(i) : memWidth(Forms[k]) <= memoryOperandSize
    /\ memoryOperandSize # 0 => \E k \in HitsBefore(i) : memWidth(Forms[k]) = memoryOperandSize
    /\ IF job = "mem" /\ NonStandard(memoryOperandSize)
       THEN memoryOperandCount <= 1
       ELSE /\ memoryOperandCount = 0 <=> memoryOperandSize = 0
            /\ memoryOperandCount > 1 <=> TwoWidthsBefore(i)

ImmSizes == {"BYTE", "WORD", "DWORD", "QWORD"}

\* What the loops start from.
Started ==
    /\ job \in {"fpu", "dispatch"} =>
          /\ i = 1 /\ fixedSize = INT_MAX /\ largestSize = 0
          /\ memoryOperandCount = 0 /\ memoryOperandSize = 0
          /\ op0.Type = "IMM" => op0.Size \in ImmSizes
          /\ op1.Type = "IMM" => op1.Size \in ImmSizes
    /\ job \in ImmJobs => targetSize \in {8, 16, 32, 64}
    /\ job = "reg,imm" => op1.XedEOSZ = op0.XedEOSZ
    /\ job # "done" => error = "stale" /\ result = "none"

Met == /\ TypeOK /\ Started
       /\ job \in ImmJobs => ImmScan
       /\ job \in ImmJobs \union MemJobs /\ Counts => MemScan

\* The size is that of the value.
HasSizeOfValue(op) ==
    op.Type = "IMM" => op.Size = OpsizeFromValue(x64, op.imm) /\ op.imm \in Unsigned64

immediate == IF job = "imm" THEN op0 ELSE op1

\* But for branches, what a loop looks for is the size of the value.
SizedByValue ==
    Class # "branch" =>
        /\ job \in {"fpu", "dispatch"} => HasSizeOfValue(op0) /\ HasSizeOfValue(op1)
        /\ job \in ImmJobs =>
              /\ immediate.imm \in Unsigned64
              /\ targetSize = OpsizeToBits(OpsizeFromValue(x64, immediate.imm))

IInv == Met /\ SizedByValue

-----------------------------------------------------------------------------
(* Statements of the repository that the code does not keep.               *)

\* "The value size might need adjustment if the sign bit is set, but check if
\* it can be supported" (lines 12-13): beside a register or alone, a form
\* narrower than the widest is chosen only if it holds the value with its sign.
SignBitKept ==
    [][Accepts /\ job \in {"imm", "reg,imm"} /\ Class # "branch"
       /\ AcceptedImm[2] < largestSize =>
         SameValue(AcceptedImm[1], SignExtended(AcceptedImm[1], AcceptedImm[2]))]_vars
=============================================================================
