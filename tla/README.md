# XEDParse in TLA+

XEDParse assembles one line of Intel-syntax text into machine code with the help
of the XED encoder.  This directory holds TLA+ models of it, the TLC
configurations that check them on small instances, and theorems that the TLA+
proof system checks for every value of the constants.

Paths like `Translator.cpp:149` are relative to `src/` of the repository.

## 1. The system

One exported function, `XEDParseAssemble(XEDPARSE*)`, does everything.  The
caller owns the `XEDPARSE` block, fills in `x64`, `cip`, `instr` and the optional
callback `cbUnknown`, and reads `dest`, `dest_size` and `error` back.  The block
is usually reused from call to call (the test driver does).  A call goes through

    LookupTableInit -> ParseInstString -> TranslateBranchInst
        -> ValidateInstOperands -> TryRecode(32), (64), (16) -> InstructionToString

on a local `Inst` that is zeroed first, and which the passes change in place.
What threads share is the table of forms, built by the first caller.

| Component | Its state | Operations | Hard about it |
|---|---|---|---|
| Call, `XEDParse.cpp` | the caller's block, the local `Inst` | `XEDParseAssemble`, `DllMain` | what an early return leaves in a reused block |
| Form table, `Validator.cpp:541` | `XedInstLookupTable`, `bInitialized` | `LookupTableInit` | first calls of two threads; publication by a plain flag |
| Resizing, `Validator.cpp` | operand sizes | `Resize*`, `Validate*` | ambiguity counted over a list of forms; silent failures |
| Branches, `BranchInst.cpp` | operands 0 and 1 | `TranslateBranchInst` | 64-bit arithmetic cut to 32 and 8 bits, wrap of the address space |
| Encoding, `Translator.cpp` | displacements, `dest`, `dest_size` | `Translate`, `TryRecode`, `TryEncode` | encode, adjust, encode again; failed tries change operands |
| Memory operands, `OperandMem.cpp` | `Mem`, `Segment` | `HandleMemoryOperand` and two setters | one pass over terms in any order; width of the displacement |
| Operand analysis, `Operand.cpp` | `InstOperand` | `AnalyzeOperand`, `PromoteImmediateWidth` | overflow of a shift |
| Selectors, `OperandSegSel.cpp` | `Sel` | `HandleSegSelectorOperand` | limits of the selector |
| Parser, `Parser.cpp` | tokens | `ParseInstString`, `InstructionToTokens`, `valfromstring` | more tokens than operand slots; modifiers deleted anywhere |
| Mnemonics, `MnemonicTable.*` | `Mnemonic`, `AddressSizeOverride` | aliases, far, string instructions | alias table entries; prefix matches |
| Sizes, `OpSize.*` | none | `OpsizeFromValue` and tables | limits of a width |
| Prefixes, registers | none | look-ups | |
| Rendering, `ParseTest.cpp` | `error` | `InstructionToString` | |
| Test driver, `XEDParseTest.cpp` | `cip` from line to line | `main` | sequences of calls |

Nothing is persisted, nothing is retried by timer, and no message is lost: the
hard behaviours are the two threads at the table, the in-place retries of the
encoder, the reused block, scans whose verdict depends on the order of a table, a
driver that trusts what a call leaves behind, and integers at the limits of their
widths.
`PROJECT.json` lists every hazard at its line with the properties that cover it.

What makes each component correct:

- *Form table*: built once, never written after it is published, complete for
  whoever scans it; every call returns.
- *Branches*: the bytes encoded jump to the address in the text; the short form
  exactly when it fits; nothing within reach refused.
- *Encoding*: displacements are exact for the length returned, as far as 32 bits can hold
  them, whatever was tried before; the widths are preferred in the stated order; a refusal has a reason.
- *Memory operands*: registers, factors and constant of the operand are those of
  the text.
- *Resizing*: "ambiguous" only when the forms of the class differ, and always when they do
  and have ordinary widths, "too large" exactly when none is wide enough, in whatever order
  the forms stand; the immediate that is written still is the value of the
  text, in the narrowest form; memory has the width of a form.
- *Parser, mnemonics, selectors*: nothing of the text is lost, a number and a selector
  are read as they are written, a conditional jump keeps its condition, SSE and string
  instructions of one name are told apart, and the latter keep their address size.
- *Driver*: each line is assembled once, in order and whole, at the address after the
  line before it, and the program ends.

## 2. Modules

| Module | Models | Checked by | Proved in |
|---|---|---|---|
| `OnceTable` | what a lazily built table promises its readers | as a property of `LookupTable` | |
| `LookupTable` | `LookupTableInit`, `DllMain`, the calls and scans of several threads | `MCLookupTable` | `LookupTableProofs` |
| `BranchInst` | `TranslateBranchInst` | `MCBranchInst` | `BranchInstProofs` |
| `Assemble` | a call of `XEDParseAssemble` on a reused block | `MCAssemble` | `AssembleProofs` |
| `OpSize` | sizes in bits and as effective operand sizes (operators only) | through `OperandMem` and `Resize` | |
| `OperandMem` | `HandleMemoryOperand`, `PromoteImmediateWidth` | `MCOperandMem` | `OperandMemProofs` |
| `Resize` | `ValidateInstOperands` with its loops, `OpsizeFromValue`, `PromoteImmediateWidth` | `MCResize` | `ResizeProofs` |
| `Numbers`, `Mnemonics` | `valfromstring`, `HandleSegSelectorOperand`; `MnemonicTable` (operators only) | through `Parser` | |
| `Parser` | `ParseInstString` | `MCParser` | `ParserProofs` |
| `AssembleCall` | what a caller of `XEDParseAssemble` relies on | as a property of `Assemble`, as a part of `Driver` | |
| `Driver` | `main` of the batch driver, composed with `AssembleCall` | `MCDriver` | `DriverProofs` |

`SequenceFacts` holds what the proofs need of natural numbers and sequences: an induction without
an operator parameter, folds, the first place of an element, powers, remainders.  `Powers` is the power as a
recursive function, of which the provers can be taught what they do not know of `^`.  `MC*` modules only give the constants their small values.  Definitions whose
comment begins with "Variant of" are the deliberate bugs that the mutation
entries of `PROJECT.json` put in the place of the definition after them; no
specification uses them.

### LookupTable

`bInitialized`, `InstructionCount`, `Instructions` are the variables of the code.
`pc` is where a thread is, `i`, `n`, `iclass`, `seen` its locals: loop counter,
loaded count, class of its instruction, forms its scan has met.  `loaderLock` and
`loaded` are the Windows loader: it runs `DllMain` of the attaching thread under
its lock, and a thread calls the library only after the first attach ended.

Actions: `Attach` (DllMain), `CallAssemble`, `CheckInit` (line 545),
`Invalidate` (551-558), `LoadCount`, `StoreCount` and `StoreSlot` (571-574: the
increment is a read and two writes, and other threads run between them),
`Publish` (577), `ReturnFromInit`, `Scan` (one form of the loops in `Resize*`),
`ReturnFromAssemble`.  `__debugbreak` is the state `"debugbreak"`, after which
nothing happens.

`Dll = TRUE` is the default build, `FALSE` the one with `XEDPARSE_STATIC`, which
has no `DllMain`.  The increment is the only place where the memory model could
show; each access is a step of its own, in program order.

### BranchInst

A behaviour is one call.  `Init` ranges over what the parser can hand over, and
each action is the whole function along one path (`NotABranch`, `FarPair`,
`TooManyOperands`, `RefuseShort`, `RefuseFar`, `Relative`, `Memory`, `SegSel`,
`Untouched`).  The operand's union is modelled where the code reads it through
another member than it wrote: the far pair reads `Imm.imm` of whatever operand 0
is, as the 8 bytes that `DispVal` shares with it.  Widths are constants
(`ByteHalf` for 2^7 up to `QwordHalf` for 2^63), so that TLC takes a 4-bit byte
and the proofs take any.

`Landing`, `EncodedLength`, `brdisp` are the processor: where the branch goes, given
that `xed_relbr` takes a 32-bit int.

### Assemble

One call after another on one block.  `phase` is where the call is; `attempt`
which width, `i` and `reEncode` the locals of `TryRecode`; `enc` the answer of the
encoder for each width, chosen once per instruction.  An operand keeps its type
and, when RIP-relative, its displacement and the address it was computed from.
`error` records whose text the buffer holds: `stale` (another call's), `message` or
`instruction`.

Actions: `Call`, `AnalyzeOperand` (one token), `OverrunOperand`, `ParseFails`, `ParseEnds`, the four ways
out of the branch pass, `ValidateInstOperands`, `FirstEncode`, `EncodeFails`, `Skip` and
`Adjust` (one round of the loop of `TryRecode`), `EndAdjust`, `Reencode`, `Render`.

What depends on text, tables and XED is a choice among the outcomes the code has
for operands of these types: which class, whether a form of the right size
exists, how long the encoding is.  The choice of a failed parse is open in every
state of the parse, since any text may have a bad token.  The length depends on
the width and not on the value of a displacement, because `HandleMemoryOperand`
fixes its width at 32 bits (`OperandMem.cpp:160`).  Those 32 bits, read with their sign, are
what `dest` has of an operand (`Cut`).  `DispVal` itself keeps the whole distance, as in the code.

The block keeps what is in it: a call clears neither `dest_size` nor `dest`, and a try that fails
in the conversion leaves both alone (`XEDParse.cpp:21-28`, `Translator.cpp:107-111`), so that an
error comes with the length of an earlier call or of an earlier try.

`given` is how many operands the text has.  The loop of the parser writes them all into
`Operands[4]` before it looks at their number (`Parser.cpp:252-258`): `OverrunOperand` is an operand
behind the array.  What is there is the build's choice.  The model has two outcomes: storage of
the call that is not read any more, for a count above four is refused when the loop is over, or
something the process does not survive (`"stopped"`).  `abs` is the 64-bit overload the
C++ library declares for `LONGLONG`.

### OperandMem

`CALC` is a sequence of pieces between operators; a step uses one piece, knowing the
operator before it (`sep`) and after it (`next`).  `SetBase`, `SetImplicitIndex`,
`SetDisplacement`, `UnknownTerm` are the branches of `SetMemoryDisplacementOrBase`,
`SetIndex`, `SetScale`, `UnknownFactor` those of `SetMemoryIndexOrScale`, `Refuse` and
`Prefix` what comes before the loop, `Fixup` what comes after it.  A prefix sets `Size` and
`XedEOSZ` too: without a size, a segment alone, it sets the effective operand size to 0 and not to
that of the mode (`OperandMem.cpp:57-68`).

`meant` and `pending` are not in the code: `meant` is the sum the text read so far
denotes (a factor for each register, a constant), and whether the text is still a
sum of registers, products `register * number` and displacements.  `DenotesText`
compares it with the operand, whose displacement `AddressConst` cuts to its width and reads with its
sign, as the processor does, after RIP too.  `Exact` is where that can be the number of the text.  The
numbers of `Values` are 64-bit and unsigned, as
in the code; a piece after `-` is negated.

### Resize

A behaviour is one call of `ValidateInstOperands`.  `job` is the loop that runs, named
for the operands it is for (`"imm"`, `"mem"`, `"reg,imm"`, `"reg,mem"`, `"mem,reg"`,
`"mem,imm"`), and `i`, `targetSize`, `fixedSize`, `largestSize`, `memoryOperandCount` and
`memoryOperandSize` are its locals.  `ValidateFpuOperands` adds ST0; `NoOperand`, `OneOperand`,
`PassThrough`, `ImmediateFirst`, `TwoMemories`, `Unhandled`, `RegImm`, `RegMem`, `MemReg` and
`MemImm` are the branches of the dispatch, with the writes they make before a loop (LEA
loses its segment, XCHG is swapped, an operand takes the operand size of the other);
`Skip` and `Take` are one form of the loop; `Ambiguous`, `TooLarge`, `ResizeImmediate`,
`ResizeMemory` and `ResizeBoth` are what follows it.

The table's row is a sequence of forms (`Rows`), and a form has two templates whose
width depends on the effective operand size.  Memory without a size comes with that of the mode
or, behind a segment alone, with 0, and memory with a size with the one of `OpsizeToEosz`.  Widths are the bits of the code (8 to
1024, as XED's save areas have more than 512), values those of a machine whose byte, word,
dword and qword have `ByteBits`, `WordBits`, `DwordBits` and `QwordBits` bits.  `maxhalf` keeps the
`int` shift of `Operand.cpp:10`: for a dword and a qword it is -2^31, sign-extended.

### Numbers, Mnemonics, Parser

A text is a sequence of pieces: a blank, a comma, a modifier, a character of a number or
a piece of a word.  A word is a run of pieces, so that a modifier can stand inside a symbol
as it can in the code.  `phase` walks through the passes: `Modifiers` deletes one occurrence
of each of near, far and short, `GrabPrefix`, `GrabMnemonic` and `GrabOperand` cut the tokens, `Analyze` is one
turn of the loop over them, `Overrun` one that writes a fifth or sixth operand behind the array (over
`AddressSizeOverride`, the next member of `Inst`, and what the stack has after it: the call goes on
or the process stops), `AnalyzeEnds` the check for four operands, `SpecialCase` one turn
of the loop that renames by register (in place, so that a later operand sees the new
name), `Translate` the rest of `MnemonicInstToXed` and the look-up of the class.  The callback answers
a symbol with one of `Answers` or refuses it.  `NumberMeans` and `SelectorMeans` compare with a
definition that does not scan: a sum of digits times powers of the radix.

### AssembleCall and Driver

`AssembleCall` is the promise: the mode and the instruction pointer of the block are the
caller's, a call for a text that `fits` the operand array returns, and success comes with 1 to
`MaxLength` bytes.  An error leaves any length: an earlier call's, or one of its own tries (`Work`).  A
text with more operands may `Stop` the process.  `Assemble` implements it
(`Caller`, the property `ImplementsAssembleCall`), and `Driver` is composed with it (`Callee`), for
files whose lines have four operands at most: an
action of the driver conjoins one of `AssembleCall` where it makes or ends a call, and leaves
the block to it meanwhile.  `filedata`, `i`, `j` and `current_instr` are the locals of `main`; `Character`,
`BaseLine`, `Assemble`, `Advance`, `SkipNewline`, `NextLine` and `EndOfFile` its branches.  `handled` is not in the
code: it is the history of the lines handed over, with the address before and after each,
and holds one more than the file has (`HandledBound`), so that one handed over twice is seen.

## 3. Runs

| Run | Expect | What it shows |
|---|---|---|
| `LookupTable_dll` | pass | table built once, complete scans, no break, calls return, implements `OnceTable` |
| `LookupTable_static` | violation of `FrozenOncePublished` | two first calls: "Initialize all of the tables only once" (`XEDParse.cpp:23`) does not hold |
| `BranchInst` | pass | short form, landing in 32-bit code, reach in 64-bit code |
| `BranchInst_lands64` | violation of `LandsOnTarget64` | displacements outside 32 signed bits are accepted and land 2^32 off; the trace has -2^32, which lands 2^32 higher |
| `Assemble` | pass | the 32 bits of a displacement are the distance, or 2^32 off where 32 signed bits do not reach it; width preference, justified refusals; calls implement `AssembleCall`, on a block with an earlier call's length, their return included |
| `Assemble_error` | violation of `ErrorExplained` | failures without a text |
| `OperandMem` | pass | the operand denotes its text, exactly where its displacement can and up to a multiple of 2^32 elsewhere |
| `Resize` | pass | ambiguity only for forms that differ in width, and always for those of ordinary widths, in every order; refusals exact; value, sign and width of immediates; width of memory |
| `Resize_sign` | violation of `SignBitKept` | `mov rax, 80000000h`: a form that exists and keeps the value is not taken |
| `Parser` | pass | nothing lost, numbers, selectors, conditional jumps, SSE or string, address size |
| `Parser_overrun` | violation of `WithinArray` | a fifth operand is analysed into a slot behind `Operands[4]` (`Parser.h:23`) before "Instruction has more than 4 operands" (`Parser.cpp:258-260`) refuses it |
| `Driver` | pass | each line once, in order, at the next address; ends exactly when each LF follows a CR or LF |

The violations are disagreements of the code with its own comments; "findings" in
`PROJECT.json` quotes them.  The most far-reaching is `Resize_sign`: the half of a 32-bit range is
computed with an `int` shift, which concerns every immediate (and displacement) with bit 31 set.

### Bounds

- `LookupTable`: three threads (two that race and one that scans), two classes and
  three forms of which two belong to one class and are not adjacent, room for two
  forms (so that one count too many hits the limit).
- `BranchInst`: every 64-bit value of an 8-bit qword as a target, ten instruction
  pointers at both ends and the middle of both address spaces.  The second
  operand takes five values.  The order byte < word < dword < qword with room for
  the longest instruction is what the assumption `WidthAssumption` asks of the
  widths.
- `Assemble`: two operand slots and texts of up to three operands, so that the loops meet one
  operand and several, and one behind the array; lengths up to 2; addresses on both sides of the limit
  of the mask, so that one length passes the check and another does not, and on both sides of
  what 32 signed bits reach; two instruction pointers, one of which makes the address space wrap.
- `OperandMem`: four pieces hold base, scaled index and displacement in any order,
  or a product and two others; three registers (one that selects SS, RIP, another);
  four numbers on both sides of the sign bits; prefixes with a segment or none and a size or none.  The
  one size, `WORD`, is the one whose operand size is no mode's; nothing else depends on it.
- `Resize`: a byte of 2 bits, a word of 3, a dword of 4 and a qword of 7, so that each has
  values the narrower one has not, with both signs; seven values on both sides of each
  limit.  A row has up to three forms of one family, in every order: three are what it takes
  for the count of widths to err against the running maximum (a width, a larger one, the
  first again).  Memory has every size there is.  The proofs do away with these bounds.
- `Parser`: all texts of up to five pieces, up to eight operands (two more than the buffer of
  tokens, four more than an instruction has), all names of conditions, all numbers of up
  to four characters with a 9-bit qword, so that they overflow, selectors on both sides of
  4 bits, and modifiers put at every place of three texts.
- `Driver`: all files of up to four characters have every kind of line end, and all files
  of three CRLF lines every sequence of failure, success and base line; addresses wrap at 4.

`BranchInst`, `OperandMem`, `Resize` and `Parser` stop (a behaviour is one call), so does the program
in `Driver`, after a `__debugbreak` the static table does, and in `Assemble` the process may stop when
an operand is written behind the array: these configurations switch the deadlock check off.  That
a call of `Assemble` gets stuck nowhere else is the liveness half of `ImplementsAssembleCall`.

### Fairness

`LookupTable` assumes weak fairness of each thread's steps inside a call and
nothing of whether a thread ever calls.  That a waiting thread gets the loader
lock follows, for the lock is taken once and released.  `Assemble` assumes
weak fairness of the steps of the call in progress, none of `Call`.  The code
justifies both: it runs on the caller's thread, takes no lock of its own, waits
for nobody and has no unbounded loop.  `Driver` assumes weak fairness of its one thread, in which
the call returns as `AssembleCall` promises with weak fairness of `Return`; that `Assemble` has this
fairness is part of `ImplementsAssembleCall`.  The safety-only modules assume none.

## 4. Proofs

| Theorem | States |
|---|---|
| `LookupTableProofs!Invariance, TypeCorrect, ScansAreComplete, NoBreak, Frozen, Refinement` | for any threads, classes and forms, in the DLL build: the invariant, its consequences, and `Spec => Once!Spec` |
| `BranchInstProofs!TypeCorrect, ShortestFormChosen, Lands32Correct, Near64Correct` | for any widths |
| `AssembleProofs!Invariance, TypeCorrect, DisplacementsExact, FirstWidthReturned, RefusalsJustified` | for any widths, lengths, sizes of the operand array and numbers of operands, more than it has included |
| `OperandMemProofs!Invariance, TypeCorrect, TextDenoted` | for any widths that divide each other, any registers, prefixes, numbers and length of the text |
| `ResizeProofs!Invariance, TypeCorrect, AmbiguityIsExact, TooLargeIsExact, NarrowestFormIsTaken, MemoryHasAWidthOfAForm, ValueIsKept, ByteSignIsKept, NotWiderThanItsRegister` | for any rows of forms, of any length and order, any values and any widths of the machine |
| `ParserProofs!ParserInvariant, TypeCorrect, TextKept, XmmTells, StringSize, JumpCorrect, NumbersMeant, SelectorsMeant` | for any texts, of any length, any names and answers of the callback, and any widths |
| `DriverProofs!Invariance, TypeCorrect, AddressesChained, LinesHandedOver, EndsOnCrLfOnly, ContractKept` | for any characters, files and addresses |

`AssembleProofs!CallerServed` is the safety half of the refinement of `AssembleCall`, and
`DriverProofs!ContractKept` says that the driver is such a caller; the two together are what the
composition stands on.

*LookupTable.*  Assumptions: the table's classes exist, and no class has more
forms than fit.  The invariant says that before the first attach nobody is inside
the library, that only the attaching thread writes, how far the table is filled
at each of its locations (`Filled(c, i)`: exactly the forms of class `c` below row
`i`), that a published table is filled to the end, and which forms a scan has met.
The refinement maps `ready` to `bInitialized` and an answer to what a scan has met.

*BranchInst.*  The call is one step, so the invariant is `Fresh` (before the call the
operand is the text's) with the properties themselves; the work is in the
arithmetic of `Wrap` and of the mask, path by path.

*Assemble.*  `RefusedOnlyIfHopeless` is not inductive, because a failed try leaves
operands shortened.  What saves the code is that a try fails in `Adjust` only
when some displacement is below the limit of the check, and no later try makes it
larger: the operands are then *spoiled*, and every later try with this instruction
fails too.  So at the start of a try either the operands are as the parser left
them and no earlier width encodes, or they are spoiled and the instruction is
hopeless (`Trying`); `Adjusting` says the same inside the loop, split at `i`.
`Encoded` ties the bytes to the distance cut to 32 bits, `Checked` says that the check has kept its
magnitude below 2^32, and `RipExact` follows by arithmetic: such a distance is what its 32 bits say,
or 2^32 away from it (`CutIs`).  Nothing is assumed but the order of the widths, that lengths are below
2^31, that a qword has twice a dword's values at least, and that the array has two slots.

*OperandMem.*  `DenotesText` speaks of the end of the call only, so the invariant says
what holds on the way.  The code keeps no record of what it has read but the flags of
the operand, and a text outside the form makes them mean nothing.  While it still can
be of the form (`Room`), though, they tell which terms have been read: `RegsRead` ties
`Base`, `Index` and `Scale` to the registers and products so far, and between a factor
and its `*` says which of index and scale is set; `DispRead` does it for the displacement
and its width.  One lemma per setter keeps these.  What `Fixup` needs besides is
arithmetic: a width that holds a value names the same address after sign extension, or one a
multiple of 2^32 away for a dword in 64-bit code (`HeldIsSame`), a displacement measured from the
instruction pointer leads back (`RelativeLeadsBack`), and so do its low 32 bits in the same sense
(`RelativeDword`).  Assumed: each width divides the wider ones, and the buffer holds
a piece.

*Resize.*  A verdict comes after a loop and speaks of all the forms at once, while the code
keeps two numbers: a count of changes and a running maximum.  The invariant says what these
tell of the forms behind the loop.  `ImmScan`: `fixedSize` is the narrowest width that fits among them,
or `INT_MAX` if none does, and `largestSize` the widest.  `MemScan`: the maximum is a width that was
met, the count is 0 exactly while it is, and above 1 exactly when two of the widths met
differ.  The step that keeps the last part is the heart of it (`TakeMemScan`): with a count of 1 all
widths other than 0 equal the maximum, so that one more form changes the count exactly if it
is the first to differ.  The save areas above 512 bits, after which line 102 counts from 0 again,
are a case of their own.  Two widths that differ in that sense do differ (`CountedWidthsDiffer`), and in
a row of ordinary widths the count misses none, which is `AmbiguityExact`.  `Started` carries what the dispatch leaves for the loops: an immediate has
one of four sizes, and takes the operand size of the register beside it.

`ValueKept` and `ByteSignKept` relate the width that the scan ends with to the value, which the scan
never looks at again.  `SizedByValue` carries over the whole call that what the loop looks for is
`OpsizeFromValue` of the immediate; `SizeHoldsValue` then says that this size, or a wider one, keeps
the value, for any widths of the machine.  Its two halves are those of the code.  With the sign
bit of the mode clear, the value is below the power after its highest bit (`HighestBit`, `ZerosAbove`).  With it set, all bits from
`lastOne` up to that of the mode are ones (`OnesDown`), and a number with such ones is the extension of
its lower bits (`OnesAbove`), each by induction over the bits.  That in 32-bit code only the lower
half of a 64-bit value is kept is part of the statement (`SameValue`).  A byte beside a wider form needs no promotion, and
`ByteHoldsSign` says what that means for its sign.

Assumed: the row is a sequence of forms whose widths are whole bytes, immediates have 0 to 64
bits, and values are unsigned numbers of a qword.

*Parser.*  `NothingLost` speaks of the end of the call, when a text has been taken apart at places the
passes chose from what they read.  The invariant puts it together again on the way: `AllThere` says
for each phase that prefix, mnemonic, tokens and `rest`, with the separators between them, are the text
without blanks and without the modifiers found so far, and `Untouched` what a later pass has not
reached.  `MnemonicThere` follows the mnemonic to its place in the caller's text, through the blanks
and the modifier taken out on either side of it, which is what `SseOrString` needs to tell an
XED name that was written from one that `SpecialCase` made; `SseSoFar` says which register operands the loop has
passed, for the name changes once and must not change back.  `JumpKeepsCondition` compares with the name in the
text for each modifier that can have been deleted.  What the scans return, for a text of
any length, is proved from `SetInduction`: a set of naturals that has 0 and is closed under
successor is `Nat`, from the well-foundedness of `<`; with it a fold is the value of the function that
its definition describes (`FoldSolution`), and so `NoBlanks`, the conversion of a number and the joining of
the tokens are treated.  Two definitions of the model had to be put right for the proof: the cases of
`AddressSize` overlapped, and the alternatives of `GrabOperand` were not disjoint.  Assumed: texts are
sequences of strings, and the widths are what they are in `Numbers`: each below the next, and a
number's even and a multiple of a selector's.

`NumberMeans` and `SelectorMeans` say what the operand made of a number is worth.  The invariant keeps
of each operand that it is one its token can become (`OperandsRead`), and the rest is about `valfromstring`.
The code reads from the first digit on, `v * radix + digit`; the reference, which scans nothing, adds
the digits from the last one on, each times its power.  `Sums` and `SumsAndLeading` show by induction over the
length that both are one number, and `WrittenIsRead` that the sign, the leading zero and each of the
markers lead the code to the digits and the radix they stand for, and a magnitude of more than 64 bits
to no number.  `SmallSelector` is the arithmetic of the check: numbers from 0 to 0xFFFF pass and are kept, -0xFFFF to
-1 pass too, and so does the least number, whose `abs` is that number again.  `Overrun` leaves the operands
of the array alone (`OverrunStep`), so that `Counts` ties `Operands` to the count up to four and to four above.

*Driver.*  The chain of addresses (`Chained`) needs, besides itself, that the instruction pointer is where
the last line left it and that it is not touched during a call.  `LinesInOrder` relates the
history to a file that the code never splits: a line is cut where the *next* character is a line feed, from a
buffer that is overwritten and not cleared.  `LineByLine` says where the line being read began
(`Start`, at the beginning or behind a line feed and the newlines after it), that it has no line feed so
far, that the buffer holds it once a character was copied, and that as many lines were handed over as
end before it; and behind a line, that only newlines lie between its end and `i`.  `LineEndsHere`
shows that what the code takes for the end is the first line feed of a run of newlines, and `NextNumber` that its
number is the next one.  `CrLfBehind` gives the safety half of `EndsExactlyOnCrLf` (`EndsOnCrLf`): every line feed
that was passed follows a newline.

Only model-checked: liveness (`CallsReturn`, the liveness half of `ImplementsAssembleCall`,
`EndsExactlyOnCrLf`), which the prover cannot treat under fairness.  Every definition the proofs use is free of `RECURSIVE`.

## 5. Not modelled

- Lengths of buffers and layout of text, the wording of messages and of the rendered
  instruction.
- XED.  What the code uses of it (an encoding or none per width, the forms of a class, the
  classes by name) is chosen freely or given as constants, and marked external.
- The table of registers and their sizes, names of sizes and segments: data that is looked up.
- `RunTests` and its table: a zeroed block per entry, and nothing that outlives one.  The
  Python binding, build files and hooks.

Most of the repository's lines are none of its program: about 22000 of the 26600 lines counted
as implementation are the vendored headers and examples of XED under `xed2/`, which the code
includes and links.  The modules cover the larger part of what `src/src/` and the batch driver do;
that is a small share of all lines and cannot be more.

### Divergences that no run shows

Met while modelling, and left to this list, because another run makes the same point, because the
effect lies in the encoder, or because no comment of the code says otherwise:

- LOOP and JRCXZ keep the byte form for targets beyond it (`BranchInst.cpp:109`), and a 32-bit
  branch across address 0 is refused (`BranchInst.cpp:122`).
- RIP-relative distances of 2^31 to 2^32 - 1 pass the check of the high half and lead 2^32 lower, those
  of -2^32 + 1 to -2^31 - 1 pass it and lead 2^32 higher, as in `BranchInst_lands64`
  (`OperandMem.cpp:157`; `RipExact` and `DenotesText` state it), and memory displacements with bit 31 set are not
  promoted, as in `Resize_sign` (`Operand.cpp:10`).
- A term of a memory operand that cannot be read leaves a message and is passed over
  (`OperandMem.cpp:224`, `:249`).
- An immediate beside memory is never adjusted for its sign (`Validator.cpp:334-360`).
- movss, cmpss and insertps begin like string instructions, have no x, and lose their operands
  (`MnemonicTable.cpp:102-122`).
- A selector from -0xFFFF to -1 and the least 64-bit number are accepted and cut to 16 bits
  (`OperandSegSel.cpp:21`), although "The segment selector is always a number from 0 to 0xFFFF"
  (`OperandSegSel.cpp:16`); `SelectorMeans` says what each is read as.
- Seven aliases lead to another condition: cmovae to cmovb, cmovnae to cmovnb, cmovnge to cmovle, setnae
  to setnb, setae to setb, setpo to setp and setnge to setle (`MnemonicTable.h:46-74`).  The models
  have these entries as they are.
- The ambiguity of memory depends on the order of the table where a form has a width of 0 (behind
  another width it counts, in front of it it does not), and a width above 512 bits hides the
  ambiguity of ordinary ones (`Validator.cpp:99-110`).
- A prefix that is a segment alone sets the effective operand size to 0, under which widths that
  follow it are looked up as for a byte (`OperandMem.cpp:68`).
- A string instruction with a single memory operand gets no address size (`MnemonicTable.cpp:110`).
- A modifier inside a symbol is deleted (`Parser.cpp:218`), and two blanks after a prefix make an
  empty mnemonic (`Parser.cpp:172`).
- The driver never gets past a line feed that follows a character, never assembles a last line
  without a newline, and reads `filedata` as a string although nothing ends it
  (`XEDParseTest.cpp:150-184`).

## 6. Plan

Done: the shared table, branches, the whole call, memory operands, resizing, the parser with
numbers, selectors and mnemonics, and the driver over the promise of the call; proofs for every
module with a state, and for every safety property that a passing run checks.  Left: `Assemble` with
`Resize` and `Parser` in the place of its choices, on very small instances.
