------------------------------- MODULE Driver -------------------------------
(***************************************************************************)
(* The batch driver (main of XEDParseTest.cpp): a file of instructions is  *)
(* assembled line by line on one XEDPARSE block, each line at the address  *)
(* after the one before it.  XEDParseAssemble is AssembleCall, the promise *)
(* that Assemble implements, for lines with no more operands than there is *)
(* room for: what the process does of a line with more is not followed.    *)
(*                                                                         *)
(* A file is a sequence of characters: "CR", "LF", the piece "base:" that  *)
(* begins a line base:0x..., and others.  Nothing ends filedata but the    *)
(* first zero byte after it (line 150), so that a file here has after its  *)
(* own bytes any that happen to follow them.  The length of the buffer of  *)
(* a line is left out.                                                     *)
(***************************************************************************)
EXTENDS Integers, SequencesExt

CONSTANTS Chars, Files, \* characters, and sequences of them
          MaxLength,    \* XED_MAX_INSTRUCTION_BYTES
          CipModulus,   \* 2^64
          FirstCip,     \* 0x180001000
          BaseCip       \* the address of base:0x...

ASSUME DriverAssumption ==
    /\ Files \subseteq Seq(Chars)
    /\ MaxLength \in Nat /\ 1 <= MaxLength
    /\ CipModulus \in Nat /\ MaxLength < CipModulus
    /\ FirstCip \in 0 .. CipModulus - 1 /\ BaseCip \in 0 .. CipModulus - 1

VARIABLES filedata, i, j, current_instr, errors,        \* locals of main
          x64, cip, dest_size, result, busy,            \* current, and the call
          phase,
          handled       \* history: the lines handed over, up to HandledBound

Cips == 0 .. CipModulus - 1

Callee == INSTANCE AssembleCall WITH fits <- TRUE, alive <- TRUE

locals == <<filedata, i, j, current_instr, errors>>
call == <<x64, cip, dest_size, result, busy>>
vars == <<locals, call, phase, handled>>

len == Len(filedata)

\* A line more than the file has, so that one handed over twice is seen.
HandledBound == Cardinality({k \in 1 .. len : filedata[k] = "LF"}) + 1

IsNewline(c) == c \in {"CR", "LF"}

Init ==
    /\ filedata \in Files /\ i = 1 /\ j = 0 /\ current_instr = <<>> /\ errors = 0
    /\ Callee!Init /\ cip = FirstCip
    /\ phase = "scan" /\ handled = <<>>

\* Variant of AtNewline that looks at the character alone.
AtNewlineSelf == filedata[i] = "LF"

\* filedata[i] == '\n' || filedata[i + 1] == '\n'
AtNewline == filedata[i] = "LF" \/ (i < len /\ filedata[i + 1] = "LF")

\* sprintf(current_instr + j, "%c", filedata[i]) ends the string there.
Character ==
    /\ phase = "scan" /\ i <= len /\ ~AtNewline
    /\ current_instr' = Append(SubSeq(current_instr, 1, j), filedata[i])
    /\ i' = i + 1 /\ j' = j + 1
    /\ UNCHANGED <<filedata, errors, call, phase, handled>>

IsBase == Contains(current_instr, "base:")

Record(next, failed) ==
    handled' = IF Len(handled) < HandledBound
               THEN Append(handled, [text |-> current_instr, start |-> cip, next |-> next,
                                     failed |-> failed])
               ELSE handled

\* A base line sets the instruction pointer; sscanf sets nothing if base: is
\* not what the line begins with.
BaseLine ==
    /\ phase = "scan" /\ i <= len /\ AtNewline /\ IsBase
    /\ cip' = IF current_instr[1] = "base:" THEN BaseCip ELSE cip
    /\ Record(cip', FALSE)
    /\ phase' = "newline"
    /\ UNCHANGED <<locals, x64, dest_size, result, busy>>

Assemble ==
    /\ phase = "scan" /\ i <= len /\ AtNewline /\ ~IsBase
    /\ UNCHANGED <<x64, cip>> /\ Callee!Call
    /\ phase' = "call"
    /\ UNCHANGED <<locals, handled>>

Assembled ==
    /\ phase = "call"
    /\ Callee!Return
    /\ phase' = "advance"
    /\ UNCHANGED <<locals, handled>>

\* Variant of Step that goes on by the size that an error has left.
StepBySize == dest_size

\* How far the instruction pointer moves on.
Step == IF result = "ERROR" THEN 1 ELSE dest_size

Advance ==
    /\ phase = "advance"
    /\ cip' = (cip + Step) % CipModulus
    /\ errors' = IF result = "ERROR" THEN (errors + 1) % CipModulus ELSE errors
    /\ Record(cip', result = "ERROR")
    /\ phase' = "newline"
    /\ UNCHANGED <<filedata, i, j, current_instr, x64, dest_size, result, busy>>

\* Variant of AtBreak that knows line feeds only.
AtBreakLf == i <= len /\ filedata[i] = "LF"

\* while(filedata[i] == '\r' || filedata[i] == '\n')
AtBreak == i <= len /\ IsNewline(filedata[i])

SkipNewline ==
    /\ phase = "newline" /\ AtBreak
    /\ i' = i + 1
    /\ UNCHANGED <<filedata, j, current_instr, errors, call, phase, handled>>

\* Variant of NextLine without the i-- before the i++ of the loop.
NextLinePast ==
    /\ phase = "newline" /\ ~AtBreak
    /\ i' = i + 1 /\ j' = 0
    /\ phase' = "scan"
    /\ UNCHANGED <<filedata, current_instr, errors, call, handled>>

NextLine ==
    /\ phase = "newline" /\ ~AtBreak
    /\ j' = 0
    /\ phase' = "scan"
    /\ UNCHANGED <<filedata, i, current_instr, errors, call, handled>>

EndOfFile ==
    /\ phase = "scan" /\ i > len
    /\ phase' = "done"
    /\ UNCHANGED <<locals, call, handled>>

Next == \/ Character \/ BaseLine \/ Assemble \/ Assembled \/ Advance
        \/ SkipNewline \/ NextLine \/ EndOfFile

\* One thread, and a callee that returns.
Spec == Init /\ [][Next]_vars /\ WF_vars(Next)

-----------------------------------------------------------------------------

TypeOK ==
    /\ filedata \in Files /\ i \in 1 .. len + 1 /\ j \in 0 .. len
    /\ current_instr \in Seq(Chars) /\ Len(current_instr) >= j
    /\ errors \in 0 .. CipModulus - 1 /\ x64 \in BOOLEAN /\ cip \in Cips
    /\ dest_size \in 0 .. MaxLength /\ result \in {"none", "OK", "ERROR"}
    /\ phase \in {"scan", "call", "advance", "newline", "done"}
    /\ (busy <=> phase = "call")

\* Every line feed follows a carriage return or another line feed.
IsCrLf == \A k \in 2 .. len : filedata[k] = "LF" => IsNewline(filedata[k - 1])

\* The line feeds that end a line: the first of each run of newlines.
LineEnds == {p \in 1 .. len :
                /\ filedata[p] = "LF"
                /\ \A q \in 1 .. p - 1 :
                      filedata[q] = "LF" => \E k \in q .. p : ~IsNewline(filedata[k])}

\* The text of the line that ends at p, without its carriage return.
LineAt(p) ==
    LET earlier == {q \in 1 .. p - 1 : filedata[q] = "LF"}
        starts  == {k \in 1 .. p - 1 : /\ \A q \in earlier : q < k
                                       /\ earlier # {} => ~IsNewline(filedata[k])}
    IN  IF starts = {} THEN <<>>
        ELSE SubSeq(filedata, Min(starts), p - 2)

\* The number of the line that ends at p.
LineNumber(p) == Cardinality({q \in LineEnds : q <= p})

\* With CRLF the lines are handed over one by one, whole, in their order and
\* each once, and those that were not by the end have no newline after them:
\* the character before a newline decides, and the buffer of the line still
\* holds the one before it.  The errors that are printed are those of the lines
\* (lines 163-190).
LinesInOrder ==
    IsCrLf =>
        /\ Len(handled) <= Cardinality(LineEnds)
        /\ \A p \in LineEnds :
              LineNumber(p) <= Len(handled) => handled[LineNumber(p)].text = LineAt(p)
        /\ phase = "done" => Len(handled) = Cardinality(LineEnds)
        /\ errors = Cardinality({k \in 1 .. Len(handled) : handled[k].failed}) % CipModulus

Bytes(entry) == IF entry.failed THEN {1} ELSE 1 .. MaxLength

\* Every line has the address after the one before it, whatever mixture of
\* failures, base lines and instructions came first; a failure takes one byte,
\* whatever size it has left behind (lines 167-179).
AddressesChain ==
    \A k \in 1 .. Len(handled) :
        /\ handled[k].start = IF k = 1 THEN FirstCip ELSE handled[k - 1].next
        /\ IF Contains(handled[k].text, "base:")
           THEN handled[k].next \in {handled[k].start, BaseCip}
           ELSE \E n \in Bytes(handled[k]) : handled[k].next = (handled[k].start + n) % CipModulus

\* A file with a bare line feed is never left.
EndsOnCrLf == phase = "done" => IsCrLf

\* The driver ends exactly if every line feed follows a carriage return or
\* another line feed: a bare one after a character is never passed, for the
\* loop over newlines does not start on it (lines 165-184).
EndsExactlyOnCrLf ==
    /\ phase = "scan" /\ IsCrLf ~> phase = "done"
    /\ []EndsOnCrLf

-----------------------------------------------------------------------------
(* Why the addresses chain.                                                *)

\* The driver is a caller as AssembleCall asks for: it leaves the block alone
\* while a call is being made.
KeepsContract == Callee!Init /\ [][Callee!Next]_(Callee!vars)

Entry == [text : Seq(Chars), start : Cips, next : Cips, failed : BOOLEAN]

\* The instruction pointer is where the last line has left it.
AtLastNext ==
    Len(handled) < HandledBound =>
        cip = IF handled = <<>> THEN FirstCip ELSE handled[Len(handled)].next

-----------------------------------------------------------------------------
(* Why the lines are handed over in order.                                 *)

\* Every line feed that has been reached follows a newline.
CrLfBehind ==
    \A k \in 2 .. len : k <= i /\ filedata[k] = "LF" => IsNewline(filedata[k - 1])

\* Between a and b there are newlines only.
Newlines(a, b) == \A k \in 1 .. len : a <= k /\ k <= b => IsNewline(filedata[k])

\* The first place of the line that is being read.
Start == i - j

\* A line but the first one begins behind a line feed and the newlines after it.
StartsLine ==
    Start = 1 \/ /\ \E q \in 1 .. Start - 1 : filedata[q] = "LF" /\ Newlines(q, Start - 1)
                 /\ Start <= len => ~IsNewline(filedata[Start])

\* Inside a line: it has no line feed so far, the buffer holds it, and the
\* lines before it have been handed over.
Reading ==
    phase \in {"scan", "call", "advance", "done"} =>
        /\ StartsLine
        /\ \A k \in Start .. i - 1 : filedata[k] # "LF"
        /\ 1 < i /\ i <= len => filedata[i] # "LF"
        /\ j > 0 \/ Start = 1 => current_instr = SubSeq(filedata, Start, i - 1)
        /\ Len(handled) = Cardinality({q \in LineEnds : q < Start})

\* Behind a line, at its newlines or those after them: it has been handed over
\* as the last one.
Skipping ==
    phase = "newline" =>
        \E e \in LineEnds : /\ Len(handled) = LineNumber(e)
                            /\ Newlines(i, e) /\ Newlines(e, i - 1)

\* The lines handed over are those of the file, and their errors are counted.
Faithful ==
    /\ \A p \in LineEnds :
          LineNumber(p) <= Len(handled) => handled[LineNumber(p)].text = LineAt(p)
    /\ errors = Cardinality({k \in 1 .. Len(handled) : handled[k].failed}) % CipModulus

-----------------------------------------------------------------------------

\* The addresses, and what a call has left.
Chained ==
    /\ TypeOK /\ handled \in Seq(Entry) /\ j < i
    /\ AtLastNext /\ AddressesChain
    /\ phase \in {"call", "advance"} => ~IsBase
    /\ phase = "advance" => \/ result = "ERROR"
                            \/ result = "OK" /\ dest_size \in 1 .. MaxLength

\* The lines.  Whether the file is CRLF is known at its end only, so that a place
\* where a line ends is kept as one until it is passed.
LineByLine ==
    /\ CrLfBehind
    /\ phase = "done" => i > len
    /\ phase \in {"call", "advance"} => AtNewline /\ i <= len
    /\ IsCrLf => Reading /\ Skipping /\ Faithful

\* The inductive invariant.
IInv == Chained /\ LineByLine
=============================================================================
