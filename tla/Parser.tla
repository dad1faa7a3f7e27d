------------------------------- MODULE Parser -------------------------------
(***************************************************************************)
(* ParseInstString (Parser.cpp): from the text of the caller to an         *)
(* instruction with its prefix, operands and class.  A text is a sequence  *)
(* of pieces: a blank, a tab, a comma, a modifier, or a piece of a word; a *)
(* word is a run of them, so that a symbol may have a modifier in it.  A   *)
(* behaviour is one call, an action one pass over the text, or one turn of *)
(* the loops over tokens and operands.                                     *)
(*                                                                         *)
(* Upper and lower case are one, and the lengths of the buffers are left   *)
(* out.  What HandleMemoryOperand makes of brackets is in OperandMem; here *)
(* it accepts them or does not.                                            *)
(***************************************************************************)
EXTENDS Numbers, Mnemonics, Powers

CONSTANTS Texts,    \* instructions the caller passes
          Answers   \* numbers cbUnknown may answer with

ASSUME ParserAssumption ==
    /\ Texts \subseteq Seq(STRING)
    /\ Answers \subseteq 0 .. QwordModulus - 1

Registers == [r \in {"eax", "es", "cr0", "dr0", "xmm0"} |->
                 CASE r = "cr0"  -> "control" [] r = "dr0" -> "debug"
                   [] r = "xmm0" -> "xmm"     [] OTHER     -> "plain"]

\* Operands in brackets, with the size of their base register, 0 for none.
Brackets == [b \in {"[9]", "[si]", "[esi]", "[rsi]"} |->
                CASE b = "[9]"   -> 0  [] b = "[si]"  -> 16
                  [] b = "[esi]" -> 32 [] b = "[rsi]" -> 64]

VARIABLES instr, x64,            \* XEDPARSE
          buf,                   \* the copy that is edited
          Near, Far, Short, Prefix, Mnemonic, Class,
          OperandCount, Operands, AddressSizeOverride,   \* Inst
          tokens, rest, more,    \* InstructionToTokens: Tokens, bufPtr, bufPtr # NULL
          i,                     \* the loop of MnemonicInstToXed
          phase, result

modifiers == <<Near, Far, Short>>
inst == <<Prefix, Mnemonic, Class, OperandCount, Operands, AddressSizeOverride>>
vars == <<instr, x64, buf, modifiers, inst, tokens, rest, more, i, phase, result>>

Operand == [Type : {"REG", "MEM", "SEGSEL", "IMM"}, reg : {"none", "plain", "control", "debug", "xmm"},
            base : {0, 16, 32, 64}, imm : 0 .. QwordModulus - 1,
            Selector : 0 .. WordModulus - 1, Offset : 0 .. DwordModulus - 1]

Blank == [Type |-> "IMM", reg |-> "none", base |-> 0, imm |-> 0, Selector |-> 0, Offset |-> 0]

Blanks == {" ", "tab"}

SkipBlanks(s) ==
    LET k == SelectInSeq(s, LAMBDA c : c \notin Blanks)
    IN  IF k = 0 THEN <<>> ELSE SubSeq(s, k, Len(s))

\* Obliterate spaces.
NoBlanks(s) == FoldLeft(LAMBDA t, c : IF c \in Blanks THEN t ELSE Append(t, c), <<>>, s)

PrefixFromString(token) ==
    CASE token = <<"lock">>                                   -> "LOCK"
      [] token \in {<<"rep">>, <<"repe">>, <<"repz">>}        -> "REP"
      [] token \in {<<"repne">>, <<"repnz">>}                 -> "REPNEZ"
      [] OTHER                                                -> "NONE"

Init ==
    /\ instr \in Texts /\ x64 \in BOOLEAN
    /\ buf = instr
    /\ Near = FALSE /\ Far = FALSE /\ Short = FALSE
    /\ Prefix = "NONE" /\ Mnemonic = <<>> /\ Class = <<>>
    /\ OperandCount = 0 /\ Operands = <<>> /\ AddressSizeOverride = 0
    /\ tokens = <<>> /\ rest = <<>> /\ more = FALSE /\ i = 1
    /\ phase = "modifiers" /\ result = "none"

Return(r) == phase' = "done" /\ result' = r

-----------------------------------------------------------------------------

\* Variant of StrDel that deletes every occurrence.
StrDelAll(s, word) == Remove(s, word)

\* The first occurrence goes, wherever it is.
StrDel(s, word) == RemoveFirst(s, word)

\* Find the modifiers, one at a time.
Modifiers ==
    /\ phase = "modifiers"
    /\ Near' = Contains(buf, "near")
    /\ Far' = Contains(buf, "far")
    /\ Short' = Contains(buf, "short")
    /\ buf' = StrDel(StrDel(StrDel(buf, "near"), "far"), "short")
    /\ IF Cardinality({w \in {"near", "far", "short"} : Contains(buf, w)}) > 1
       THEN Return("Instruction cannot have multiple modifiers (short, near, far)")
       ELSE phase' = "prefix" /\ result' = result
    /\ UNCHANGED <<instr, x64, inst, tokens, rest, more, i>>

\* GrabInstToken up to the separator: what is before and after it.
Before(s, c) == IF Contains(s, c) THEN SubSeq(s, 1, SelectInSeq(s, LAMBDA p : p = c) - 1) ELSE s
After(s, c) == IF Contains(s, c) THEN SubSeq(s, SelectInSeq(s, LAMBDA p : p = c) + 1, Len(s)) ELSE <<>>

\* A prefix or the mnemonic; a prefix has something after it.  The code copies
\* both into the instruction once all tokens are cut, which nothing can tell.
GrabPrefix ==
    /\ phase = "prefix"
    /\ LET text  == SkipBlanks(buf)
           token == Before(text, " ")
       IN  /\ rest' = After(text, " ") /\ more' = Contains(text, " ")
           /\ Prefix' = PrefixFromString(token)
           /\ IF text = <<>> \/ (Prefix' # "NONE" /\ ~more')
              THEN Return("Malformed or invalid instruction") /\ UNCHANGED Mnemonic
              ELSE /\ phase' = IF Prefix' = "NONE" THEN "operands" ELSE "mnemonic"
                   /\ Mnemonic' = IF Prefix' = "NONE" THEN token ELSE Mnemonic
                   /\ result' = result
    /\ UNCHANGED <<instr, x64, buf, modifiers, Class, OperandCount, Operands,
                   AddressSizeOverride, tokens, i>>

\* The mnemonic after a prefix: empty if two blanks follow it.
GrabMnemonic ==
    /\ phase = "mnemonic"
    /\ Mnemonic' = Before(rest, " ")
    /\ rest' = After(rest, " ") /\ more' = Contains(rest, " ")
    /\ phase' = "operands"
    /\ UNCHANGED <<instr, x64, buf, modifiers, Prefix, Class, OperandCount, Operands,
                   AddressSizeOverride, tokens, i, result>>

\* Nothing but blanks after the mnemonic.
NoOperands ==
    /\ phase = "operands" /\ (~more \/ NoBlanks(rest) = <<>>)
    /\ phase' = "analyze"
    /\ UNCHANGED <<instr, x64, buf, modifiers, inst, tokens, rest, more, i, result>>

FirstOperand ==
    /\ phase = "operands" /\ more /\ NoBlanks(rest) # <<>>
    /\ rest' = NoBlanks(rest)
    /\ phase' = "grab"
    /\ UNCHANGED <<instr, x64, buf, modifiers, inst, tokens, more, i, result>>

MaxTokens == 6

\* Up to the next comma; too many tokens are malformed.
GrabOperand ==
    /\ phase = "grab"
    /\ tokens' = Append(tokens, Before(rest, ","))
    /\ rest' = After(rest, ",") /\ more' = Contains(rest, ",")
    /\ \/ ~more' /\ phase' = "analyze" /\ result' = result
       \/ more' /\ Len(tokens') < MaxTokens /\ UNCHANGED <<phase, result>>
       \/ more' /\ Len(tokens') = MaxTokens /\ Return("Malformed or invalid instruction")
    /\ UNCHANGED <<instr, x64, buf, modifiers, inst, i>>

-----------------------------------------------------------------------------

IsRegister(token) == Len(token) = 1 /\ token[1] \in DOMAIN Registers

BracketsOf(token) == {token[k] : k \in 1 .. Len(token)} \intersect DOMAIN Brackets

\* What AnalyzeOperand can make of a token; nothing, if it refuses it.
Analyzed(token) ==
    LET callbacks == {None} \union {Some(v) : v \in Answers}
        unknown   == IF valfromstring(token).ok THEN {valfromstring(token)} ELSE callbacks
    IN  CASE token = <<>> -> {}
          [] IsRegister(token) -> {[Blank EXCEPT !.Type = "REG", !.reg = Registers[token[1]]]}
          [] token # <<>> /\ ~IsRegister(token) /\ BracketsOf(token) # {} ->
                 {[Blank EXCEPT !.Type = "MEM", !.base = Brackets[b]] : b \in BracketsOf(token)}
          [] BracketsOf(token) = {} /\ Contains(token, ":") ->
                 {[Blank EXCEPT !.Type = "SEGSEL", !.Selector = s.Selector, !.Offset = s.Offset] :
                      s \in {t \in {SegSel(token, c) : c \in callbacks} : t.ok}}
          [] OTHER -> {[Blank EXCEPT !.imm = r.value] : r \in {u \in unknown : u.ok}}

\* An operand is refused: no answer to a symbol, no such memory operand, an
\* empty token, a selector that is too large.
MayRefuse(token) ==
    CASE token = <<>>             -> TRUE
      [] IsRegister(token)        -> FALSE
      [] BracketsOf(token) # {}   -> TRUE
      [] Contains(token, ":") /\ BracketsOf(token) = {} -> ~SegSel(token, None).ok
      [] OTHER                    -> ~valfromstring(token).ok

\* InstOperand Operands[4]
MaxOperands == 4

Analyze ==
    /\ phase = "analyze" /\ OperandCount < Len(tokens) /\ OperandCount < MaxOperands
    /\ OperandCount' = OperandCount + 1
    /\ \/ \E op \in Analyzed(tokens[OperandCount + 1]) :
              Operands' = Append(Operands, op) /\ UNCHANGED <<phase, result>>
       \/ /\ MayRefuse(tokens[OperandCount + 1])
          /\ Return("operand") /\ Operands' = Operands
    /\ UNCHANGED <<instr, x64, buf, modifiers, Prefix, Mnemonic, Class, AddressSizeOverride,
                   tokens, rest, more, i>>

\* AddressSizeOverride with the first bytes of a fifth operand in it.
Overwritten == -1

\* A fifth and a sixth operand are written behind the array, over
\* AddressSizeOverride and what the stack has after the instruction; the count
\* is looked at when all have been.  The call goes on, if what is overwritten
\* is not needed any more, or the process stops.
Overrun ==
    /\ phase = "analyze" /\ OperandCount < Len(tokens) /\ OperandCount >= MaxOperands
    /\ OperandCount' = OperandCount + 1
    /\ AddressSizeOverride' = Overwritten
    /\ \/ Analyzed(tokens[OperandCount + 1]) # {} /\ UNCHANGED <<phase, result>>
       \/ MayRefuse(tokens[OperandCount + 1]) /\ Return("operand")
       \/ Return("stopped")
    /\ UNCHANGED <<instr, x64, buf, modifiers, Prefix, Mnemonic, Class, Operands,
                   tokens, rest, more, i>>

\* Variant of AnalyzeEnds that counts as many operands as there are tokens.
AnalyzeEndsUncounted ==
    /\ phase = "analyze" /\ OperandCount = Len(tokens)
    /\ phase' = "special"
    /\ UNCHANGED <<instr, x64, buf, modifiers, inst, tokens, rest, more, i, result>>

AnalyzeEnds ==
    /\ phase = "analyze" /\ OperandCount = Len(tokens)
    /\ IF OperandCount > MaxOperands THEN Return("Instruction has more than 4 operands")
       ELSE phase' = "special" /\ result' = result
    /\ UNCHANGED <<instr, x64, buf, modifiers, inst, tokens, rest, more, i>>

\* Variant of SpecialCase that looks at the first operand only.
SpecialCaseFirst ==
    /\ phase = "special" /\ i <= OperandCount
    /\ Mnemonic' = IF i = 1 THEN RegisterAlias(Mnemonic, Operands[i].reg) ELSE Mnemonic
    /\ i' = i + 1
    /\ UNCHANGED <<instr, x64, buf, modifiers, Prefix, Class, OperandCount, Operands,
                   AddressSizeOverride, tokens, rest, more, phase, result>>

\* Special cases depending on the operands, in place.
SpecialCase ==
    /\ phase = "special" /\ i <= OperandCount
    /\ Mnemonic' = RegisterAlias(Mnemonic, Operands[i].reg)
    /\ i' = i + 1
    /\ UNCHANGED <<instr, x64, buf, modifiers, Prefix, Class, OperandCount, Operands,
                   AddressSizeOverride, tokens, rest, more, phase, result>>

\* Variant of AddressSize that looks at the second operand alone.
AddressSizeSecond == IF OperandCount >= 2 /\ Operands[2].Type = "MEM" THEN Operands[2].base ELSE 0

\* From the base register of the first memory operand of the two.
AddressSize ==
    IF OperandCount < 2 THEN 0
    ELSE CASE Operands[1].Type = "MEM" -> Operands[1].base
           [] Operands[2].Type = "MEM" /\ Operands[1].Type # "MEM" -> Operands[2].base
           [] OTHER -> 0

\* The rest of MnemonicInstToXed, and the class.
Translate ==
    /\ phase = "special" /\ i > OperandCount
    /\ LET far   == IF Far THEN FarAlias(Mnemonic) ELSE Mnemonic
           named == SaveFlags(far, x64)
       IN  /\ Mnemonic' = MnemonicToXed(named)
           /\ Class' = IF IsClass(MnemonicToXed(named)) THEN MnemonicToXed(named) ELSE <<>>
           /\ AddressSizeOverride' = IF HasImplicitOperands(named) THEN AddressSize
                                     ELSE AddressSizeOverride
           /\ OperandCount' = IF HasImplicitOperands(named) THEN 0 ELSE OperandCount
    /\ Return(IF Class' = <<>> THEN "Unknown instruction mnemonic" ELSE "true")
    /\ UNCHANGED <<instr, x64, buf, modifiers, Prefix, Operands, tokens, rest, more, i>>

Next == \/ Modifiers \/ GrabPrefix \/ GrabMnemonic \/ NoOperands \/ FirstOperand \/ GrabOperand
        \/ Analyze \/ Overrun \/ AnalyzeEnds \/ SpecialCase \/ Translate

Spec == Init /\ [][Next]_vars

-----------------------------------------------------------------------------

TypeOK ==
    /\ instr \in Texts /\ x64 \in BOOLEAN
    /\ Near \in BOOLEAN /\ Far \in BOOLEAN /\ Short \in BOOLEAN
    /\ Prefix \in {"NONE", "LOCK", "REP", "REPNEZ"}
    /\ Class \in XedClasses \union {<<>>}
    /\ OperandCount \in 0 .. IF phase = "special" \/ result = "true" THEN MaxOperands ELSE MaxTokens
    /\ Len(tokens) <= MaxTokens /\ Len(Operands) <= Len(tokens) /\ Len(Operands) <= MaxOperands
    /\ \A k \in 1 .. Len(Operands) : Operands[k] \in Operand
    /\ AddressSizeOverride \in {0, 16, 32, 64, Overwritten} /\ i \in 1 .. 5
    /\ phase \in {"modifiers", "prefix", "mnemonic", "operands", "grab", "analyze", "special", "done"}

Accepted == result = "true"

Joined == FlattenSeq([k \in 1 .. Len(tokens) |->
                          IF k = 1 THEN tokens[k] ELSE <<",">> \o tokens[k]])

PrefixWords == {<<>>, <<"lock">>, <<"rep">>, <<"repe">>, <<"repz">>, <<"repne">>, <<"repnz">>}

\* The words of modifiers that the flags stand for.
Deleted == {w \in {"near", "far", "short"} :
                (w = "near" /\ Near) \/ (w = "far" /\ Far) \/ (w = "short" /\ Short)}

\* The text without the one piece that has been deleted.
Remainders == IF Deleted = {} THEN {instr}
              ELSE {RemoveAt(instr, k) : k \in {n \in 1 .. Len(instr) : instr[n] \in Deleted}}

\* When the operands have been read, prefix, mnemonic and operands with a
\* comma between two are the whole text, in its order: only blanks are lost, and
\* one piece that spells a modifier, in a symbol too, which has set its flag
\* (Parser.cpp:118-256).
NothingLost ==
    phase = "special" /\ i = 1 =>
        /\ Cardinality(Deleted) <= 1
        /\ \E p \in PrefixWords, r \in Remainders :
              /\ PrefixFromString(p) = Prefix
              /\ NoBlanks(r) = p \o NoBlanks(Mnemonic) \o Joined
        /\ \A k \in 1 .. Len(tokens) : tokens[k] # <<>> /\ ~Contains(tokens[k], ",")
        /\ Len(Operands) = Len(tokens)

IsXmm(op) == op.Type = "REG" /\ op.reg = "xmm"

\* MOVSD and CMPSD are two instructions each: with an XMM register, at any
\* place, the SSE one with its operands, and without one the string
\* instruction, whose operands are implicit (MnemonicTable.cpp:78-123).  The
\* text may also spell XED's own name of the SSE one.
SseOrString ==
    Accepted =>
        LET xmm == \E k \in 1 .. Len(Operands) : IsXmm(Operands[k])
        IN  /\ Class \in {<<"movs", "d">>, <<"cmps", "d">>} => ~xmm /\ OperandCount = 0
            /\ Class \in {<<"movs", "d", "_xmm">>, <<"cmps", "d", "_xmm">>} =>
                   (xmm \/ Contains(instr, "_xmm")) /\ OperandCount = Len(Operands)

\* Of two operands of a string instruction the memory operand gives the address
\* size, whether it comes first or second, and both when they agree; with a
\* single operand no memory does (MnemonicTable.cpp:110).  No instruction that
\* keeps its operands has an address size (MnemonicTable.cpp:110-119).
StringAddressSize ==
    Accepted =>
        /\ OperandCount > 0 => AddressSizeOverride = 0
        /\ Len(Operands) >= 2 /\ HasImplicitOperands(Class) =>
              LET bases == {Operands[k].base : k \in {n \in 1 .. 2 : Operands[n].Type = "MEM"}}
              IN  IF bases = {} THEN AddressSizeOverride = 0 ELSE AddressSizeOverride \in bases

Flags == [CF : BOOLEAN, ZF : BOOLEAN, SF : BOOLEAN, OF : BOOLEAN, PF : BOOLEAN]

\* What a condition code asks of the processor's flags.
Holds(cc, f) ==
    CASE cc = "o"                    -> f.OF
      [] cc = "no"                   -> ~f.OF
      [] cc \in {"b", "c", "nae"}    -> f.CF
      [] cc \in {"nb", "nc", "ae"}   -> ~f.CF
      [] cc \in {"z", "e"}           -> f.ZF
      [] cc \in {"nz", "ne"}         -> ~f.ZF
      [] cc \in {"be", "na"}         -> f.CF \/ f.ZF
      [] cc \in {"nbe", "a"}         -> ~f.CF /\ ~f.ZF
      [] cc = "s"                    -> f.SF
      [] cc = "ns"                   -> ~f.SF
      [] cc \in {"p", "pe"}          -> f.PF
      [] cc \in {"np", "po"}         -> ~f.PF
      [] cc \in {"l", "nge"}         -> f.SF # f.OF
      [] cc \in {"nl", "ge"}         -> f.SF = f.OF
      [] cc \in {"le", "ng"}         -> f.ZF \/ f.SF # f.OF
      [] cc \in {"nle", "g"}         -> ~f.ZF /\ f.SF = f.OF

\* The class has the condition of the text, for all flags, once the modifier
\* is out of the text.
SameCondition(stem) ==
    Accepted /\ Class[1] = stem /\ Class[2] \in Conditions =>
        \E r \in Remainders : \E k \in 1 .. Len(r) - 1 :
            r[k] = stem /\ \A f \in Flags : Holds(r[k + 1], f) = Holds(Class[2], f)

\* A conditional jump is taken under the flags its text names, whichever of
\* its names was used (MnemonicTable.h:25-38).
JumpKeepsCondition == SameCondition("j")

-----------------------------------------------------------------------------

Radix == [marker \in {<<>>, <<"x">>, <<"0", "x">>, <<".">>, <<".", "b">>, <<"o">>} |->
             CASE marker = <<".">>      -> 10
               [] marker = <<".", "b">> -> 2
               [] marker = <<"o">>      -> 8
               [] OTHER                 -> 16]

\* What a number written so has before its digits.
Lead(f) == (IF f.negative THEN <<"-">> ELSE <<>>) \o f.marker

\* The ways to write a token: a sign, a marker of the radix, digits.
Written(token) ==
    {f \in [negative : BOOLEAN, marker : DOMAIN Radix] :
        /\ IsStrictPrefix(Lead(f), token)
        /\ \A k \in Len(Lead(f)) + 1 .. Len(token) : IsDigit(token[k], Radix[f.marker])}

\* The sum of the digits, each times the power of the radix for its place, from
\* the last digit on.
Magnitude(token, f) ==
    LET count == Len(token) - Len(Lead(f))
        sum[k \in 0 .. count] ==
            IF k = 0 THEN 0
            ELSE sum[k - 1] + Digits[token[Len(token) - (k - 1)]] * Power(Radix[f.marker], k - 1)
    IN  sum[count]

\* The number of a token as it is written, modulo 2^64.
IsValue(token, f, v) ==
    v = IF f.negative THEN (-Magnitude(token, f)) % QwordModulus ELSE Magnitude(token, f)

\* A number is read in the radix it is marked with, hexadecimal if with none,
\* and its sign is applied; one that does not fit 64 bits is no number, so that
\* only the callback's answer may stand for it (Parser.cpp:5-76).
NumberMeans ==
    \A k \in 1 .. Len(Operands) : Operands[k].Type = "IMM" =>
        \A f \in Written(tokens[k]) :
            IF Magnitude(tokens[k], f) < QwordModulus
            THEN IsValue(tokens[k], f, Operands[k].imm)
            ELSE Operands[k].imm \in Answers

\* A selector from 0 to 0xFFFF is kept as it is.  The comment says that it always
\* is one of these (OperandSegSel.cpp:16); the check of line 21 lets the numbers
\* from -0xFFFF to -1 pass too, and the least number of 64 bits, of which the
\* operand holds the low 16 bits, and no other.
SelectorMeans ==
    \A k \in 1 .. Len(Operands) : Operands[k].Type = "SEGSEL" =>
        \A f \in Written(SelectorText(tokens[k])) :
            \E v \in 0 .. QwordModulus - 1 :
                /\ IsValue(SelectorText(tokens[k]), f, v)
                /\ IF v < WordModulus THEN Operands[k].Selector = v
                   ELSE /\ v > QwordModulus - WordModulus \/ v = QwordModulus \div 2
                        /\ Operands[k].Selector = v % WordModulus

-----------------------------------------------------------------------------
(* Statements of the repository that the code does not keep.               *)

\* "Instruction has more than 4 operands" (lines 258-260) refuses them after the
\* fact: no operand has been written behind Operands[4] (Parser.h:23) by then.
WithinArray == OperandCount <= MaxOperands
=============================================================================
