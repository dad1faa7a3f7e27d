--------------------------- MODULE AssembleProofs ---------------------------
(***************************************************************************)
(* Proofs about Assemble, for every size of the integers and the arrays    *)
(* and every set of addresses.                                             *)
(***************************************************************************)
EXTENDS Assemble, TLAPS

\* A difference of two 64-bit values is an integer.
LEMMA DistanceType ==
    ASSUME cip \in Cips, NEW a \in Int
    PROVE  TranslateRelativeCip(a) \in Int
<1>1. cip \in Int /\ QwordHalf \in Int
  BY AssembleAssumption
<1>2. a - cip \in Int
  BY <1>1
<1>. QED
  BY <1>1, <1>2 DEF TranslateRelativeCip, Wrap

\* If the widths before this one encode nothing and this one does, it is the
\* first.
LEMMA FirstWidthIs ==
    ASSUME attempt \in 1 .. 3, enc \in Encodings, NoneBefore, enc[Width] # 0
    PROVE  FirstWidth = Width
<1>1. CASE attempt = 1
  BY <1>1 DEF Width, Widths, Order32First, FirstWidth
<1>2. CASE attempt = 2
  <2>1. enc[32] = 0
    BY <1>2, 1 \in 1 .. 3, 1 < 2 DEF NoneBefore, Order32First
  <2>2. Width = 64
    BY <1>2 DEF Width, Widths, Order32First
  <2>. QED
    BY <2>1, <2>2 DEF FirstWidth
<1>3. CASE attempt = 3
  <2>1. enc[32] = 0
    BY <1>3, 1 \in 1 .. 3, 1 < 3 DEF NoneBefore, Order32First
  <2>2. enc[64] = 0
    BY <1>3, 2 \in 1 .. 3, 2 < 3 DEF NoneBefore, Order32First
  <2>3. Width = 16
    BY <1>3 DEF Width, Widths, Order32First
  <2>. QED
    BY <2>1, <2>2, <2>3 DEF FirstWidth
<1>. QED
  BY <1>1, <1>2, <1>3

\* The widths of the three tries.
LEMMA WidthType ==
    ASSUME attempt \in 1 .. 3, enc \in Encodings
    PROVE  /\ Width \in {16, 32, 64}
           /\ enc[Width] \in 0 .. MaxLength
           /\ enc[Width] \in Int
           /\ attempt = 1 => Width = 32
           /\ attempt = 2 => Width = 64
           /\ attempt = 3 => Width = 16
<1>1. /\ attempt = 1 => Width = 32
      /\ attempt = 2 => Width = 64
      /\ attempt = 3 => Width = 16
  BY DEF Width, Widths, Order32First
<1>. QED
  BY <1>1, AssembleAssumption DEF Encodings

\* When the last width fails too, either nothing encodes or the call is hopeless.
LEMMA LastFails ==
    ASSUME attempt = 3, enc \in Encodings, NoneBefore, enc[Width] = 0
    PROVE  \A w \in {16, 32, 64} : enc[w] = 0
<1>1. enc[32] = 0
  BY 1 \in 1 .. 3, 1 < 3 DEF NoneBefore, Order32First
<1>2. enc[64] = 0
  BY 2 \in 1 .. 3, 2 < 3 DEF NoneBefore, Order32First
<1>3. enc[16] = 0
  BY DEF Width, Widths, Order32First
<1>. QED
  BY <1>1, <1>2, <1>3

-----------------------------------------------------------------------------

LEMMA InitIInv == ASSUME Init PROVE IInv
<1>1. TypeOK
  <2>1. Operands \in [Slots -> Operand]
    BY DEF Init, Operand, OperandType, Plain
  <2>2. dest \in [Slots -> Int] /\ dest_size \in 0 .. MaxLength
    BY AssembleAssumption DEF Init, Zeros
  <2>3. enc \in Encodings
    BY AssembleAssumption DEF Init, Encodings
  <2>4. OperandCount \in 0 .. MaxTokens /\ i \in 1 .. MaxOperands + 1
    BY AssembleAssumption DEF Init
  <2>5. x64 \in BOOLEAN /\ reEncode \in BOOLEAN /\ cip \in Cips /\ given \in 0 .. MaxTokens
    BY DEF Init
  <2>6. attempt \in 1 .. 3 /\ phase = "idle"
    BY DEF Init
  <2>7. /\ error \in {"stale", "message", "instruction"} /\ result \in {"none", "OK", "ERROR"}
        /\ Class \in Classes
    BY DEF Init, Classes
  <2>. QED
    BY <2>1, <2>2, <2>3, <2>4, <2>5, <2>6, <2>7 DEF TypeOK
<1>2. Rips = {}
  BY DEF Init, Rips, Slots
<1>. QED
  BY <1>1, <1>2
  DEF Init, IInv, NoRip32, Intact, Trying, Adjusting, Adjusted, Encoded, Bounded, Checked,
      RefusedOnlyIfHopeless

\* The operands the parser makes.
LEMMA ParsedType ==
    ASSUME TypeOK, NEW op \in Parsed
    PROVE  /\ op \in Operand
           /\ op.ImplicitRip => /\ x64 /\ HighHalfEmpty(op.DispVal)
                                /\ op.DispVal = TranslateRelativeCip(op.address)
<1>1. \A t \in {"REG", "IMM", "MEM", "SEGSEL"} : Plain(t) \in Operand /\ ~Plain(t).ImplicitRip
  BY DEF Plain, Operand, OperandType
<1>2. ASSUME NEW a \in Addresses, x64, op = RipOperand(a)
      PROVE  /\ op \in Operand
             /\ op.ImplicitRip => /\ x64 /\ HighHalfEmpty(op.DispVal)
                                  /\ op.DispVal = TranslateRelativeCip(op.address)
  <2>1. a \in Int /\ TranslateRelativeCip(a) \in Int
    BY AssembleAssumption, DistanceType DEF TypeOK
  <2>2. CASE HighHalfEmpty(TranslateRelativeCip(a))
    BY <1>2, <2>1, <2>2 DEF RipOperand, Operand, OperandType
  <2>3. CASE ~HighHalfEmpty(TranslateRelativeCip(a))
    BY <1>1, <1>2, <2>3 DEF RipOperand
  <2>. QED
    BY <2>2, <2>3
<1>. QED
  BY <1>1, <1>2 DEF Parsed

\* A call starts from a blank instruction.
LEMMA CallIInv == ASSUME IInv, Call PROVE IInv'
<1>1. TypeOK'
  <2>1. (Operands \in [Slots -> Operand])'
    BY DEF Call, Operand, OperandType, Plain
  <2>2. (dest \in [Slots -> Int] /\ dest_size \in 0 .. MaxLength)'
    BY DEF Call, IInv, TypeOK
  <2>3. (enc \in Encodings)'
    BY AssembleAssumption DEF Call, Encodings
  <2>4. (OperandCount \in 0 .. MaxTokens /\ i \in 1 .. MaxOperands + 1)'
    BY AssembleAssumption DEF Call
  <2>5. (x64 \in BOOLEAN /\ reEncode \in BOOLEAN /\ cip \in Cips /\ given \in 0 .. MaxTokens)'
    BY DEF Call
  <2>6. (attempt \in 1 .. 3 /\ phase = "parse")'
    BY DEF Call
  <2>7. (/\ error \in {"stale", "message", "instruction"} /\ result \in {"none", "OK", "ERROR"}
         /\ Class \in Classes)'
    BY DEF Call, Classes
  <2>. QED
    BY <2>1, <2>2, <2>3, <2>4, <2>5, <2>6, <2>7 DEF TypeOK
<1>2. Rips' = {}
  BY DEF Call, Rips, Slots
<1>3. \A s \in Slots : ~Operands'[s].ImplicitRip
  BY DEF Call, Plain
<1>4. Intact'
  BY <1>3 DEF Call, Intact
<1>. QED
  BY <1>1, <1>2, <1>4
  DEF Call, IInv, NoRip32, Trying, Adjusting, Adjusted, Encoded, Bounded, Checked,
      RefusedOnlyIfHopeless

\* The steps up to the validation keep the operands intact.
LEMMA AnalyzeIInv == ASSUME IInv, AnalyzeOperand PROVE IInv'
<1>. DEFINE n == OperandCount + 1
<1>1. PICK op \in Parsed : /\ Operands' = [Operands EXCEPT ![n] = op]
                           /\ error' \in {error} \union IF op.Type = "MEM" THEN {"message"} ELSE {}
  BY DEF AnalyzeOperand
<1>2. op \in Operand /\ (op.ImplicitRip => /\ x64 /\ HighHalfEmpty(op.DispVal)
                                           /\ op.DispVal = TranslateRelativeCip(op.address))
  BY ParsedType DEF IInv
<1>3. n \in Slots /\ n \in 0 .. MaxTokens /\ n \in 0 .. MaxOperands
  BY AssembleAssumption DEF AnalyzeOperand, IInv, TypeOK, Slots
<1>4. TypeOK'
  <2>1. (Operands \in [Slots -> Operand])'
    BY <1>1, <1>2, <1>3 DEF IInv, TypeOK
  <2>2. (OperandCount \in 0 .. MaxTokens)' /\ phase' = "parse"
    BY <1>3 DEF AnalyzeOperand
  <2>3. (error \in {"stale", "message", "instruction"})'
    BY <1>1 DEF IInv, TypeOK
  <2>. QED
    BY <2>1, <2>2, <2>3 DEF AnalyzeOperand, IInv, TypeOK, block, local
<1>5. Intact'
  <2>1. ASSUME NEW s \in Slots, Operands'[s].ImplicitRip
        PROVE  (/\ x64 /\ Operands[s].DispVal = Distance(s) /\ HighHalfEmpty(Operands[s].DispVal))'
    <3>1. CASE s = n
      <4>1. Operands'[s] = op
        BY <1>1, <1>3, <3>1 DEF IInv, TypeOK
      <4>2. x64' = x64 /\ cip' = cip
        BY DEF AnalyzeOperand, block
      <4>. QED
        BY <1>2, <2>1, <4>1, <4>2 DEF Distance, TranslateRelativeCip, HighHalfEmpty
    <3>2. CASE s # n
      <4>1. Operands'[s] = Operands[s]
        BY <1>1, <3>2 DEF IInv, TypeOK
      <4>. QED
        BY <2>1, <4>1 DEF AnalyzeOperand, IInv, Intact, Distance, block, TranslateRelativeCip
    <3>. QED
      BY <3>1, <3>2
  <2>2. (enc = [w \in {16, 32, 64} |-> 0] /\ attempt = 1)'
    BY DEF AnalyzeOperand, IInv, Intact, local
  <2>. QED
    BY <2>1, <2>2 DEF Intact
<1>6. NoRip32'
  <2>1. phase' = "parse"
    BY DEF AnalyzeOperand
  <2>2. \A s \in Slots : Operands'[s].ImplicitRip => x64'
    BY <1>5, <2>1 DEF Intact
  <2>. QED
    BY <2>2 DEF NoRip32, Rips, IsRip
<1>7. phase' = "parse" /\ result' = "none"
  BY DEF AnalyzeOperand, IInv
<1>. QED
  BY <1>4, <1>5, <1>6, <1>7
  DEF IInv, Trying, Adjusting, Adjusted, Encoded, Bounded, Checked, RefusedOnlyIfHopeless

\* A write behind the array changes no slot of it.
LEMMA OverrunIInv == ASSUME IInv, OverrunOperand PROVE IInv'
<1>1. /\ phase = "parse" /\ phase' \in {"parse", "stopped"} /\ result = "none"
      /\ OperandCount < given /\ OperandCount >= MaxOperands
      /\ OperandCount' = OperandCount + 1 /\ error' \in {error, "message"}
      /\ UNCHANGED <<block, dest_size, dest, Class, Operands, local, enc, result>>
  BY DEF OverrunOperand, IInv
<1>2. OperandCount \in Int /\ given \in Int /\ given <= MaxTokens /\ 0 <= OperandCount
  BY AssembleAssumption DEF IInv, TypeOK
<1>3. TypeOK'
  <2>1. OperandCount' \in 0 .. MaxTokens
    BY <1>1, <1>2, AssembleAssumption
  <2>2. error' \in {"stale", "message", "instruction"}
    BY <1>1 DEF IInv, TypeOK
  <2>3. phase' \in {"parse", "stopped"}
    BY <1>1
  <2>. QED
    BY <1>1, <2>1, <2>2, <2>3 DEF IInv, TypeOK, block, local
<1>4. Intact'
  BY <1>1 DEF IInv, Intact, Distance, TranslateRelativeCip, HighHalfEmpty, block, local
<1>5. NoRip32'
  BY <1>1 DEF IInv, Intact, NoRip32, Rips, IsRip, block
<1>6. result' = "none"
  BY <1>1
<1>. QED
  BY <1>1, <1>3, <1>4, <1>5, <1>6
  DEF IInv, Trying, Adjusting, Adjusted, Encoded, Bounded, Checked, RefusedOnlyIfHopeless

\* Before the encoder is asked, a refusal leaves nothing to show.
LEMMA EarlyFailIInv == ASSUME IInv, ParseFails \/ BranchFails PROVE IInv'
<1>1. /\ phase' = "idle" /\ result' = "ERROR" /\ error' = "message"
      /\ phase \in {"parse", "branch"}
      /\ UNCHANGED <<block, dest_size, dest, inst, local, enc>>
  BY DEF ParseFails, BranchFails, Fail
<1>2. TypeOK'
  BY <1>1 DEF IInv, TypeOK, block, inst, local
<1>3. NoRip32'
  BY <1>1 DEF IInv, NoRip32, Rips, block, inst
<1>4. enc' = [w \in {16, 32, 64} |-> 0]
  BY <1>1 DEF IInv, Intact
<1>5. RefusedOnlyIfHopeless'
  BY <1>4 DEF RefusedOnlyIfHopeless
<1>. QED
  BY <1>1, <1>2, <1>3, <1>5
  DEF IInv, Intact, Trying, Adjusting, Adjusted, Encoded, Bounded, Checked

\* Steps that only move on to the next pass, or drop operands.
LEMMA MoveOnIInv == ASSUME IInv, ParseEnds \/ BranchPasses PROVE IInv'
<1>1. /\ phase \in {"parse", "branch"} /\ phase' \in {"branch", "validate"}
      /\ Class' \in Classes /\ OperandCount <= MaxOperands
      /\ OperandCount' \in {0, OperandCount}
      /\ UNCHANGED <<block, error, dest_size, dest, Operands, local, enc, result>>
  BY DEF ParseEnds, BranchPasses, IInv, TypeOK, inst
<1>2. TypeOK'
  BY <1>1, AssembleAssumption DEF IInv, TypeOK, block, local
<1>3. NoRip32'
  <2>1. \A s \in Slots : s <= OperandCount' => s <= OperandCount
    BY <1>1, AssembleAssumption DEF IInv, TypeOK, Slots
  <2>2. Rips' \subseteq Rips
    BY <1>1, <2>1 DEF Rips
  <2>. QED
    BY <1>1, <2>2 DEF IInv, NoRip32, block
<1>4. Intact'
  BY <1>1 DEF IInv, Intact, Distance, TranslateRelativeCip, HighHalfEmpty, block, local
<1>5. phase # "idle" /\ result = "none" /\ result' = "none"
  BY <1>1 DEF IInv
<1>. QED
  BY <1>1, <1>2, <1>3, <1>4, <1>5
  DEF IInv, Trying, Adjusting, Adjusted, Encoded, Bounded, Checked, RefusedOnlyIfHopeless

\* A far branch changes the types of its operands and nothing else in them.
LEMMA RetypeIInv == ASSUME IInv, BranchFarPair \/ BranchSegSel PROVE IInv'
<1>1. /\ phase = "branch" /\ phase' = "validate" /\ result = "none" /\ OperandCount' = 2
      /\ UNCHANGED <<block, error, dest_size, dest, Class, local, enc, result>>
  BY DEF BranchFarPair, BranchSegSel, IInv
<1>2. /\ Operands' \in [Slots -> Operand]
      /\ \A s \in Slots : /\ Operands'[s].ImplicitRip = Operands[s].ImplicitRip
                          /\ Operands'[s].DispVal = Operands[s].DispVal
                          /\ Operands'[s].address = Operands[s].address
  <2>. Operands \in [Slots -> Operand]
    BY DEF IInv, TypeOK
  <2>. DEFINE Retyped(op, t) == [op EXCEPT !.Type = t]
  <2>0. ASSUME NEW op \in Operand, NEW t \in OperandType
        PROVE  /\ Retyped(op, t) \in Operand
               /\ Retyped(op, t).ImplicitRip = op.ImplicitRip
               /\ Retyped(op, t).DispVal = op.DispVal
               /\ Retyped(op, t).address = op.address
    BY DEF Operand
  <2>1. CASE BranchFarPair
    <3>1. 1 \in Slots /\ 2 \in Slots
      BY AssembleAssumption DEF Slots
    <3>. DEFINE first == [Operands EXCEPT ![1] = Retyped(Operands[1], "SEGSEL")]
    <3>2. first \in [Slots -> Operand]
      BY <2>0, <3>1 DEF OperandType
    <3>3. Operands' = [first EXCEPT ![2] = Retyped(first[2], "IMM")]
      BY <2>1, <3>1 DEF BranchFarPair
    <3>4. /\ first[1] = Retyped(Operands[1], "SEGSEL")
          /\ \A s \in Slots \ {1} : first[s] = Operands[s]
      BY <3>1
    <3>. HIDE DEF Retyped, first
    <3>5. QED
      BY <2>0, <3>1, <3>2, <3>3, <3>4 DEF OperandType
  <2>2. CASE BranchSegSel
    <3>1. Operands' = [s \in Slots |-> IF s = 2 THEN Retyped(Operands[s], "IMM")
                                       ELSE Operands[s]]
      BY <2>2 DEF BranchSegSel
    <3>. HIDE DEF Retyped
    <3>2. QED
      BY <2>0, <3>1 DEF OperandType
  <2>. QED
    BY <2>1, <2>2
<1>3. TypeOK'
  BY <1>1, <1>2, AssembleAssumption DEF IInv, TypeOK, block, local
<1>4. Intact'
  <2>1. \A s \in Slots : Operands[s].ImplicitRip =>
            /\ x64 /\ Operands[s].DispVal = TranslateRelativeCip(Operands[s].address)
            /\ HighHalfEmpty(Operands[s].DispVal)
    BY <1>1 DEF IInv, Intact, Distance
  <2>2. x64' = x64 /\ cip' = cip /\ enc' = [w \in {16, 32, 64} |-> 0] /\ attempt' = 1
    BY <1>1 DEF IInv, Intact, block, local
  <2>. QED
    BY <1>2, <2>1, <2>2 DEF Intact, Distance, TranslateRelativeCip, HighHalfEmpty
<1>5. NoRip32'
  <2>1. \A s \in Slots : Operands'[s].ImplicitRip => x64'
    BY <1>1, <1>4 DEF Intact
  <2>. QED
    BY <2>1 DEF NoRip32, Rips, IsRip
<1>. QED
  BY <1>1, <1>3, <1>4, <1>5
  DEF IInv, Trying, Adjusting, Adjusted, Encoded, Bounded, Checked, RefusedOnlyIfHopeless

\* The validation appends and swaps operands; the encoder gets them intact.
LEMMA ValidateIInv == ASSUME IInv, ValidateInstOperands PROVE IInv'
<1>. DEFINE n   == IF AddsST0 THEN OperandCount + 1 ELSE OperandCount
            ops == IF n > 1 THEN Swapped(WithST0) ELSE WithST0
            Good(op) == op.ImplicitRip => /\ x64 /\ HighHalfEmpty(op.DispVal)
                                          /\ op.DispVal = TranslateRelativeCip(op.address)
<1>1. /\ phase = "validate" /\ result = "none" /\ OperandCount' = n /\ Operands' = ops
      /\ UNCHANGED <<block, dest_size, dest, Class, local>>
  BY DEF ValidateInstOperands, IInv
<1>2. /\ OperandCount \in 0 .. MaxOperands /\ Operands \in [Slots -> Operand]
      /\ \A s \in Slots : Good(Operands[s])
  <2>1. OperandCount \in 0 .. MaxOperands /\ Operands \in [Slots -> Operand]
    BY <1>1, AssembleAssumption DEF IInv, TypeOK
  <2>2. \A s \in Slots : Good(Operands[s])
    BY <1>1 DEF IInv, Intact, Distance
  <2>. QED
    BY <2>1, <2>2
<1>3. n \in 0 .. MaxOperands
  BY <1>2, AssembleAssumption DEF AddsST0
<1>4. WithST0 \in [Slots -> Operand] /\ \A s \in Slots : Good(WithST0[s])
  <2>1. Plain("REG") \in Operand /\ Good(Plain("REG"))
    BY DEF Plain, Operand, OperandType
  <2>2. CASE AddsST0
    <3>1. OperandCount + 1 \in Slots
      BY <1>2, <2>2, AssembleAssumption DEF AddsST0, Slots
    <3>2. WithST0 = [Operands EXCEPT ![OperandCount + 1] = Plain("REG")]
      BY <2>2 DEF WithST0
    <3>. QED
      BY <1>2, <2>1, <3>1, <3>2
  <2>3. CASE ~AddsST0
    BY <1>2, <2>3 DEF WithST0
  <2>. QED
    BY <2>2, <2>3
<1>5. Swapped(WithST0) \in [Slots -> Operand] /\ \A s \in Slots : Good(Swapped(WithST0)[s])
  <2>1. 1 \in Slots /\ 2 \in Slots
    BY AssembleAssumption DEF Slots
  <2>2. CASE Class = "XCHG" /\ WithST0[2].Type = "MEM"
    <3>1. Swapped(WithST0) = [WithST0 EXCEPT ![1] = WithST0[2], ![2] = WithST0[1]]
      BY <2>2 DEF Swapped
    <3>. QED
      BY <1>4, <2>1, <3>1
  <2>3. CASE ~(Class = "XCHG" /\ WithST0[2].Type = "MEM")
    BY <1>4, <2>3 DEF Swapped
  <2>. QED
    BY <2>2, <2>3
<1>6. ops \in [Slots -> Operand] /\ \A s \in Slots : Good(ops[s])
  BY <1>4, <1>5
<1>. HIDE DEF n, ops
<1>7. \/ phase' = "encode" /\ enc' \in Encodings /\ error' = error /\ result' = result
      \/ phase' = "idle" /\ result' = "ERROR" /\ error' \in {"message", error} /\ enc' = enc
  BY DEF ValidateInstOperands, Fail
<1>8. TypeOK'
  <2>1. OperandCount' \in 0 .. MaxTokens /\ OperandCount' <= MaxOperands
    BY <1>1, <1>3, AssembleAssumption
  <2>2. enc' \in Encodings /\ error' \in {"stale", "message", "instruction"}
    BY <1>7 DEF IInv, TypeOK
  <2>3. phase' \in {"idle", "encode"} /\ result' \in {"none", "OK", "ERROR"}
    BY <1>1, <1>7
  <2>. QED
    BY <1>1, <1>6, <2>1, <2>2, <2>3 DEF IInv, TypeOK, block, local
<1>9. Rips' \subseteq Slots /\ \A s \in Rips' : ops[s].ImplicitRip
  BY <1>1 DEF Rips, IsRip
<1>10. NoRip32'
  BY <1>1, <1>6, <1>9 DEF NoRip32, block
<1>11. IntactFrom(1)' /\ NoneBefore'
  <2>1. attempt = 1
    BY <1>1 DEF IInv, Intact
  <2>. QED
    BY <1>1, <1>6, <1>9, <2>1 DEF IntactFrom, NoneBefore, Distance, TranslateRelativeCip, block, local
<1>12. Bounded'
  <2>1. \A s \in Rips' : ops[s].DispVal <= 2 * DwordHalf - 1
    BY <1>6, <1>9, AssembleAssumption DEF HighHalfEmpty
  <2>. QED
    BY <1>1, <2>1 DEF Bounded
<1>13. RefusedOnlyIfHopeless'
  <2>1. CASE enc' = enc
    BY <1>1, <2>1 DEF IInv, Intact, RefusedOnlyIfHopeless
  <2>2. CASE result' = result
    BY <1>1, <2>2 DEF RefusedOnlyIfHopeless
  <2>. QED
    BY <1>7, <2>1, <2>2
<1>14. Intact' /\ Trying' /\ Adjusting' /\ Adjusted' /\ Encoded' /\ Checked'
  BY <1>1, <1>7, <1>11 DEF Intact, Trying, Adjusting, Adjusted, Encoded, Checked
<1>15. (phase # "idle" => result = "none")'
  BY <1>1, <1>7
<1>. QED
  BY <1>8, <1>10, <1>12, <1>13, <1>14, <1>15 DEF IInv

\* The distances and the set of RIP-relative operands depend on the block and
\* the instruction only.
LEMMA Frame ==
    ASSUME UNCHANGED <<block, inst>>
    PROVE  /\ Rips' = Rips
           /\ Operands' = Operands /\ OperandCount' = OperandCount /\ x64' = x64
           /\ \A s \in Rips : Distance(s)' = Distance(s)
BY DEF block, inst, Rips, Distance, TranslateRelativeCip

LEMMA EncodeFailsIInv == ASSUME IInv, EncodeFails PROVE IInv'
<1>1. /\ phase \in {"encode", "reencode"} /\ enc[Width] = 0
      /\ (dest_size' = dest_size /\ dest' = dest) \/ (dest_size' = 0 /\ dest' = Zeros)
      /\ UNCHANGED <<block, inst, i, reEncode, enc>>
  BY DEF EncodeFails
<1>2. phase = "encode" /\ result = "none"
  BY <1>1 DEF IInv, Adjusted
<1>3. /\ Rips' = Rips /\ Operands' = Operands /\ OperandCount' = OperandCount /\ x64' = x64
      /\ \A s \in Rips : Distance(s)' = Distance(s)
  BY <1>1, Frame
<1>4. \/ /\ attempt < 3 /\ attempt' = attempt + 1
         /\ phase' = "encode" /\ error' = "message" /\ result' = "none"
      \/ /\ attempt = 3 /\ attempt' = attempt
         /\ phase' = "idle" /\ error' = "message" /\ result' = "ERROR"
  BY <1>2 DEF EncodeFails, NextWidth, Fail, IInv, TypeOK
<1>5. TypeOK'
  <2>1. dest' \in [Slots -> Int] /\ dest_size' \in 0 .. MaxLength
    BY <1>1, AssembleAssumption DEF Zeros, IInv, TypeOK
  <2>2. attempt' \in 1 .. 3
    BY <1>4 DEF IInv, TypeOK
  <2>3. phase' \in {"idle", "encode"} /\ error' = "message" /\ result' \in {"none", "ERROR"}
    BY <1>4
  <2>4. OperandCount' <= MaxOperands
    BY <1>1, <1>2 DEF IInv, TypeOK, inst
  <2>. QED
    BY <1>1, <2>1, <2>2, <2>3, <2>4 DEF IInv, TypeOK, block, inst
<1>6. Hopeless' <=> Hopeless
  BY <1>1, <1>3 DEF Hopeless, OutOfReach, FirstWidth, Distance, block, inst, TranslateRelativeCip
<1>7. \/ IntactFrom(1) /\ NoneBefore
      \/ SpoiledFrom(1) /\ Hopeless
  BY <1>2 DEF IInv, Trying
<1>8. Trying'
  <2>1. CASE attempt' = attempt + 1 /\ IntactFrom(1) /\ NoneBefore
    <3>1. IntactFrom(1)'
      BY <1>3, <2>1 DEF IntactFrom
    <3>2. enc[Order32First[attempt]] = 0
      BY <1>1 DEF Width, Widths
    <3>3. NoneBefore'
      BY <1>1, <2>1, <3>2 DEF NoneBefore, IInv, TypeOK
    <3>. QED
      BY <3>1, <3>3 DEF Trying
  <2>2. CASE SpoiledFrom(1) /\ Hopeless
    BY <1>3, <1>6, <2>2 DEF Trying, SpoiledFrom
  <2>. QED
    BY <1>4, <1>7, <2>1, <2>2 DEF Trying
<1>9. RefusedOnlyIfHopeless'
  <2>1. CASE attempt = 3 /\ NoneBefore
    <3>1. \A w \in {16, 32, 64} : enc[w] = 0
      BY <1>1, <2>1, LastFails DEF IInv, TypeOK
    <3>. QED
      BY <1>1, <3>1 DEF RefusedOnlyIfHopeless
  <2>2. CASE Hopeless
    BY <1>6, <2>2 DEF RefusedOnlyIfHopeless
  <2>. QED
    BY <1>4, <1>7, <2>1, <2>2 DEF RefusedOnlyIfHopeless
<1>10. NoRip32' /\ Bounded'
  BY <1>2, <1>3 DEF IInv, NoRip32, Bounded
<1>. QED
  BY <1>4, <1>5, <1>8, <1>9, <1>10 DEF IInv, Intact, Adjusting, Adjusted, Encoded, Checked

\* The low 32 bits of an integer are an integer within 32 bits and a sign, that
\* differs by a multiple of 2^32 which is none or one if the magnitude is below it.
LEMMA CutIs ==
    ASSUME NEW v \in Int
    PROVE  /\ Cut(v) \in Int /\ InReach(Cut(v))
           /\ InReach(v) => Cut(v) = v
           /\ ~InReach(v) /\ ~TooLarge(v) => Cut(v) \in {v - 2 * DwordHalf, v + 2 * DwordHalf}
<1>. DEFINE m == 2 * DwordHalf
            a == v + DwordHalf
<1>1. DwordHalf \in Nat /\ m \in Nat /\ 0 < m /\ a \in Int /\ m = 2 * DwordHalf
  BY AssembleAssumption
<1>. HIDE DEF m
<1>2. a % m \in 0 .. m - 1
  BY <1>1
<1>3. Cut(v) = (a % m) - DwordHalf
  BY <1>1 DEF Cut, m
<1>4. Cut(v) \in Int /\ InReach(Cut(v))
  BY <1>1, <1>2, <1>3 DEF InReach
<1>5. ASSUME a \in 0 .. m - 1
      PROVE  a % m = a
  BY <1>1, <1>5
<1>6. ASSUME a \in m .. m + m - 1
      PROVE  a % m = a - m
  BY <1>1, <1>6
<1>7. ASSUME a \in -m .. -1
      PROVE  a % m = a + m
  BY <1>1, <1>7
<1>8. CASE InReach(v)
  <2>1. a \in 0 .. m - 1
    BY <1>1, <1>8 DEF InReach
  <2>. QED
    BY <1>1, <1>3, <1>4, <1>5, <1>8, <2>1
<1>9. CASE ~InReach(v) /\ ~TooLarge(v)
  <2>1. a \in m .. m + m - 1 \/ a \in -m .. -1
    BY <1>1, <1>9 DEF InReach, TooLarge
  <2>. QED
    BY <1>1, <1>3, <1>4, <1>6, <1>7, <1>9, <2>1
<1>. QED
  BY <1>4, <1>8, <1>9

LEMMA BytesType == ASSUME Operands \in [Slots -> Operand] PROVE Bytes \in [Slots -> Int]
BY CutIs DEF Bytes, Operand

LEMMA FirstEncodeIInv == ASSUME IInv, FirstEncode PROVE IInv'
<1>1. /\ phase = "encode" /\ enc[Width] # 0 /\ result = "none"
      /\ dest_size' = enc[Width] /\ dest' = Bytes
      /\ i' = 1 /\ reEncode' = FALSE
      /\ phase' = IF x64 THEN "adjust" ELSE "render"
      /\ UNCHANGED <<block, error, inst, attempt, enc, result>>
  BY DEF FirstEncode, IInv
<1>2. /\ Rips' = Rips /\ Operands' = Operands /\ OperandCount' = OperandCount /\ x64' = x64
      /\ \A s \in Rips : Distance(s)' = Distance(s)
  BY <1>1, Frame
<1>3. enc[Width] \in 0 .. MaxLength
  BY WidthType DEF IInv, TypeOK
<1>4. dest' \in [Slots -> Int]
  BY <1>1, BytesType DEF IInv, TypeOK
<1>5. TypeOK'
  <2>1. i' \in 1 .. MaxOperands + 1
    BY <1>1, AssembleAssumption
  <2>2. phase' \in {"adjust", "render"} /\ reEncode' \in BOOLEAN
    BY <1>1
  <2>. QED
    BY <1>1, <1>3, <1>4, <2>1, <2>2 DEF IInv, TypeOK, block, inst
<1>6. \/ IntactFrom(1) /\ NoneBefore
      \/ SpoiledFrom(1) /\ Hopeless
  BY <1>1 DEF IInv, Trying
<1>7. Hopeless' <=> Hopeless
  BY <1>1, <1>2 DEF Hopeless, OutOfReach, FirstWidth, block, inst, TranslateRelativeCip
<1>8. ASSUME phase' = "adjust"
      PROVE  Adjusting'
  <2>1. x64' /\ enc'[Width'] # 0 /\ dest_size' = enc'[Width']
    BY <1>1, <1>8 DEF block, Width
  <2>2. i' <= OperandCount' + 1
    BY <1>1, <1>2 DEF IInv, TypeOK
  <2>3. (reEncode <=> \E s \in Rips : s < i)'
    BY <1>1 DEF Rips, Slots
  <2>4. (\/ IntactFrom(i) /\ AdjustedBefore(i, dest_size) /\ NoneBefore
         \/ SpoiledFrom(i) /\ Hopeless)'
    <3>1. CASE IntactFrom(1) /\ NoneBefore
      <4>1. IntactFrom(i)' /\ NoneBefore'
        BY <1>1, <1>2, <3>1 DEF IntactFrom, NoneBefore
      <4>2. AdjustedBefore(i, dest_size)'
        BY <1>1 DEF AdjustedBefore, Rips, Slots
      <4>. QED
        BY <4>1, <4>2
    <3>2. CASE SpoiledFrom(1) /\ Hopeless
      BY <1>1, <1>2, <1>7, <3>2 DEF SpoiledFrom
    <3>. QED
      BY <1>6, <3>1, <3>2
  <2>. QED
    BY <2>1, <2>2, <2>3, <2>4 DEF Adjusting
<1>9. ASSUME phase' = "render"
      PROVE  Encoded'
  <2>1. Rips = {}
    BY <1>1, <1>9 DEF IInv, NoRip32
  <2>2. IntactFrom(1) /\ NoneBefore
    BY <1>6, <2>1 DEF SpoiledFrom
  <2>3. FirstWidth = Width
    BY <1>1, <2>2, FirstWidthIs DEF IInv, TypeOK
  <2>4. FirstWidth' = FirstWidth
    BY <1>1 DEF FirstWidth
  <2>. QED
    BY <1>1, <1>2, <2>1, <2>3, <2>4 DEF Encoded
<1>10. Encoded'
  BY <1>1, <1>9 DEF Encoded
<1>11. Adjusting'
  BY <1>8 DEF Adjusting
<1>12. NoRip32' /\ Bounded'
  BY <1>1, <1>2 DEF IInv, NoRip32, Bounded
<1>13. Checked'
  <2>1. CASE phase' = "adjust"
    BY <1>1, <2>1 DEF Checked, WithinCheck, Rips, Slots
  <2>2. CASE phase' = "render"
    <3>1. Rips' = {}
      BY <1>1, <1>2, <2>2 DEF IInv, NoRip32
    <3>. QED
      BY <1>1, <2>2, <3>1 DEF Checked, WithinCheck
  <2>. QED
    BY <1>1, <2>1, <2>2
<1>. QED
  BY <1>1, <1>5, <1>10, <1>11, <1>12, <1>13
  DEF IInv, Intact, Trying, Adjusted, RefusedOnlyIfHopeless

LEMMA SkipIInv == ASSUME IInv, Skip PROVE IInv'
<1>1. /\ phase = "adjust" /\ i <= OperandCount /\ ~IsRip(Operands[i]) /\ i' = i + 1
      /\ result = "none"
      /\ UNCHANGED <<block, error, dest_size, dest, inst, phase, attempt, reEncode, enc, result>>
  BY DEF Skip, IInv
<1>2. /\ Rips' = Rips /\ Operands' = Operands /\ OperandCount' = OperandCount /\ x64' = x64
      /\ \A s \in Rips : Distance(s)' = Distance(s)
  BY <1>1, Frame
<1>3. i \in Int /\ i \notin Rips /\ \A s \in Rips : s \in Int
  BY <1>1 DEF IInv, TypeOK, Rips, Slots
<1>4. \A s \in Rips : (s < i + 1 <=> s < i) /\ (s >= i + 1 <=> s >= i)
  BY <1>3
<1>5. TypeOK'
  <2>1. i' \in 1 .. MaxOperands + 1
    BY <1>1, AssembleAssumption DEF IInv, TypeOK
  <2>. QED
    BY <1>1, <2>1 DEF IInv, TypeOK, block, inst
<1>6. Hopeless' <=> Hopeless
  BY <1>1, <1>2 DEF Hopeless, OutOfReach, FirstWidth, block, inst, TranslateRelativeCip
<1>7. Adjusting'
  <2>1. (x64 /\ enc[Width] # 0 /\ dest_size = enc[Width] /\ i <= OperandCount + 1)'
    BY <1>1, <1>2, <1>3 DEF IInv, TypeOK, Adjusting, Width
  <2>2. (reEncode <=> \E s \in Rips : s < i)'
    BY <1>1, <1>2, <1>4 DEF IInv, Adjusting
  <2>3. (\/ IntactFrom(i) /\ AdjustedBefore(i, dest_size) /\ NoneBefore
         \/ SpoiledFrom(i) /\ Hopeless)'
    <3>1. CASE IntactFrom(i) /\ AdjustedBefore(i, dest_size) /\ NoneBefore
      BY <1>1, <1>2, <1>4, <3>1 DEF IntactFrom, AdjustedBefore, NoneBefore
    <3>2. CASE SpoiledFrom(i) /\ Hopeless
      BY <1>1, <1>2, <1>4, <1>6, <3>2 DEF SpoiledFrom
    <3>. QED
      BY <1>1, <3>1, <3>2 DEF IInv, Adjusting
  <2>. QED
    BY <2>1, <2>2, <2>3 DEF Adjusting
<1>8. NoRip32' /\ Bounded'
  BY <1>1, <1>2 DEF IInv, NoRip32, Bounded
<1>9. Checked'
  <2>1. WithinCheck(i) => WithinCheck(i)'
    BY <1>1, <1>2, <1>4 DEF WithinCheck, FromEnd, Distance
  <2>2. SpoiledFrom(i) => SpoiledFrom(i)'
    BY <1>1, <1>2, <1>4 DEF SpoiledFrom
  <2>. QED
    BY <1>1, <2>1, <2>2 DEF IInv, Checked
<1>. QED
  BY <1>1, <1>5, <1>7, <1>8, <1>9 DEF IInv, Intact, Trying, Adjusted, Encoded, RefusedOnlyIfHopeless

\* The loop over the operands ends: with all of them adjusted, since one that
\* was spoiled would have ended it before.
LEMMA EndAdjustIInv == ASSUME IInv, EndAdjust PROVE IInv'
<1>1. /\ phase = "adjust" /\ i > OperandCount /\ result = "none"
      /\ phase' = IF reEncode THEN "reencode" ELSE "render"
      /\ UNCHANGED <<block, error, dest_size, dest, inst, local, enc, result>>
  BY DEF EndAdjust, IInv
<1>2. /\ Rips' = Rips /\ Operands' = Operands /\ OperandCount' = OperandCount /\ x64' = x64
      /\ \A s \in Rips : Distance(s)' = Distance(s)
  BY <1>1, Frame
<1>3. /\ i \in Int /\ MaxOperands \in Int
      /\ \A s \in Rips : s \in Int /\ s < i /\ s < MaxOperands + 1
  BY <1>1, AssembleAssumption DEF IInv, TypeOK, Rips, Slots
<1>4. AdjustedBefore(i, dest_size) /\ NoneBefore
  <2>1. ~SpoiledFrom(i)
    BY <1>3 DEF SpoiledFrom
  <2>. QED
    BY <1>1, <2>1 DEF IInv, Adjusting
<1>5. TypeOK'
  BY <1>1 DEF IInv, TypeOK, block, inst, local
<1>6. enc[Width] # 0 /\ dest_size = enc[Width]
  BY <1>1 DEF IInv, Adjusting
<1>7. FirstWidth = Width /\ FirstWidth' = FirstWidth /\ Width' = Width
  <2>1. FirstWidth = Width
    BY <1>4, <1>6, FirstWidthIs DEF IInv, TypeOK
  <2>. QED
    BY <1>1, <2>1 DEF FirstWidth, Width, local
<1>8. Adjusted'
  <2>1. \A s \in Rips : s < MaxOperands + 1 => s < i
    BY <1>3
  <2>2. AdjustedBefore(MaxOperands + 1, dest_size)'
    BY <1>1, <1>2, <1>4, <2>1 DEF AdjustedBefore
  <2>3. NoneBefore'
    BY <1>1, <1>4 DEF NoneBefore, local
  <2>. QED
    BY <1>1, <1>6, <1>7, <2>2, <2>3 DEF Adjusted
<1>9. Encoded'
  <2>1. CASE ~reEncode
    <3>1. Rips = {}
      BY <1>1, <1>3, <2>1 DEF IInv, Adjusting
    <3>. QED
      BY <1>1, <1>2, <1>6, <1>7, <3>1 DEF Encoded
  <2>2. CASE reEncode
    BY <1>1, <2>2 DEF Encoded
  <2>. QED
    BY <2>1, <2>2
<1>10. NoRip32'
  BY <1>2 DEF IInv, NoRip32
<1>11. Checked'
  <2>1. WithinCheck(i)
    BY <1>1, <1>3 DEF IInv, Checked, SpoiledFrom
  <2>2. WithinCheck(MaxOperands + 1)'
    BY <1>1, <1>2, <1>3, <2>1 DEF WithinCheck, FromEnd, Distance
  <2>. QED
    BY <1>1, <2>2 DEF Checked
<1>. QED
  BY <1>1, <1>5, <1>8, <1>9, <1>10, <1>11
  DEF IInv, Intact, Trying, Adjusting, Bounded, RefusedOnlyIfHopeless

LEMMA ReencodeIInv == ASSUME IInv, Reencode PROVE IInv'
<1>1. /\ phase = "reencode" /\ enc[Width] # 0 /\ result = "none"
      /\ dest_size' = enc[Width] /\ dest' = Bytes /\ phase' = "render"
      /\ UNCHANGED <<block, error, inst, local, enc, result>>
  BY DEF Reencode, IInv
<1>2. /\ Rips' = Rips /\ Operands' = Operands /\ OperandCount' = OperandCount /\ x64' = x64
      /\ \A s \in Rips : Distance(s)' = Distance(s)
  BY <1>1, Frame
<1>3. dest_size' \in 0 .. MaxLength
  BY <1>1, WidthType DEF IInv, TypeOK
<1>4. dest' \in [Slots -> Int]
  BY <1>1, BytesType DEF IInv, TypeOK
<1>5. TypeOK'
  BY <1>1, <1>3, <1>4 DEF IInv, TypeOK, block, inst, local
<1>6. /\ dest_size = enc[Width] /\ NoneBefore
      /\ \A s \in Rips : s < MaxOperands + 1 => Operands[s].DispVal = Distance(s) - dest_size
  BY <1>1 DEF IInv, Adjusted, AdjustedBefore
<1>7. FirstWidth = Width /\ FirstWidth' = FirstWidth
  <2>1. FirstWidth = Width
    BY <1>1, <1>6, FirstWidthIs DEF IInv, TypeOK
  <2>. QED
    BY <1>1, <2>1 DEF FirstWidth
<1>8. \A s \in Rips : s \in Slots /\ s < MaxOperands + 1
  BY AssembleAssumption DEF IInv, TypeOK, Rips, Slots
<1>9. Encoded'
  <2>1. \A s \in Rips : dest'[s] = Cut(Distance(s) - dest_size)
    BY <1>1, <1>6, <1>8 DEF Bytes
  <2>. QED
    BY <1>1, <1>2, <1>6, <1>7, <2>1 DEF Encoded, Cut
<1>10. NoRip32'
  BY <1>2 DEF IInv, NoRip32
<1>11. Checked'
  <2>1. WithinCheck(MaxOperands + 1)'
    BY <1>1, <1>2, <1>6 DEF IInv, Checked, WithinCheck, FromEnd, Distance
  <2>. QED
    BY <1>1, <2>1 DEF Checked
<1>. QED
  BY <1>1, <1>5, <1>9, <1>10, <1>11
  DEF IInv, Intact, Trying, Adjusting, Adjusted, Bounded, RefusedOnlyIfHopeless

LEMMA RenderIInv == ASSUME IInv, Render PROVE IInv'
<1>1. /\ phase = "render" /\ phase' = "idle" /\ result' = "OK" /\ error' = "instruction"
      /\ UNCHANGED <<block, dest_size, dest, inst, local, enc>>
  BY DEF Render
<1>2. /\ Rips' = Rips /\ Operands' = Operands /\ x64' = x64
      /\ \A s \in Rips : Distance(s)' = Distance(s)
  BY <1>1, Frame
<1>3. TypeOK'
  BY <1>1 DEF IInv, TypeOK, block, inst, local
<1>4. FirstWidth' = FirstWidth
  BY <1>1 DEF FirstWidth
<1>5. Encoded'
  BY <1>1, <1>2, <1>4 DEF IInv, Encoded
<1>6. NoRip32'
  BY <1>2 DEF IInv, NoRip32
<1>7. Checked'
  BY <1>1, <1>2 DEF IInv, Checked, WithinCheck, FromEnd, Distance
<1>. QED
  BY <1>1, <1>3, <1>5, <1>6, <1>7
  DEF IInv, Intact, Trying, Adjusting, Adjusted, Bounded, RefusedOnlyIfHopeless

\* The subtraction: it goes on to the next operand, or gives the try up with an
\* operand that no later try can bring back.
LEMMA AdjustIInv == ASSUME IInv, Adjust PROVE IInv'
<1>. DEFINE d == Operands[i].DispVal - dest_size
            Max == 2 * DwordHalf - 1
<1>1. /\ phase = "adjust" /\ i <= OperandCount /\ IsRip(Operands[i]) /\ result = "none"
      /\ Operands' = [Operands EXCEPT ![i].DispVal = d]
      /\ reEncode' = TRUE
      /\ UNCHANGED <<block, dest_size, dest, Class, OperandCount, enc>>
  BY DEF Adjust, IInv
<1>2. \/ /\ TooLarge(d) /\ i' = i
         /\ \/ /\ attempt < 3 /\ attempt' = attempt + 1
               /\ phase' = "encode" /\ error' = error /\ result' = "none"
            \/ /\ attempt = 3 /\ attempt' = attempt
               /\ phase' = "idle" /\ error' = error /\ result' = "ERROR"
      \/ /\ ~TooLarge(d) /\ i' = i + 1 /\ attempt' = attempt /\ phase' = "adjust"
         /\ error' = error /\ result' = "none"
  <2>1. attempt \in 1 .. 3
    BY DEF IInv, TypeOK
  <2>. QED
    BY <1>1, <2>1 DEF Adjust, NextWidth, Fail
<1>3. /\ OperandCount \in 0 .. MaxOperands /\ i \in 1 .. MaxOperands /\ i \in Slots /\ i \in Int
      /\ Operands \in [Slots -> Operand] /\ dest_size \in Nat /\ DwordHalf \in Int
      /\ i \in Rips
  <2>1. OperandCount \in 0 .. MaxOperands /\ i \in 1 .. MaxOperands + 1 /\ i \in 1 .. OperandCount
    BY <1>1, AssembleAssumption DEF IInv, TypeOK
  <2>2. i \in Slots
    BY <2>1, AssembleAssumption DEF Slots
  <2>. QED
    BY <1>1, <2>1, <2>2, AssembleAssumption DEF IInv, TypeOK, Rips
<1>4. Rips \subseteq Slots /\ \A s \in Rips : s \in Int
  BY <1>3, AssembleAssumption DEF Rips, Slots
<1>5. Operands[i] \in Operand /\ Operands[i].DispVal \in Int /\ d \in Int
  BY <1>3 DEF Operand
<1>6. /\ Operands' \in [Slots -> Operand]
      /\ Operands'[i].DispVal = d
      /\ \A s \in Slots : s # i => Operands'[s] = Operands[s]
      /\ \A s \in Slots : /\ Operands'[s].Type = Operands[s].Type
                          /\ Operands'[s].ImplicitRip = Operands[s].ImplicitRip
                          /\ Operands'[s].address = Operands[s].address
  <2>1. [Operands[i] EXCEPT !.DispVal = d] \in Operand
    BY <1>5 DEF Operand
  <2>2. Operands' = [Operands EXCEPT ![i] = [Operands[i] EXCEPT !.DispVal = d]]
    BY <1>1
  <2>3. /\ Operands'[i] = [Operands[i] EXCEPT !.DispVal = d]
        /\ \A s \in Slots : s # i => Operands'[s] = Operands[s]
    BY <1>3, <2>2
  <2>. QED
    BY <1>3, <1>5, <2>1, <2>2, <2>3 DEF Operand
<1>. HIDE DEF d
<1>7. Rips' = Rips
  <2>1. \A s \in 1 .. OperandCount : s \in Slots
    BY <1>3, AssembleAssumption DEF Slots
  <2>2. \A s \in Slots : IsRip(Operands'[s]) <=> IsRip(Operands[s])
    BY <1>6 DEF IsRip
  <2>. QED
    BY <1>1, <2>1, <2>2 DEF Rips
<1>8. x64' = x64 /\ cip' = cip /\ enc' = enc /\ dest_size' = dest_size /\ OperandCount' = OperandCount
  BY <1>1 DEF block
<1>9. \A s \in Rips : Distance(s)' = Distance(s) /\ Distance(s) \in Int
  <2>1. \A s \in Rips : Distance(s)' = Distance(s)
    BY <1>4, <1>6, <1>8 DEF Distance, TranslateRelativeCip
  <2>2. \A s \in Rips : Operands[s].address \in Int
    BY <1>3, <1>4 DEF Operand
  <2>. QED
    BY <2>1, <2>2, DistanceType DEF IInv, TypeOK, Distance
<1>10. Hopeless' <=> Hopeless
  BY <1>7, <1>8, <1>9 DEF Hopeless, OutOfReach, Distance, FirstWidth
<1>11. TypeOK'
  <2>1. i' \in 1 .. MaxOperands + 1
    BY <1>2, <1>3, AssembleAssumption
  <2>2. attempt' \in 1 .. 3
    BY <1>2 DEF IInv, TypeOK
  <2>3. /\ phase' \in {"idle", "encode", "adjust"} /\ error' = error
        /\ result' \in {"none", "ERROR"}
    BY <1>2
  <2>4. OperandCount' \in 0 .. MaxTokens /\ OperandCount' <= MaxOperands
    BY <1>1, <1>3, AssembleAssumption
  <2>5. reEncode' \in BOOLEAN
    BY <1>1
  <2>. QED
    BY <1>1, <1>6, <2>1, <2>2, <2>3, <2>4, <2>5 DEF IInv, TypeOK, block
<1>12. d <= Max /\ d <= Operands[i].DispVal
  <2>1. Operands[i].DispVal <= Max
    BY <1>1, <1>3 DEF IInv, Bounded
  <2>. QED
    BY <1>3, <1>5, <2>1 DEF d
<1>13. TooLarge(d) <=> d < -Max
  BY <1>3, <1>5, <1>12 DEF TooLarge
<1>14. enc[Width] # 0 /\ dest_size = enc[Width] /\ x64 /\ i <= OperandCount + 1
  BY <1>1 DEF IInv, Adjusting
<1>15. \/ IntactFrom(i) /\ AdjustedBefore(i, dest_size) /\ NoneBefore
       \/ SpoiledFrom(i) /\ Hopeless
  BY <1>1 DEF IInv, Adjusting
<1>16. ASSUME IntactFrom(i), NoneBefore
       PROVE  d = Distance(i) - enc[FirstWidth]
  <2>1. Operands[i].DispVal = Distance(i)
    BY <1>3, <1>16 DEF IntactFrom
  <2>2. FirstWidth = Width
    BY <1>14, <1>16, FirstWidthIs DEF IInv, TypeOK
  <2>. QED
    BY <1>14, <2>1, <2>2 DEF d
<1>17. ASSUME d < -Max
       PROVE  Hopeless' /\ SpoiledFrom(1)'
  <2>1. Hopeless
    <3>1. CASE IntactFrom(i) /\ NoneBefore
      <4>1. OutOfReach(i)
        BY <1>16, <1>17, <3>1 DEF OutOfReach, Distance
      <4>. QED
        BY <1>3, <4>1 DEF Hopeless
    <3>. QED
      BY <1>15, <3>1
  <2>2. SpoiledFrom(1)'
    <3>1. i >= 1 /\ Operands'[i].DispVal < -Max
      BY <1>3, <1>6, <1>17
    <3>. QED
      BY <1>3, <1>7, <3>1 DEF SpoiledFrom
  <2>. QED
    BY <1>10, <2>1, <2>2
<1>18. Trying'
  BY <1>2, <1>13, <1>17 DEF Trying
<1>19. RefusedOnlyIfHopeless'
  BY <1>2, <1>13, <1>17 DEF RefusedOnlyIfHopeless
<1>20. ASSUME phase' = "adjust"
       PROVE  Adjusting'
  <2>1. /\ i' = i + 1 /\ attempt' = attempt /\ ~(d < -Max)
    BY <1>2, <1>13, <1>20
  <2>2. (x64 /\ enc[Width] # 0 /\ dest_size = enc[Width] /\ i <= OperandCount + 1)'
    BY <1>1, <1>3, <1>8, <1>14, <2>1 DEF Width
  <2>3. (reEncode <=> \E s \in Rips : s < i)'
    BY <1>1, <1>3, <1>7, <2>1
  <2>4. CASE IntactFrom(i) /\ AdjustedBefore(i, dest_size) /\ NoneBefore
    <3>1. IntactFrom(i)'
      <4>1. \A s \in Rips : s >= i + 1 => s >= i /\ s # i
        BY <1>3, <1>4
      <4>. QED
        BY <1>4, <1>6, <1>7, <1>9, <2>1, <2>4, <4>1 DEF IntactFrom
    <3>2. AdjustedBefore(i, dest_size)'
      <4>1. \A s \in Rips : s < i + 1 => s = i \/ (s < i /\ s # i)
        BY <1>3, <1>4
      <4>2. Operands'[i].DispVal = Distance(i) - dest_size
        <5>1. Operands[i].DispVal = Distance(i)
          BY <1>3, <2>4 DEF IntactFrom
        <5>. QED
          BY <1>6, <5>1 DEF d
      <4>3. \A s \in Rips : s < i + 1 => Operands'[s].DispVal = Distance(s) - dest_size
        BY <1>4, <1>6, <2>4, <4>1, <4>2 DEF AdjustedBefore
      <4>. QED
        BY <1>7, <1>8, <1>9, <2>1, <4>3 DEF AdjustedBefore
    <3>3. NoneBefore'
      BY <1>8, <2>1, <2>4 DEF NoneBefore
    <3>. QED
      BY <2>2, <2>3, <3>1, <3>2, <3>3 DEF Adjusting
  <2>5. CASE SpoiledFrom(i) /\ Hopeless
    <3>1. PICK s \in Rips : s >= i /\ Operands[s].DispVal < -Max
      BY <2>5 DEF SpoiledFrom
    <3>2. s # i
      BY <1>3, <1>5, <1>12, <2>1, <3>1
    <3>3. s >= i + 1 /\ Operands'[s].DispVal < -Max
      BY <1>3, <1>4, <1>6, <3>1, <3>2
    <3>4. SpoiledFrom(i)'
      BY <1>7, <2>1, <3>3 DEF SpoiledFrom
    <3>. QED
      BY <1>10, <2>2, <2>3, <2>5, <3>4 DEF Adjusting
  <2>. QED
    BY <1>15, <2>4, <2>5
<1>21. Adjusting'
  BY <1>20 DEF Adjusting
<1>22. Bounded'
  <2>1. \A s \in Rips : Operands[s].DispVal <= Max
    BY <1>1 DEF IInv, Bounded
  <2>2. \A s \in Rips : Operands'[s].DispVal <= Max
    BY <1>4, <1>6, <1>12, <2>1
  <2>. QED
    BY <1>7, <2>2 DEF Bounded
<1>23. NoRip32'
  BY <1>7, <1>8 DEF IInv, NoRip32
<1>24. ASSUME phase' = "adjust"
       PROVE  SpoiledFrom(i)' \/ WithinCheck(i)'
  <2>1. i' = i + 1 /\ ~TooLarge(d)
    BY <1>2, <1>24
  <2>2. CASE SpoiledFrom(i)
    <3>1. PICK s \in Rips : s >= i /\ Operands[s].DispVal < -Max
      BY <2>2 DEF SpoiledFrom
    <3>2. s # i
      BY <1>3, <1>5, <1>12, <1>13, <2>1, <3>1
    <3>3. s >= i + 1 /\ Operands'[s].DispVal < -Max
      BY <1>3, <1>4, <1>6, <3>1, <3>2
    <3>. QED
      BY <1>7, <2>1, <3>3 DEF SpoiledFrom
  <2>3. CASE ~SpoiledFrom(i)
    <3>1. IntactFrom(i) /\ WithinCheck(i)
      BY <1>1, <1>15, <2>3 DEF IInv, Checked
    <3>2. d = Distance(i) - dest_size
      BY <1>3, <3>1 DEF d, IntactFrom
    <3>3. \A s \in Rips : s < i + 1 => s = i \/ s < i
      BY <1>3, <1>4
    <3>4. \A s \in Rips : s < i + 1 => ~TooLarge(Distance(s) - dest_size)
      BY <2>1, <3>1, <3>2, <3>3 DEF WithinCheck, FromEnd, Distance
    <3>. QED
      BY <1>7, <1>8, <1>9, <2>1, <3>4 DEF WithinCheck, FromEnd, Distance
  <2>. QED
    BY <2>2, <2>3
<1>25. Checked'
  BY <1>2, <1>24 DEF Checked
<1>. QED
  BY <1>2, <1>11, <1>18, <1>19, <1>21, <1>22, <1>23, <1>25 DEF IInv, Intact, Adjusted, Encoded

-----------------------------------------------------------------------------

LEMMA StepIInv == ASSUME IInv, [Next]_vars PROVE IInv'
<1>1. CASE Call
  BY <1>1, CallIInv
<1>2. CASE AnalyzeOperand
  BY <1>2, AnalyzeIInv
<1>3. CASE ParseFails \/ BranchFails
  BY <1>3, EarlyFailIInv
<1>4. CASE ParseEnds \/ BranchPasses
  BY <1>4, MoveOnIInv
<1>5. CASE BranchFarPair \/ BranchSegSel
  BY <1>5, RetypeIInv
<1>6. CASE ValidateInstOperands
  BY <1>6, ValidateIInv
<1>7. CASE EncodeFails
  BY <1>7, EncodeFailsIInv
<1>8. CASE FirstEncode
  BY <1>8, FirstEncodeIInv
<1>9. CASE Skip
  BY <1>9, SkipIInv
<1>10. CASE Adjust
  BY <1>10, AdjustIInv
<1>11. CASE EndAdjust
  BY <1>11, EndAdjustIInv
<1>12. CASE Reencode
  BY <1>12, ReencodeIInv
<1>13. CASE Render
  BY <1>13, RenderIInv
<1>14. CASE UNCHANGED vars
  <2>1. UNCHANGED <<block, error, dest_size, dest, inst, phase, local, enc, result>>
    BY <1>14 DEF vars
  <2>2. /\ Rips' = Rips /\ Operands' = Operands /\ OperandCount' = OperandCount
    BY <2>1, Frame
  <2>3. TypeOK'
    BY <2>1 DEF IInv, TypeOK, block, inst, local
  <2>4. /\ FirstWidth' = FirstWidth /\ Width' = Width /\ NoneBefore' = NoneBefore
        /\ \A s : Distance(s)' = Distance(s)
    BY <2>1 DEF FirstWidth, Width, NoneBefore, Distance, TranslateRelativeCip, block, inst, local
  <2>5. Hopeless' = Hopeless
    BY <2>1, <2>2, <2>4 DEF Hopeless, OutOfReach, Distance
  <2>6. Intact'
    BY <2>1, <2>4 DEF IInv, Intact, HighHalfEmpty, block, inst, local
  <2>7. Trying'
    BY <2>1, <2>2, <2>4, <2>5 DEF IInv, Trying, IntactFrom, SpoiledFrom
  <2>8. Adjusting'
    <3>1. i' = i /\ reEncode' = reEncode /\ dest_size' = dest_size /\ phase' = phase /\ x64' = x64
      BY <2>1 DEF local, block
    <3>2. IntactFrom(i)' = IntactFrom(i) /\ SpoiledFrom(i)' = SpoiledFrom(i)
      BY <2>2, <2>4, <3>1 DEF IntactFrom, SpoiledFrom
    <3>3. AdjustedBefore(i, dest_size)' = AdjustedBefore(i, dest_size)
      BY <2>2, <2>4, <3>1 DEF AdjustedBefore
    <3>. QED
      BY <2>1, <2>2, <2>4, <2>5, <3>1, <3>2, <3>3 DEF IInv, Adjusting
  <2>9. Adjusted' /\ Encoded' /\ Bounded' /\ NoRip32'
    BY <2>1, <2>2, <2>4
    DEF IInv, Adjusted, AdjustedBefore, Encoded, Bounded, NoRip32, block
  <2>10. RefusedOnlyIfHopeless'
    BY <2>1, <2>5 DEF IInv, RefusedOnlyIfHopeless
  <2>11. Checked'
    <3>1. i' = i /\ dest_size' = dest_size /\ phase' = phase /\ result' = result
      BY <2>1 DEF local
    <3>2. SpoiledFrom(i)' = SpoiledFrom(i) /\ WithinCheck(i)' = WithinCheck(i)
      BY <2>2, <2>4, <3>1 DEF SpoiledFrom, WithinCheck, FromEnd, Distance
    <3>3. WithinCheck(MaxOperands + 1)' = WithinCheck(MaxOperands + 1)
      BY <2>2, <2>4, <3>1 DEF WithinCheck, FromEnd, Distance
    <3>. QED
      BY <3>1, <3>2, <3>3 DEF IInv, Checked
  <2>. QED
    BY <2>1, <2>3, <2>6, <2>7, <2>8, <2>9, <2>10, <2>11 DEF IInv
<1>15. CASE OverrunOperand
  BY <1>15, OverrunIInv
<1>. QED
  BY <1>1, <1>2, <1>3, <1>4, <1>5, <1>6, <1>7, <1>8, <1>9, <1>10, <1>11, <1>12, <1>13, <1>14,
     <1>15
  DEF Next, Step

\* The strengthened invariant: a try starts from the operands of the text or
\* from ones that no try can encode (Translator.cpp:125-189).
THEOREM Invariance == Spec => []IInv
<1>1. Init => IInv
  BY InitIInv
<1>2. IInv /\ [Next]_vars => IInv'
  BY StepIInv
<1>. QED
  BY <1>1, <1>2, PTL DEF Spec

\* The call keeps its variables in their types: behind the parser no index
\* leaves the four operands, the one of the implicit ST0 included, and a text
\* with more of them gets no further (Parser.cpp:252-262).
THEOREM TypeCorrect == Spec => []TypeOK
<1>1. IInv => TypeOK
  BY DEF IInv
<1>. QED
  BY <1>1, Invariance, PTL

\* Every RIP-relative displacement of an assembled instruction, as the processor
\* reads it, is measured from the end of that instruction, or 2^32 off if the
\* distance is one that 32 bits with a sign do not reach (Translator.cpp:136-159).
THEOREM DisplacementsExact == Spec => []RipExact
<1>1. IInv => RipExact
  <2>. SUFFICES ASSUME IInv, result = "OK", NEW s \in Rips
                PROVE  LET d == FromEnd(s, dest_size)
                       IN  IF InReach(d) THEN dest[s] = d
                           ELSE /\ InReach(dest[s])
                                /\ dest[s] \in {d - 2 * DwordHalf, d + 2 * DwordHalf}
    BY DEF RipExact
  <2>. DEFINE d == FromEnd(s, dest_size)
  <2>1. s \in Slots /\ s < MaxOperands + 1
    BY AssembleAssumption DEF Rips, Slots
  <2>2. d \in Int
    <3>1. Operands[s].address \in Int
      BY <2>1 DEF IInv, TypeOK, Operand
    <3>. QED
      BY <3>1, DistanceType DEF IInv, TypeOK, FromEnd
  <2>3. dest[s] = Cut(d)
    BY DEF IInv, Encoded, Distance, FromEnd
  <2>4. ~TooLarge(d)
    BY <2>1 DEF IInv, Checked, WithinCheck
  <2>. HIDE DEF d
  <2>5. IF InReach(d) THEN dest[s] = d
        ELSE InReach(dest[s]) /\ dest[s] \in {d - 2 * DwordHalf, d + 2 * DwordHalf}
    BY <2>2, <2>3, <2>4, CutIs
  <2>. QED
    BY <2>5 DEF d
<1>. QED
  BY <1>1, Invariance, PTL

\* The first width the encoder accepts is the one returned
\* (Translator.cpp:175-185).
THEOREM FirstWidthReturned == Spec => []FirstWidthWins
<1>1. IInv => FirstWidthWins
  BY DEF IInv, Encoded, FirstWidthWins
<1>. QED
  BY <1>1, Invariance, PTL

\* What some width encodes is refused only for an address out of reach
\* (Translator.cpp:125-188).
THEOREM RefusalsJustified == Spec => []RefusedOnlyIfHopeless
<1>1. IInv => RefusedOnlyIfHopeless
  BY DEF IInv
<1>. QED
  BY <1>1, Invariance, PTL

-----------------------------------------------------------------------------
(* The call implements AssembleCall.                                       *)

\* A step of the call that leaves the block alone, and has a result if the
\* call returns, is a step of AssembleCall or none at all.
LEMMA InnerStep ==
    ASSUME IInv, IInv', phase \notin {"idle", "stopped"}, UNCHANGED block,
           phase' = "idle" => result' # "none",
           phase' = "stopped" => given > MaxOperands /\ dest_size' = dest_size
    PROVE  Caller!Next
<1>1. result = "none"
  BY DEF IInv
<1>2. UNCHANGED <<x64, cip, given>> /\ (given <= MaxOperands)' = (given <= MaxOperands)
  BY DEF block
<1>0. dest_size' \in 0 .. MaxLength
  BY DEF IInv, TypeOK
<1>3. CASE phase' \notin {"idle", "stopped"}
  <2>1. result' = result
    BY <1>1, <1>3 DEF IInv
  <2>2. Caller!Work
    BY <1>0, <1>2, <1>3, <2>1 DEF Caller!Work
  <2>. QED
    BY <2>2 DEF Caller!Next
<1>4. CASE phase' = "idle"
  <2>1. result' \in {"OK", "ERROR"}
    BY <1>4 DEF IInv, TypeOK
  <2>2. result' = "OK" => dest_size' # 0
    BY DEF IInv, Encoded
  <2>3. result' = "OK" => dest_size' \in 1 .. MaxLength
    BY <1>0, <2>2, AssembleAssumption
  <2>4. Caller!Return
    BY <1>0, <1>2, <1>4, <2>1, <2>3 DEF Caller!Return
  <2>. QED
    BY <2>4 DEF Caller!Next
<1>5. CASE phase' = "stopped"
  <2>1. result' = result
    BY <1>1, <1>5 DEF IInv
  <2>2. ~(given <= MaxOperands)
    BY <1>5, AssembleAssumption DEF IInv, TypeOK
  <2>3. Caller!Stop
    BY <1>2, <1>5, <2>1, <2>2 DEF Caller!Stop
  <2>. QED
    BY <2>3 DEF Caller!Next
<1>. QED
  BY <1>3, <1>4, <1>5

\* The caller's step begins the call.
LEMMA CallStep == ASSUME Call PROVE Caller!Next
<1>1. (given <= MaxOperands)' \in BOOLEAN
  OBVIOUS
<1>2. Caller!Call
  BY <1>1 DEF Call, Caller!Call
<1>. QED
  BY <1>2 DEF Caller!Next

\* Every other step of the call leaves the block alone, and one that returns
\* has a result.
LEMMA StepShape ==
    ASSUME IInv, Step
    PROVE  /\ phase \notin {"idle", "stopped"} /\ UNCHANGED block
           /\ phase' = "idle" => result' # "none"
           /\ phase' = "stopped" => given > MaxOperands /\ dest_size' = dest_size
<1>1. CASE AnalyzeOperand
  BY <1>1 DEF AnalyzeOperand
<1>2. CASE ParseFails
  BY <1>2 DEF ParseFails, Fail
<1>3. CASE ParseEnds
  BY <1>3 DEF ParseEnds
<1>4. CASE BranchFails
  BY <1>4 DEF BranchFails, Fail
<1>5. CASE BranchFarPair
  BY <1>5 DEF BranchFarPair
<1>6. CASE BranchSegSel
  BY <1>6 DEF BranchSegSel
<1>7. CASE BranchPasses
  BY <1>7 DEF BranchPasses
<1>8. CASE ValidateInstOperands
  BY <1>8 DEF ValidateInstOperands, Fail
<1>9. CASE EncodeFails
  BY <1>9 DEF EncodeFails, NextWidth, Fail
<1>10. CASE FirstEncode
  BY <1>10 DEF FirstEncode
<1>11. CASE Skip
  BY <1>11 DEF Skip
<1>12. CASE Adjust
  BY <1>12 DEF Adjust, NextWidth, Fail
<1>13. CASE EndAdjust
  BY <1>13 DEF EndAdjust
<1>14. CASE Reencode
  BY <1>14 DEF Reencode
<1>15. CASE Render
  BY <1>15 DEF Render
<1>16. CASE OverrunOperand
  BY <1>16, AssembleAssumption DEF OverrunOperand, IInv, TypeOK
<1>. QED
  BY <1>1, <1>2, <1>3, <1>4, <1>5, <1>6, <1>7, <1>8, <1>9, <1>10, <1>11, <1>12, <1>13,
     <1>14, <1>15, <1>16 DEF Step

\* Mode and instruction pointer stay what the caller has set, and a call that
\* returns XEDPARSE_OK leaves between one byte and the most an instruction has
\* (XEDParse.cpp:21-47).
THEOREM CallerServed == Spec => CallerSafety
<1>1. Init => Caller!Init
  BY DEF Init, Caller!Init
<1>2. IInv /\ IInv' /\ [Next]_vars => [Caller!Next]_(Caller!vars)
  <2>. SUFFICES ASSUME IInv, IInv', [Next]_vars PROVE [Caller!Next]_(Caller!vars)
    OBVIOUS
  <2>1. CASE Call
    BY <2>1, CallStep
  <2>2. CASE Step
    BY <2>2, StepShape, InnerStep
  <2>3. CASE UNCHANGED vars
    BY <2>3 DEF vars, block, Caller!vars
  <2>. QED
    BY <2>1, <2>2, <2>3 DEF Next
<1>. QED
  BY <1>1, <1>2, Invariance, PTL DEF Spec, CallerSafety
=============================================================================
