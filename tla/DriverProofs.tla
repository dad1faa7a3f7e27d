---------------------------- MODULE DriverProofs ----------------------------
(***************************************************************************)
(* Proofs about Driver, for every set of files, every size of the address  *)
(* space and every maximal length of an instruction.                       *)
(***************************************************************************)
EXTENDS Driver, SequenceTheorems, FiniteSetTheorems, TLAPS

\* Remainders.
LEMMA ModType ==
    ASSUME NEW a \in Nat PROVE a % CipModulus \in 0 .. CipModulus - 1
<1>1. CipModulus \in Nat /\ CipModulus > 0
  BY DriverAssumption
<1>. QED
  BY <1>1

\* How far the instruction pointer moves on.
LEMMA StepType ==
    ASSUME result = "ERROR" \/ (result = "OK" /\ dest_size \in 1 .. MaxLength)
    PROVE  Step \in Nat /\ Step \in IF result = "ERROR" THEN {1} ELSE 1 .. MaxLength
  BY DriverAssumption DEF Step

-----------------------------------------------------------------------------
(* The history of lines: one more line, from the address of the last one.  *)

\* What recording a line does to the chain of addresses.
LEMMA RecordKeepsChain ==
    ASSUME NEW next, NEW failed \in BOOLEAN,
           handled \in Seq(Entry), AtLastNext, AddressesChain,
           current_instr \in Seq(Chars), cip \in Cips, next \in Cips, UNCHANGED filedata,
           cip' = next, Record(next, failed),
           IF Contains(current_instr, "base:") THEN next \in {cip, BaseCip}
           ELSE \E n \in IF failed THEN {1} ELSE 1 .. MaxLength : next = (cip + n) % CipModulus
    PROVE  handled' \in Seq(Entry) /\ AtLastNext' /\ AddressesChain'
<1>. DEFINE e == [text |-> current_instr, start |-> cip, next |-> next, failed |-> failed]
<1>1. HandledBound' = HandledBound
  BY DEF HandledBound, len
<1>2. e \in Entry
  BY DEF Entry
<1>3. CASE Len(handled) < HandledBound
  <2>1. handled' = Append(handled, e)
    BY <1>3 DEF Record
  <2>2. /\ handled' \in Seq(Entry)
        /\ Len(handled') = Len(handled) + 1
        /\ \A k \in 1 .. Len(handled) : handled'[k] = handled[k]
        /\ handled'[Len(handled) + 1] = e
    BY <1>2, <2>1, AppendProperties
  <2>3. Len(handled) \in Nat
    OBVIOUS
  <2>4. handled' # <<>>
    BY <2>2, <2>3
  <2>5. AtLastNext'
    BY <2>2, <2>4 DEF AtLastNext
  <2>6. cip = IF Len(handled) = 0 THEN FirstCip ELSE handled[Len(handled)].next
    BY <1>3 DEF AtLastNext
  <2>7. ASSUME NEW k \in 1 .. Len(handled')
        PROVE  /\ handled'[k].start = IF k = 1 THEN FirstCip ELSE handled'[k - 1].next
               /\ IF Contains(handled'[k].text, "base:")
                  THEN handled'[k].next \in {handled'[k].start, BaseCip}
                  ELSE \E n \in Bytes(handled'[k]) :
                          handled'[k].next = (handled'[k].start + n) % CipModulus
    <3>1. CASE k \in 1 .. Len(handled)
      <4>1. handled'[k] = handled[k] /\ (k # 1 => handled'[k - 1] = handled[k - 1])
        BY <2>2, <2>3, <3>1
      <4>. QED
        BY <3>1, <4>1 DEF AddressesChain
    <3>2. CASE k = Len(handled) + 1
      <4>1. handled'[k] = e
        BY <2>2, <3>2
      <4>2. k # 1 => handled'[k - 1] = handled[Len(handled)]
        BY <2>2, <2>3, <3>2
      <4>3. e.start = IF k = 1 THEN FirstCip ELSE handled'[k - 1].next
        BY <2>3, <2>6, <3>2, <4>2
      <4>4. e.text = current_instr /\ e.next = next /\ e.start = cip /\ e.failed = failed
        OBVIOUS
      <4>5. Bytes(e) = IF failed THEN {1} ELSE 1 .. MaxLength
        BY <4>4 DEF Bytes
      <4>. QED
        BY <4>1, <4>3, <4>4, <4>5
    <3>. QED
      BY <2>2, <2>3, <3>1, <3>2
  <2>8. AddressesChain'
    BY <2>7 DEF AddressesChain
  <2>. QED
    BY <2>2, <2>5, <2>8
<1>4. CASE ~(Len(handled) < HandledBound)
  <2>1. handled' = handled
    BY <1>4 DEF Record
  <2>. QED
    BY <1>1, <1>4, <2>1 DEF AtLastNext, AddressesChain, Bytes
<1>. QED
  BY <1>3, <1>4

\* Steps that record no line and leave the instruction pointer alone.
LEMMA NoRecordKeepsChain ==
    ASSUME handled \in Seq(Entry), AtLastNext, AddressesChain, UNCHANGED <<filedata, cip, handled>>
    PROVE  handled' \in Seq(Entry) /\ AtLastNext' /\ AddressesChain'
  BY DEF AtLastNext, AddressesChain, HandledBound, len, Bytes

-----------------------------------------------------------------------------

LEMMA InitChained == Init => Chained
<1>. SUFFICES ASSUME Init PROVE Chained
  OBVIOUS
<1>1. filedata \in Seq(Chars) /\ len \in Nat
  BY DriverAssumption DEF Init, len
<1>2. TypeOK
  BY <1>1, DriverAssumption DEF Init, TypeOK, Callee!Init, Cips
<1>3. handled = <<>> /\ handled \in Seq(Entry) /\ Len(handled) = 0
  BY DEF Init
<1>4. AtLastNext
  BY <1>3 DEF Init, AtLastNext
<1>5. AddressesChain
  BY <1>3 DEF AddressesChain
<1>. QED
  BY <1>2, <1>3, <1>4, <1>5 DEF Init, Chained

\* The types that every step relies on.
LEMMA Types ==
    ASSUME TypeOK
    PROVE  /\ filedata \in Seq(Chars) /\ len \in Nat
           /\ i \in Nat /\ j \in Nat /\ current_instr \in Seq(Chars) /\ Len(current_instr) \in Nat
           /\ cip \in Nat /\ dest_size \in Nat /\ CipModulus \in Nat /\ MaxLength \in Nat
  BY DriverAssumption DEF TypeOK, len, Cips

LEMMA CharacterKeeps == ASSUME Chained, Character PROVE Chained'
<1>. USE DEF Chained
<1>1. TypeOK
  OBVIOUS
<1>2. filedata[i] \in Chars
  BY <1>1, Types DEF Character, len
<1>3. /\ SubSeq(current_instr, 1, j) \in Seq(Chars)
      /\ Len(SubSeq(current_instr, 1, j)) = j
  BY <1>1, Types DEF TypeOK
<1>4. current_instr' \in Seq(Chars) /\ Len(current_instr') = j + 1
  BY <1>2, <1>3 DEF Character
<1>5. i' \in 1 .. len' + 1 /\ j' \in 0 .. len' /\ j' < i'
  BY <1>1, Types DEF Character, TypeOK, len
<1>6. TypeOK'
  BY <1>1, <1>4, <1>5 DEF Character, TypeOK, call
<1>7. handled' \in Seq(Entry) /\ AtLastNext' /\ AddressesChain'
  BY NoRecordKeepsChain DEF Character, call
<1>. QED
  BY <1>5, <1>6, <1>7 DEF Character

LEMMA BaseLineKeeps == ASSUME Chained, BaseLine PROVE Chained'
<1>. USE DEF Chained
<1>1. TypeOK
  OBVIOUS
<1>2. cip' \in Cips /\ cip' \in {cip, BaseCip}
  BY <1>1, DriverAssumption DEF BaseLine, TypeOK, Cips
<1>3. TypeOK'
  BY <1>1, <1>2 DEF BaseLine, TypeOK, locals, len
<1>4. handled' \in Seq(Entry) /\ AtLastNext' /\ AddressesChain'
  BY <1>1, <1>2, RecordKeepsChain DEF BaseLine, IsBase, TypeOK, locals
<1>. QED
  BY <1>3, <1>4 DEF BaseLine, locals

LEMMA AssembleKeeps == ASSUME Chained, Assemble PROVE Chained'
<1>. USE DEF Chained
<1>1. TypeOK'
  BY DriverAssumption DEF Assemble, TypeOK, locals, len, Callee!Call
<1>2. handled' \in Seq(Entry) /\ AtLastNext' /\ AddressesChain'
  BY NoRecordKeepsChain DEF Assemble, locals
<1>3. ~IsBase'
  BY DEF Assemble, IsBase, locals
<1>. QED
  BY <1>1, <1>2, <1>3 DEF Assemble, locals

LEMMA AssembledKeeps == ASSUME Chained, Assembled PROVE Chained'
<1>. USE DEF Chained
<1>1. /\ dest_size' \in 0 .. MaxLength
      /\ result' = "ERROR" \/ (result' = "OK" /\ dest_size' \in 1 .. MaxLength)
  BY DriverAssumption DEF Assembled, Callee!Return
<1>2. TypeOK'
  BY <1>1 DEF Assembled, TypeOK, locals, len, Callee!Return
<1>3. handled' \in Seq(Entry) /\ AtLastNext' /\ AddressesChain'
  BY NoRecordKeepsChain DEF Assembled, locals, Callee!Return
<1>4. ~IsBase'
  BY DEF Assembled, IsBase, locals
<1>. QED
  BY <1>1, <1>2, <1>3, <1>4 DEF Assembled, locals

LEMMA AdvanceKeeps == ASSUME Chained, Advance PROVE Chained'
<1>. USE DEF Chained
<1>1. TypeOK /\ cip \in Nat
  BY Types
<1>2. Step \in Nat /\ Step \in IF result = "ERROR" THEN {1} ELSE 1 .. MaxLength
  BY StepType DEF Advance
<1>3. cip + Step \in Nat
  BY <1>1, <1>2
<1>4. cip' \in Cips /\ cip' = (cip + Step) % CipModulus
  BY <1>3, ModType DEF Advance, Cips
<1>5. errors' \in 0 .. CipModulus - 1
  <2>1. errors \in Nat /\ errors + 1 \in Nat
    BY <1>1, Types DEF TypeOK
  <2>. QED
    BY <1>1, <2>1, ModType DEF Advance, TypeOK
<1>6. TypeOK'
  BY <1>1, <1>4, <1>5 DEF Advance, TypeOK, len
<1>7. ~Contains(current_instr, "base:")
  BY DEF Advance, IsBase
<1>8. handled' \in Seq(Entry) /\ AtLastNext' /\ AddressesChain'
  <2>1. (result = "ERROR") \in BOOLEAN
    OBVIOUS
  <2>2. \E n \in IF result = "ERROR" THEN {1} ELSE 1 .. MaxLength :
           cip' = (cip + n) % CipModulus
    BY <1>2, <1>4
  <2>3. Record(cip', result = "ERROR") /\ UNCHANGED filedata
    BY DEF Advance
  <2>. QED
    BY <1>1, <1>4, <1>7, <2>1, <2>2, <2>3, RecordKeepsChain DEF TypeOK
<1>. QED
  BY <1>6, <1>8 DEF Advance

LEMMA SkipNewlineKeeps == ASSUME Chained, SkipNewline PROVE Chained'
<1>. USE DEF Chained
<1>1. i' \in 1 .. len' + 1 /\ j' < i'
  BY Types DEF SkipNewline, AtBreak, TypeOK, len
<1>2. TypeOK'
  BY <1>1 DEF SkipNewline, TypeOK, call, len
<1>3. handled' \in Seq(Entry) /\ AtLastNext' /\ AddressesChain'
  BY NoRecordKeepsChain DEF SkipNewline, call
<1>. QED
  BY <1>1, <1>2, <1>3 DEF SkipNewline

LEMMA NextLineKeeps == ASSUME Chained, NextLine PROVE Chained'
<1>. USE DEF Chained
<1>1. j' \in 0 .. len' /\ j' < i' /\ Len(current_instr') >= j'
  BY Types DEF NextLine, TypeOK, len
<1>2. TypeOK'
  BY <1>1 DEF NextLine, TypeOK, call, len
<1>3. handled' \in Seq(Entry) /\ AtLastNext' /\ AddressesChain'
  BY NoRecordKeepsChain DEF NextLine, call
<1>. QED
  BY <1>1, <1>2, <1>3 DEF NextLine

LEMMA EndOfFileKeeps == ASSUME Chained, EndOfFile PROVE Chained'
<1>. USE DEF Chained
<1>1. TypeOK'
  BY DEF EndOfFile, TypeOK, locals, call, len
<1>2. handled' \in Seq(Entry) /\ AtLastNext' /\ AddressesChain'
  BY NoRecordKeepsChain DEF EndOfFile, locals, call
<1>. QED
  BY <1>1, <1>2 DEF EndOfFile, locals

LEMMA StutterKeeps == ASSUME Chained, UNCHANGED vars PROVE Chained'
<1>. USE DEF Chained
<1>1. TypeOK'
  BY DEF vars, TypeOK, locals, call, len
<1>2. handled' \in Seq(Entry) /\ AtLastNext' /\ AddressesChain'
  BY NoRecordKeepsChain DEF vars, locals, call
<1>. QED
  BY <1>1, <1>2 DEF vars, locals, call, IsBase

\* A remainder goes on by one with the number.
LEMMA NextRemainder ==
    ASSUME NEW c \in Nat, NEW m \in Nat, m > 0
    PROVE  ((c % m) + 1) % m = (c + 1) % m
<1>. DEFINE q == c \div m
<1>1. q \in Int /\ c = m * q + (c % m) /\ c % m \in 0 .. m - 1
  OBVIOUS
<1>. HIDE DEF q
<1>2. ASSUME NEW r \in 0 .. m - 1, NEW k \in Int, NEW d \in Int, d = m * k + r PROVE d % m = r
  BY <1>2
<1>3. CASE (c % m) + 1 < m
  <2>1. (c % m) + 1 \in 0 .. m - 1 /\ c + 1 = m * q + ((c % m) + 1) /\ c + 1 \in Int
    BY <1>1, <1>3
  <2>2. (c + 1) % m = (c % m) + 1
    BY <1>1, <1>2, <2>1
  <2>3. (c % m) + 1 = m * 0 + ((c % m) + 1) /\ (c % m) + 1 \in Int /\ 0 \in Int
    BY <1>1
  <2>4. ((c % m) + 1) % m = (c % m) + 1
    BY <1>2, <2>1, <2>3
  <2>. QED
    BY <2>2, <2>4
<1>4. CASE (c % m) + 1 = m
  <2>1. c + 1 = m * (q + 1) + 0 /\ m = m * 1 + 0 /\ 0 \in 0 .. m - 1 /\ q + 1 \in Int /\ c + 1 \in Int
    BY <1>1, <1>4
  <2>2. (c + 1) % m = 0
    BY <1>2, <2>1
  <2>3. m % m = 0
    BY <1>2, <2>1
  <2>. QED
    BY <1>4, <2>2, <2>3
<1>. QED
  BY <1>1, <1>3, <1>4

-----------------------------------------------------------------------------
(* Line by line.                                                           *)

\* Sets of places in the file are finite.
LEMMA PlacesCounted ==
    ASSUME TypeOK, NEW S \in SUBSET (1 .. len)
    PROVE  IsFiniteSet(S) /\ Cardinality(S) \in Nat
<1>1. IsFiniteSet(1 .. len)
  BY Types, FS_Interval
<1>. QED
  BY <1>1, FS_Subset, FS_CardinalityType

\* The line feed at the end of what is being read.
EndPlace == IF filedata[i] = "LF" THEN i ELSE i + 1

\* At a newline the line being read ends, and it is the first to do so after
\* those before its start.
LEMMA LineEndsHere ==
    ASSUME TypeOK, j < i, IsCrLf, AtNewline, i <= len, phase \in {"scan", "advance"}, Reading
    PROVE  /\ EndPlace \in LineEnds /\ Start <= EndPlace /\ 1 <= Start
           /\ LineAt(EndPlace) = current_instr
           /\ {q \in LineEnds : q <= EndPlace} = {q \in LineEnds : q < Start} \union {EndPlace}
           /\ Newlines(i, EndPlace) /\ Newlines(EndPlace, i - 1)
<1>1. /\ filedata \in Seq(Chars) /\ len \in Nat /\ i \in Nat /\ j \in Nat /\ 1 <= i /\ i <= len
      /\ Start = i - j /\ Start \in Nat /\ 1 <= Start /\ Start <= i
  BY Types DEF TypeOK, Start
<1>2. /\ StartsLine
      /\ \A k \in Start .. i - 1 : filedata[k] # "LF"
      /\ 1 < i => filedata[i] # "LF"
      /\ j > 0 \/ Start = 1 => current_instr = SubSeq(filedata, Start, i - 1)
  BY <1>1 DEF Reading
<1>3. CASE filedata[i] = "LF"
  <2>1. i = 1 /\ Start = 1 /\ EndPlace = 1 /\ 1 .. i - 1 = {}
    BY <1>1, <1>2, <1>3 DEF EndPlace
  <2>2. 1 \in LineEnds
    BY <1>1, <1>3, <2>1 DEF LineEnds
  <2>3. LineAt(1) = <<>>
    <3>1. 1 .. 1 - 1 = {}
      OBVIOUS
    <3>. QED
      BY <3>1 DEF LineAt
  <2>4. SubSeq(filedata, 1, 0) = <<>>
    BY <1>1
  <2>5. current_instr = <<>>
    BY <1>2, <2>1, <2>4
  <2>6. \A q \in LineEnds : q \in 1 .. len
    BY DEF LineEnds
  <2>7. {q \in LineEnds : q <= 1} = {q \in LineEnds : q < 1} \union {1}
    BY <1>1, <2>2, <2>6
  <2>8. Newlines(1, 1) /\ Newlines(1, 1 - 1)
    BY <1>1, <1>3, <2>1 DEF Newlines, IsNewline
  <2>. QED
    BY <2>1, <2>2, <2>3, <2>5, <2>7, <2>8
<1>4. CASE filedata[i] # "LF"
  <2>1. i < len /\ filedata[i + 1] = "LF" /\ EndPlace = i + 1 /\ i + 1 \in 2 .. len
    BY <1>1, <1>4 DEF AtNewline, EndPlace
  <2>2. IsNewline(filedata[i])
    <3>1. IsNewline(filedata[(i + 1) - 1])
      BY <2>1 DEF IsCrLf
    <3>2. (i + 1) - 1 = i
      BY <1>1
    <3>. QED
      BY <3>1, <3>2
  <2>3. \A q \in 1 .. i : filedata[q] = "LF" => q < Start
    BY <1>1, <1>2, <1>4
  <2>4. Start = 1 \/ ~IsNewline(filedata[Start])
    BY <1>1, <1>2 DEF StartsLine
  <2>5. i + 1 \in LineEnds
    <3>1. ASSUME NEW q \in 1 .. (i + 1) - 1, filedata[q] = "LF"
          PROVE  \E k \in q .. i + 1 : ~IsNewline(filedata[k])
      <4>1. q \in 1 .. i /\ q < Start
        BY <1>1, <2>3, <3>1
      <4>2. Start \in q .. i + 1 /\ Start # 1
        BY <1>1, <4>1
      <4>. QED
        BY <2>4, <4>2
    <3>. QED
      BY <2>1, <3>1 DEF LineEnds
  <2>6. \A q \in LineEnds : q \in 1 .. len /\ filedata[q] = "LF"
    BY DEF LineEnds
  <2>7. {q \in LineEnds : q <= i + 1} = {q \in LineEnds : q < Start} \union {i + 1}
    BY <1>1, <2>3, <2>5, <2>6
  <2>8. Newlines(i, i + 1) /\ Newlines(i + 1, i - 1)
    BY <1>1, <2>1, <2>2 DEF Newlines, IsNewline
  <2>9. LineAt(i + 1) = SubSeq(filedata, Start, i - 1)
    <3>. DEFINE earlier == {q \in 1 .. (i + 1) - 1 : filedata[q] = "LF"}
                starts  == {k \in 1 .. (i + 1) - 1 : /\ \A q \in earlier : q < k
                                                     /\ earlier # {} => ~IsNewline(filedata[k])}
    <3>1. (i + 1) - 1 = i /\ (i + 1) - 2 = i - 1
      BY <1>1
    <3>2. \A q \in earlier : q < Start
      BY <2>3, <3>1
    <3>3. Start \in starts
      <4>1. earlier # {} => Start # 1
        BY <1>1, <3>1, <3>2
      <4>. QED
        BY <1>1, <2>4, <3>1, <3>2, <4>1
    <3>4. ASSUME NEW m \in starts PROVE Start <= m
      <4>1. CASE Start = 1
        BY <3>1, <4>1
      <4>2. CASE Start # 1
        <5>1. PICK q \in 1 .. Start - 1 : filedata[q] = "LF" /\ Newlines(q, Start - 1)
          BY <1>2, <4>2 DEF StartsLine
        <5>2. q \in earlier
          BY <1>1, <3>1, <5>1
        <5>3. q < m /\ ~IsNewline(filedata[m]) /\ m \in 1 .. i
          BY <3>1, <3>4, <5>2
        <5>. QED
          BY <1>1, <5>1, <5>3 DEF Newlines
      <4>. QED
        BY <4>1, <4>2
    <3>5. Min(starts) = Start
      <4>1. starts \subseteq Nat
        BY <3>1
      <4>. HIDE DEF starts
      <4>2. \A k \in starts : (\A m \in starts : k <= m) => k = Start
        BY <1>1, <3>3, <3>4, <4>1
      <4>. QED
        BY <3>3, <3>4, <4>2 DEF Min
    <3>6. LineAt(i + 1) = IF starts = {} THEN <<>>
                          ELSE SubSeq(filedata, Min(starts), (i + 1) - 2)
      BY DEF LineAt
    <3>. HIDE DEF starts, earlier
    <3>. QED
      BY <3>1, <3>3, <3>5, <3>6
  <2>10. j > 0 \/ Start = 1
    BY <1>1, <2>2, <2>4
  <2>11. LineAt(i + 1) = current_instr
    BY <1>2, <2>9, <2>10
  <2>. QED
    BY <1>1, <2>1, <2>5, <2>7, <2>8, <2>11
<1>. QED
  BY <1>3, <1>4

\* What the lines are depends on the file alone.
LEMMA SameFile ==
    ASSUME UNCHANGED filedata
    PROVE  /\ len' = len /\ LineEnds' = LineEnds /\ (IsCrLf <=> IsCrLf') /\ HandledBound' = HandledBound
           /\ \A p : LineAt(p)' = LineAt(p) /\ LineNumber(p)' = LineNumber(p)
           /\ \A a, b : Newlines(a, b) => Newlines(a, b)'
<1>1. len' = len
  BY DEF len
<1>2. LineEnds' = LineEnds
  BY <1>1 DEF LineEnds
<1>3. IsCrLf <=> IsCrLf'
  BY <1>1 DEF IsCrLf
<1>4. HandledBound' = HandledBound
  BY <1>1 DEF HandledBound
<1>5. ASSUME NEW p PROVE LineAt(p)' = LineAt(p)
  BY DEF LineAt
<1>6. ASSUME NEW p PROVE LineNumber(p)' = LineNumber(p)
  BY <1>2 DEF LineNumber
<1>7. ASSUME NEW a, NEW b, Newlines(a, b) PROVE Newlines(a, b)'
  BY <1>1, <1>7 DEF Newlines
<1>. QED
  BY <1>1, <1>2, <1>3, <1>4, <1>5, <1>6, <1>7

\* The number of the line that ends here is one more than there were, and no
\* other line has it.
LEMMA NextNumber ==
    ASSUME TypeOK, NEW e \in LineEnds, NEW a, NEW n,
           n = Cardinality({q \in LineEnds : q < a}), a <= e, a \in Nat,
           {q \in LineEnds : q <= e} = {q \in LineEnds : q < a} \union {e}
    PROVE  /\ LineNumber(e) = n + 1
           /\ \A p \in LineEnds : p < e => LineNumber(p) <= n
           /\ \A p \in LineEnds : e < p => LineNumber(p) > n + 1
<1>. DEFINE before == {q \in LineEnds : q < a}
<1>1. LineEnds \subseteq 1 .. len /\ len \in Nat /\ LineEnds \subseteq Nat
  BY Types DEF LineEnds
<1>2. IsFiniteSet(before) /\ n \in Nat
  BY <1>1, PlacesCounted
<1>3. e \notin before /\ a \in Nat /\ e \in Nat
  BY <1>1
<1>4. LineNumber(e) = n + 1
  BY <1>2, <1>3, FS_AddElement DEF LineNumber
<1>5. ASSUME NEW p \in LineEnds, p < e PROVE LineNumber(p) <= n
  <2>1. {q \in LineEnds : q <= p} \subseteq before
    <3>1. p \in {q \in LineEnds : q <= e} /\ p # e
      BY <1>1, <1>5
    <3>2. p < a
      BY <3>1
    <3>3. ASSUME NEW q \in LineEnds, q <= p PROVE q < a
      BY <1>1, <1>3, <3>2, <3>3
    <3>. QED
      BY <3>3
  <2>. QED
    BY <1>2, <2>1, FS_Subset DEF LineNumber
<1>6. ASSUME NEW p \in LineEnds, e < p PROVE LineNumber(p) > n + 1
  <2>. DEFINE upto == {q \in LineEnds : q <= e}
              more == {q \in LineEnds : q <= p}
  <2>1. upto \union {p} \subseteq more /\ p \notin upto
    <3>1. ASSUME NEW q \in LineEnds, q <= e PROVE q <= p
      BY <1>1, <1>6, <3>1
    <3>2. p <= p /\ ~(p <= e)
      BY <1>1, <1>6
    <3>. QED
      BY <3>1, <3>2
  <2>2. IsFiniteSet(upto) /\ IsFiniteSet(more) /\ Cardinality(upto) = n + 1 /\ Cardinality(more) \in Nat
    BY <1>1, <1>4, PlacesCounted DEF LineNumber
  <2>. HIDE DEF upto, more
  <2>3. Cardinality(upto \union {p}) = n + 2
    <3>1. IsFiniteSet(upto) /\ p \notin upto
      BY <2>1, <2>2
    <3>2. Cardinality(upto \union {p}) = Cardinality(upto) + 1
      BY ONLY <3>1, FS_AddElement
    <3>. QED
      BY <1>2, <2>2, <3>2
  <2>4. Cardinality(upto \union {p}) <= Cardinality(more)
    BY <2>1, <2>2, FS_Subset
  <2>5. Cardinality(more) > n + 1
    BY <1>2, <2>2, <2>3, <2>4
  <2>. QED
    BY <2>5 DEF LineNumber, more
<1>. QED
  BY <1>4, <1>5, <1>6

\* Recording a line with its outcome.
LEMMA LineRecorded ==
    ASSUME TypeOK, handled \in Seq(Entry), j < i, IsCrLf, AtNewline, i <= len,
           phase \in {"scan", "advance"}, Reading, Faithful,
           NEW next, next \in Cips, NEW failed \in BOOLEAN, Record(next, failed),
           UNCHANGED <<filedata, i>>, phase' = "newline",
           errors' = IF failed THEN (errors + 1) % CipModulus ELSE errors
    PROVE  Reading' /\ Skipping' /\ Faithful'
<1>. DEFINE n == Len(handled)
            e == EndPlace
            before == {q \in LineEnds : q < Start}
            entry == [text |-> current_instr, start |-> cip, next |-> next, failed |-> failed]
<1>1. /\ e \in LineEnds /\ Start <= e /\ Start \in Nat /\ LineAt(e) = current_instr
      /\ {q \in LineEnds : q <= e} = before \union {e}
      /\ Newlines(i, e) /\ Newlines(e, i - 1)
  BY LineEndsHere, Types DEF TypeOK, Start
<1>2. n = Cardinality(before) /\ n \in Nat
  BY DEF Reading
<1>3. /\ LineNumber(e) = n + 1
      /\ \A p \in LineEnds : p < e => LineNumber(p) <= n
      /\ \A p \in LineEnds : e < p => LineNumber(p) > n + 1
  <2>. HIDE DEF n, e
  <2>. QED
    BY <1>1, <1>2, NextNumber
<1>4. n < HandledBound
  <2>. DEFINE feeds == {k \in 1 .. len : filedata[k] = "LF"}
  <2>1. feeds \in SUBSET (1 .. len) /\ before \in SUBSET feeds
    BY DEF LineEnds
  <2>2. IsFiniteSet(feeds) /\ Cardinality(feeds) \in Nat
    BY <2>1, PlacesCounted
  <2>3. Cardinality(before) <= Cardinality(feeds)
    BY <2>1, <2>2, FS_Subset
  <2>4. HandledBound = Cardinality(feeds) + 1
    BY DEF HandledBound
  <2>. HIDE DEF feeds
  <2>. QED
    BY <1>2, <2>2, <2>3, <2>4
<1>5. handled' = Append(handled, entry)
  BY <1>4 DEF Record
<1>6. entry \in Entry /\ entry.text = current_instr /\ entry.failed = failed
  BY DEF Entry, TypeOK
<1>. HIDE DEF entry
<1>7. /\ Len(handled') = n + 1 /\ handled'[n + 1] = entry
      /\ \A k \in 1 .. n : handled'[k] = handled[k]
  BY <1>5, <1>6, AppendProperties
<1>. HIDE DEF n, e, before
<1>8. Reading'
  BY DEF Reading
<1>9. Skipping'
  <2>3. e' = e
    BY DEF e, EndPlace
  <2>1. LineEnds' = LineEnds /\ LineNumber(e)' = LineNumber(e)
    BY <2>3, SameFile DEF LineNumber
  <2>2. Newlines(i, e)' /\ Newlines(e, i - 1)'
    BY <1>1, <2>3, SameFile DEF Newlines
  <2>. QED
    BY <1>1, <1>3, <1>7, <2>1, <2>2, <2>3 DEF Skipping
<1>10. ASSUME NEW p \in LineEnds, LineNumber(p) <= n + 1
       PROVE  handled'[LineNumber(p)].text = LineAt(p)
  <2>1. e \in Nat /\ p \in Nat /\ LineNumber(p) \in Nat /\ LineNumber(p) > 0
    <3>1. LineEnds \subseteq 1 .. len
      BY DEF LineEnds
    <3>2. IsFiniteSet({q \in LineEnds : q <= p}) /\ LineNumber(p) \in Nat
      BY <3>1, PlacesCounted DEF LineNumber
    <3>3. p \in {q \in LineEnds : q <= p}
      BY <3>1, Types
    <3>4. LineNumber(p) # 0
      BY <3>2, <3>3, FS_EmptySet DEF LineNumber
    <3>. QED
      BY <1>1, <3>1, <3>2, <3>4, Types
  <2>2. CASE p < e
    <3>1. LineNumber(p) \in 1 .. n
      BY <1>2, <1>3, <2>1, <2>2
    <3>. QED
      BY <1>7, <3>1 DEF Faithful, n
  <2>3. CASE p = e
    BY <1>1, <1>3, <1>6, <1>7, <2>3
  <2>4. CASE e < p
    BY <1>2, <1>3, <1>10, <2>1, <2>4
  <2>. QED
    BY <2>1, <2>2, <2>3, <2>4
<1>11. errors' = Cardinality({k \in 1 .. Len(handled') : handled'[k].failed}) % CipModulus
  <2>. DEFINE old == {k \in 1 .. n : handled[k].failed}
              new == {k \in 1 .. n + 1 : handled'[k].failed}
  <2>1. IsFiniteSet(old) /\ Cardinality(old) \in Nat
    <3>1. IsFiniteSet(1 .. n) /\ old \in SUBSET (1 .. n)
      BY <1>2, FS_Interval
    <3>. QED
      BY <3>1, FS_Subset, FS_CardinalityType
  <2>2. new = IF failed THEN old \union {n + 1} ELSE old
    BY <1>2, <1>6, <1>7
  <2>3. n + 1 \notin old
    BY <1>2
  <2>4. errors = Cardinality(old) % CipModulus
    BY DEF Faithful, n
  <2>. HIDE DEF old, new
  <2>5. Cardinality(new) = IF failed THEN Cardinality(old) + 1 ELSE Cardinality(old)
    BY <2>1, <2>2, <2>3, FS_AddElement
  <2>6. CipModulus \in Nat /\ CipModulus > 0
    BY DriverAssumption
  <2>7. errors' = Cardinality(new) % CipModulus
    <3>1. errors' = (IF failed THEN (Cardinality(old) % CipModulus) + 1 ELSE Cardinality(old)) % CipModulus
      BY <2>4
    <3>2. ((Cardinality(old) % CipModulus) + 1) % CipModulus = (Cardinality(old) + 1) % CipModulus
      BY <2>1, <2>6, NextRemainder
    <3>. QED
      BY <2>5, <3>1, <3>2
  <2>. QED
    BY <1>7, <2>7 DEF new
<1>12. Faithful'
  <2>1. /\ LineEnds' = LineEnds
        /\ \A p : LineAt(p)' = LineAt(p) /\ LineNumber(p)' = LineNumber(p)
    BY SameFile
  <2>2. \A p \in LineEnds' : LineNumber(p)' <= Len(handled') => handled'[LineNumber(p)'].text = LineAt(p)'
    BY <1>7, <1>10, <2>1
  <2>. QED
    BY <1>11, <2>2 DEF Faithful
<1>. QED
  BY <1>8, <1>9, <1>12

-----------------------------------------------------------------------------
(* The actions, line by line.                                              *)

\* Steps that touch neither the file, nor the line, nor the history.
LEMMA SameLine ==
    ASSUME LineByLine, UNCHANGED <<filedata, i, j, current_instr, errors, handled>>,
           phase \in {"scan", "call", "advance", "done"}, phase' \in {"scan", "call", "advance", "done"}
    PROVE  /\ CrLfBehind' /\ (AtNewline => AtNewline') /\ len' = len
           /\ IsCrLf' => Reading' /\ Skipping' /\ Faithful'
<1>1. len' = len /\ LineEnds' = LineEnds /\ (IsCrLf <=> IsCrLf')
  BY SameFile
<1>2. CrLfBehind'
  BY <1>1 DEF LineByLine, CrLfBehind
<1>3. AtNewline => AtNewline'
  BY <1>1 DEF AtNewline
<1>4. ASSUME IsCrLf PROVE Reading' /\ Skipping' /\ Faithful'
  <2>1. Reading /\ Faithful
    BY <1>4 DEF LineByLine
  <2>2. Start' = Start
    BY DEF Start
  <2>3. StartsLine'
    BY <1>1, <2>1, <2>2, SameFile DEF Reading, StartsLine, Newlines
  <2>4. Reading'
    BY <1>1, <2>1, <2>2, <2>3 DEF Reading
  <2>5. Skipping'
    BY DEF Skipping
  <2>6. Faithful'
    BY <2>1, SameFile DEF Faithful
  <2>. QED
    BY <2>4, <2>5, <2>6
<1>. QED
  BY <1>1, <1>2, <1>3, <1>4

\* A character lengthens the line that is read.
LEMMA CharacterByLine == ASSUME IInv, Character PROVE LineByLine'
<1>1. TypeOK /\ LineByLine /\ j < i
  BY DEF IInv, Chained
<1>2. /\ len' = len /\ LineEnds' = LineEnds /\ (IsCrLf <=> IsCrLf')
  BY SameFile DEF Character
<1>3. /\ filedata \in Seq(Chars) /\ len \in Nat /\ i \in Nat /\ j \in Nat
      /\ 1 <= i /\ i <= len /\ current_instr \in Seq(Chars) /\ j <= Len(current_instr)
      /\ i' = i + 1 /\ j' = j + 1 /\ filedata' = filedata /\ phase = "scan" /\ phase' = "scan"
      /\ filedata[i] # "LF" /\ (i < len => filedata[i + 1] # "LF")
  BY <1>1, Types DEF Character, TypeOK, AtNewline
<1>4. CrLfBehind'
  BY <1>1, <1>2, <1>3 DEF LineByLine, CrLfBehind
<1>5. ASSUME IsCrLf PROVE Reading' /\ Skipping' /\ Faithful'
  <2>1. Reading /\ Faithful
    BY <1>1, <1>5 DEF LineByLine
  <2>2. Start' = Start /\ Start = i - j /\ Start \in 1 .. i
    BY <1>1, <1>3 DEF Start
  <2>3. StartsLine'
    BY <1>2, <1>3, <2>1, <2>2, SameFile DEF Reading, StartsLine, Newlines
  <2>4. /\ \A k \in Start' .. i' - 1 : filedata'[k] # "LF"
        /\ 1 < i' /\ i' <= len' => filedata'[i'] # "LF"
    BY <1>2, <1>3, <2>1, <2>2 DEF Reading
  <2>5. current_instr' = SubSeq(filedata', Start', i' - 1)
    <3>. DEFINE was == SubSeq(current_instr, 1, j)
                now == SubSeq(filedata, Start, i)
    <3>1. /\ was \in Seq(Chars) /\ Len(was) = j
          /\ \A k \in 1 .. j : was[k] = current_instr[k]
      BY <1>3
    <3>2. filedata[i] \in Chars
      BY <1>3 DEF len
    <3>3. /\ Append(was, filedata[i]) \in Seq(Chars) /\ Len(Append(was, filedata[i])) = j + 1
          /\ Append(was, filedata[i])[j + 1] = filedata[i]
          /\ \A k \in 1 .. j : Append(was, filedata[i])[k] = was[k]
      BY <3>1, <3>2, AppendProperties
    <3>4. /\ now \in Seq(Chars) /\ Len(now) = j + 1
          /\ \A k \in 1 .. j + 1 : now[k] = filedata[Start + k - 1]
      BY <1>3, <2>2 DEF len
    <3>5. ASSUME NEW k \in 1 .. j PROVE current_instr[k] = filedata[Start + k - 1]
      <4>1. current_instr = SubSeq(filedata, Start, i - 1)
        BY <1>3, <2>1, <3>5 DEF Reading
      <4>. QED
        BY <1>3, <2>2, <4>1 DEF len
    <3>6. Start + (j + 1) - 1 = i
      BY <1>3, <2>2
    <3>7. ASSUME NEW k \in 1 .. j + 1 PROVE Append(was, filedata[i])[k] = now[k]
      <4>. HIDE DEF was, now
      <4>1. CASE k \in 1 .. j
        BY <1>3, <3>1, <3>3, <3>4, <3>5, <4>1
      <4>2. CASE k = j + 1
        BY <1>3, <3>3, <3>4, <3>6, <4>2
      <4>3. k \in 1 .. j \/ k = j + 1
        BY <1>3
      <4>. QED
        BY <4>1, <4>2, <4>3
    <3>8. Append(was, filedata[i]) = now
      BY <3>3, <3>4, <3>7, SeqEqual
    <3>9. i' - 1 = i /\ current_instr' = Append(was, filedata[i])
      BY <1>3 DEF Character
    <3>. QED
      BY <1>3, <2>2, <3>8, <3>9
  <2>6. Reading'
    <3>1. Len(handled') = Cardinality({q \in LineEnds' : q < Start'})
      BY <1>2, <1>3, <2>1, <2>2 DEF Reading, Character
    <3>. QED
      BY <2>3, <2>4, <2>5, <3>1 DEF Reading
  <2>7. Skipping'
    BY <1>3 DEF Skipping
  <2>8. Faithful'
    BY <2>1, SameFile DEF Faithful, Character
  <2>. QED
    BY <2>6, <2>7, <2>8
<1>. QED
  BY <1>2, <1>3, <1>4, <1>5 DEF LineByLine

\* A base line is handed over.
LEMMA BaseLineByLine == ASSUME IInv, BaseLine PROVE LineByLine'
<1>1. TypeOK /\ LineByLine /\ j < i /\ handled \in Seq(Entry)
  BY DEF IInv, Chained
<1>2. /\ len' = len /\ (IsCrLf <=> IsCrLf') /\ i' = i /\ filedata' = filedata /\ errors' = errors
      /\ phase = "scan" /\ phase' = "newline" /\ AtNewline /\ i <= len /\ Record(cip', FALSE)
  BY SameFile DEF BaseLine, locals
<1>3. cip' \in Cips
  BY <1>1, DriverAssumption DEF BaseLine, TypeOK, Cips
<1>4. CrLfBehind'
  BY <1>1, <1>2 DEF LineByLine, CrLfBehind
<1>5. ASSUME IsCrLf PROVE Reading' /\ Skipping' /\ Faithful'
  <2>1. Reading /\ Faithful
    BY <1>1, <1>5 DEF LineByLine
  <2>. QED
    BY <1>1, <1>2, <1>3, <1>5, <2>1, LineRecorded
<1>. QED
  BY <1>2, <1>4, <1>5 DEF LineByLine

\* An assembled line is handed over.
LEMMA AdvanceByLine == ASSUME IInv, Advance, cip' \in Cips PROVE LineByLine'
<1>1. TypeOK /\ LineByLine /\ j < i /\ handled \in Seq(Entry)
  BY DEF IInv, Chained
<1>2. /\ len' = len /\ (IsCrLf <=> IsCrLf') /\ i' = i /\ filedata' = filedata
      /\ phase = "advance" /\ phase' = "newline" /\ AtNewline /\ i <= len
      /\ Record(cip', result = "ERROR")
      /\ errors' = IF result = "ERROR" THEN (errors + 1) % CipModulus ELSE errors
  BY <1>1, SameFile DEF Advance, LineByLine
<1>3. (result = "ERROR") \in BOOLEAN
  OBVIOUS
<1>4. CrLfBehind'
  BY <1>1, <1>2 DEF LineByLine, CrLfBehind
<1>5. ASSUME IsCrLf PROVE Reading' /\ Skipping' /\ Faithful'
  <2>1. Reading /\ Faithful
    BY <1>1, <1>5 DEF LineByLine
  <2>. QED
    BY <1>1, <1>2, <1>3, <1>5, <2>1, LineRecorded
<1>. QED
  BY <1>2, <1>4, <1>5 DEF LineByLine

\* Newlines after a line end no other line.
LEMMA SkipNewlineByLine == ASSUME IInv, SkipNewline PROVE LineByLine'
<1>1. TypeOK /\ LineByLine
  BY DEF IInv, Chained
<1>2. /\ len' = len /\ LineEnds' = LineEnds /\ (IsCrLf <=> IsCrLf')
      /\ i' = i + 1 /\ i \in Nat /\ i <= len /\ len \in Nat /\ filedata' = filedata
      /\ IsNewline(filedata[i]) /\ phase = "newline" /\ phase' = "newline"
      /\ handled' = handled /\ errors' = errors
  BY <1>1, SameFile, Types DEF SkipNewline, AtBreak
<1>3. CrLfBehind'
  <2>1. ASSUME NEW k \in 2 .. len, k <= i + 1, filedata[k] = "LF" PROVE IsNewline(filedata[k - 1])
    <3>1. CASE k <= i
      BY <1>1, <2>1, <3>1 DEF LineByLine, CrLfBehind
    <3>2. CASE k = i + 1
      <4>1. k - 1 = i
        BY <1>2, <3>2
      <4>. QED
        BY <1>2, <4>1
    <3>. QED
      BY <1>2, <2>1, <3>1, <3>2
  <2>. QED
    BY <1>2, <2>1 DEF CrLfBehind
<1>4. ASSUME IsCrLf PROVE Reading' /\ Skipping' /\ Faithful'
  <2>1. Skipping /\ Faithful
    BY <1>1, <1>4 DEF LineByLine
  <2>2. PICK e \in LineEnds : Len(handled) = LineNumber(e) /\ Newlines(i, e) /\ Newlines(e, i - 1)
    BY <1>2, <2>1 DEF Skipping
  <2>3. e \in Nat
    BY <1>2 DEF LineEnds
  <2>4. Newlines(i + 1, e) /\ Newlines(e, (i + 1) - 1)
    BY <1>2, <2>2, <2>3 DEF Newlines
  <2>5. Newlines(i, e)' /\ Newlines(e, i - 1)'
    BY <1>2, <2>4, SameFile DEF Newlines
  <2>6. LineNumber(e)' = LineNumber(e)
    BY <1>2, SameFile
  <2>7. Skipping'
    BY <1>2, <2>2, <2>5, <2>6 DEF Skipping
  <2>8. Faithful'
    BY <1>2, <2>1, SameFile DEF Faithful
  <2>9. Reading'
    BY <1>2 DEF Reading
  <2>. QED
    BY <2>7, <2>8, <2>9
<1>. QED
  BY <1>2, <1>3, <1>4 DEF LineByLine

\* What follows the newlines begins a line, and no line end lies between.
LEMMA NextLineByLine == ASSUME IInv, NextLine PROVE LineByLine'
<1>1. TypeOK /\ LineByLine
  BY DEF IInv, Chained
<1>2. /\ len' = len /\ LineEnds' = LineEnds /\ (IsCrLf <=> IsCrLf')
      /\ i' = i /\ i \in 1 .. len + 1 /\ len \in Nat /\ j' = 0 /\ filedata' = filedata
      /\ (i <= len => ~IsNewline(filedata[i])) /\ phase = "newline" /\ phase' = "scan"
      /\ handled' = handled /\ errors' = errors
  BY <1>1, SameFile, Types DEF NextLine, AtBreak, TypeOK
<1>3. CrLfBehind'
  BY <1>1, <1>2 DEF LineByLine, CrLfBehind
<1>4. ASSUME IsCrLf PROVE Reading' /\ Skipping' /\ Faithful'
  <2>1. Skipping /\ Faithful
    BY <1>1, <1>4 DEF LineByLine
  <2>2. PICK e \in LineEnds : Len(handled) = LineNumber(e) /\ Newlines(i, e) /\ Newlines(e, i - 1)
    BY <1>2, <2>1 DEF Skipping
  <2>3. e \in 1 .. len /\ filedata[e] = "LF"
    BY DEF LineEnds
  <2>4. e \in 1 .. i - 1
    BY <1>2, <2>2, <2>3 DEF Newlines
  <2>5. Start' = i
    BY <1>2 DEF Start
  <2>6. ASSUME NEW q \in LineEnds PROVE q <= e <=> q < i
    <3>1. q \in 1 .. len /\ filedata[q] = "LF"
      BY DEF LineEnds
    <3>2. SUFFICES ASSUME e < q, q < i PROVE FALSE
      BY <1>2, <2>4, <3>1
    <3>3. PICK k \in e .. q : ~IsNewline(filedata[k])
      <4>1. e \in 1 .. q - 1
        BY <2>3, <3>1, <3>2
      <4>. QED
        BY <2>3, <4>1 DEF LineEnds
    <3>4. k \in 1 .. len /\ k <= i - 1 /\ e <= k
      BY <1>2, <2>3, <3>1, <3>2
    <3>. QED
      BY <2>2, <3>3, <3>4 DEF Newlines
  <2>7. Len(handled') = Cardinality({q \in LineEnds' : q < Start'})
    <3>1. {q \in LineEnds : q <= e} = {q \in LineEnds : q < i}
      BY <2>6
    <3>. QED
      BY <1>2, <2>2, <2>5, <3>1 DEF LineNumber
  <2>8. StartsLine'
    <3>1. \E q \in 1 .. i - 1 : filedata'[q] = "LF" /\ Newlines(q, i - 1)'
      BY <1>2, <2>2, <2>3, <2>4, SameFile
    <3>. QED
      BY <1>2, <2>5, <3>1 DEF StartsLine, Newlines, IsNewline
  <2>9. /\ \A k \in Start' .. i' - 1 : filedata'[k] # "LF"
        /\ 1 < i' /\ i' <= len' => filedata'[i'] # "LF"
        /\ ~(j' > 0) /\ Start' # 1
    BY <1>2, <2>4, <2>5 DEF IsNewline
  <2>10. Reading'
    BY <2>7, <2>8, <2>9 DEF Reading
  <2>11. Skipping'
    BY <1>2 DEF Skipping
  <2>12. Faithful'
    BY <1>2, <2>1, SameFile DEF Faithful
  <2>. QED
    BY <2>10, <2>11, <2>12
<1>. QED
  BY <1>2, <1>3, <1>4 DEF LineByLine

\* The calls and the end of the file leave the line alone.
LEMMA RestByLine ==
    ASSUME IInv, Assemble \/ Assembled \/ EndOfFile \/ UNCHANGED vars
    PROVE  LineByLine'
<1>1. TypeOK /\ LineByLine
  BY DEF IInv, Chained
<1>2. CASE Assemble
  <2>1. /\ UNCHANGED <<filedata, i, j, current_instr, errors, handled>>
        /\ phase = "scan" /\ phase' = "call" /\ AtNewline /\ i <= len
    BY <1>2 DEF Assemble, locals
  <2>. QED
    BY <1>1, <2>1, SameLine DEF LineByLine
<1>3. CASE Assembled
  <2>1. /\ UNCHANGED <<filedata, i, j, current_instr, errors, handled>>
        /\ phase = "call" /\ phase' = "advance" /\ AtNewline /\ i <= len
    BY <1>1, <1>3 DEF Assembled, locals, LineByLine
  <2>. QED
    BY <1>1, <2>1, SameLine DEF LineByLine
<1>4. CASE EndOfFile
  <2>1. /\ UNCHANGED <<filedata, i, j, current_instr, errors, handled>>
        /\ phase = "scan" /\ phase' = "done" /\ i > len
    BY <1>4 DEF EndOfFile, locals
  <2>. QED
    BY <1>1, <2>1, SameLine DEF LineByLine
<1>5. CASE UNCHANGED vars
  <2>1. UNCHANGED <<filedata, i, j, current_instr, errors, handled, phase>>
    BY <1>5 DEF vars, locals
  <2>2. CASE phase = "newline"
    <3>1. /\ len' = len /\ LineEnds' = LineEnds /\ (IsCrLf <=> IsCrLf')
      BY <2>1, SameFile
    <3>2. CrLfBehind'
      BY <1>1, <2>1, <3>1 DEF LineByLine, CrLfBehind
    <3>3. ASSUME IsCrLf PROVE Reading' /\ Skipping' /\ Faithful'
      <4>1. Skipping /\ Faithful
        BY <1>1, <3>3 DEF LineByLine
      <4>2. Skipping'
        BY <2>1, <2>2, <3>1, <4>1, SameFile DEF Skipping, Newlines
      <4>3. Faithful'
        BY <2>1, <4>1, SameFile DEF Faithful
      <4>4. Reading'
        BY <2>1, <2>2 DEF Reading
      <4>. QED
        BY <4>2, <4>3, <4>4
    <3>. QED
      BY <2>1, <2>2, <3>1, <3>2, <3>3 DEF LineByLine
  <2>3. CASE phase \in {"scan", "call", "advance", "done"}
    BY <1>1, <2>1, <2>3, SameLine DEF LineByLine
  <2>. QED
    BY <1>1, <2>2, <2>3 DEF TypeOK
<1>. QED
  BY <1>2, <1>3, <1>4, <1>5

\* Nothing is read at the beginning.
LEMMA InitByLine == ASSUME Init, TypeOK PROVE LineByLine
<1>1. /\ filedata \in Seq(Chars) /\ len \in Nat /\ i = 1 /\ j = 0 /\ current_instr = <<>>
      /\ errors = 0 /\ phase = "scan" /\ handled = <<>> /\ Len(handled) = 0
  BY Types DEF Init
<1>2. CrLfBehind
  BY <1>1 DEF CrLfBehind
<1>3. Reading
  <2>1. Start = 1 /\ StartsLine
    BY <1>1 DEF Start, StartsLine
  <2>2. SubSeq(filedata, 1, 0) = <<>>
    BY <1>1
  <2>3. {q \in LineEnds : q < 1} = {}
    BY <1>1 DEF LineEnds
  <2>4. Cardinality({q \in LineEnds : q < Start}) = 0
    BY <2>1, <2>3, FS_EmptySet
  <2>. QED
    BY <1>1, <2>1, <2>2, <2>4 DEF Reading
<1>4. Skipping
  BY <1>1 DEF Skipping
<1>5. Faithful
  <2>1. ASSUME NEW p \in LineEnds PROVE ~(LineNumber(p) <= 0)
    <3>1. LineEnds \subseteq 1 .. len
      BY DEF LineEnds
    <3>2. IsFiniteSet({q \in LineEnds : q <= p}) /\ LineNumber(p) \in Nat
      BY <3>1, PlacesCounted DEF LineNumber
    <3>3. p \in {q \in LineEnds : q <= p}
      BY <1>1, <3>1
    <3>. QED
      BY <3>2, <3>3, FS_EmptySet DEF LineNumber
  <2>2. {k \in 1 .. Len(handled) : handled[k].failed} = {}
    BY <1>1
  <2>3. errors = Cardinality({k \in 1 .. Len(handled) : handled[k].failed}) % CipModulus
    BY <1>1, <2>2, FS_EmptySet, DriverAssumption
  <2>. QED
    BY <1>1, <2>1, <2>3 DEF Faithful
<1>. QED
  BY <1>1, <1>2, <1>3, <1>4, <1>5 DEF LineByLine

\* The strengthened invariant is inductive.
THEOREM Invariance == Spec => []IInv
<1>1. Init => IInv
  BY InitChained, InitByLine DEF IInv, Chained
<1>2. ASSUME IInv, [Next]_vars PROVE IInv'
  <2>1. Chained
    BY <1>2 DEF IInv
  <2>2. Chained'
    BY <1>2, <2>1, CharacterKeeps, BaseLineKeeps, AssembleKeeps, AssembledKeeps, AdvanceKeeps,
       SkipNewlineKeeps, NextLineKeeps, EndOfFileKeeps, StutterKeeps DEF Next
  <2>3. cip' \in Cips
    BY <2>2 DEF Chained, TypeOK
  <2>4. LineByLine'
    BY <1>2, <2>3, CharacterByLine, BaseLineByLine, AdvanceByLine, SkipNewlineByLine,
       NextLineByLine, RestByLine DEF Next
  <2>. QED
    BY <2>2, <2>4 DEF IInv
<1>. QED
  BY <1>1, <1>2, PTL DEF Spec

\* No index leaves the file, and no line is longer than the file
\* (XEDParseTest.cpp:163-188).
THEOREM TypeCorrect == Spec => []TypeOK
<1>1. IInv => TypeOK
  BY DEF IInv, Chained
<1>. QED
  BY <1>1, Invariance, PTL

\* Every line begins at the address the line before it has left
\* (XEDParseTest.cpp:167-179).
THEOREM AddressesChained == Spec => []AddressesChain
<1>1. IInv => AddressesChain
  BY DEF IInv, Chained
<1>. QED
  BY <1>1, Invariance, PTL

\* With CRLF every line is handed over once, in its order and whole, and all of
\* them by the end; the errors printed are the lines that failed
\* (XEDParseTest.cpp:163-190).
THEOREM LinesHandedOver == Spec => []LinesInOrder
<1>1. ASSUME IInv PROVE LinesInOrder
  <2>1. SUFFICES ASSUME IsCrLf PROVE LinesInOrder
    BY DEF LinesInOrder
  <2>2. TypeOK /\ LineByLine /\ Reading /\ Skipping /\ Faithful
    BY <1>1, <2>1 DEF IInv, Chained, LineByLine
  <2>3. LineEnds \in SUBSET (1 .. len) /\ IsFiniteSet(LineEnds) /\ Cardinality(LineEnds) \in Nat
    <3>1. LineEnds \in SUBSET (1 .. len)
      BY DEF LineEnds
    <3>. QED
      BY <2>2, <3>1, PlacesCounted
  <2>4. Len(handled) <= Cardinality(LineEnds)
    <3>1. CASE phase = "newline"
      <4>1. PICK e \in LineEnds : Len(handled) = LineNumber(e)
        BY <2>2, <3>1 DEF Skipping
      <4>. QED
        BY <2>3, <4>1, FS_Subset DEF LineNumber
    <3>2. CASE phase # "newline"
      <4>1. Len(handled) = Cardinality({q \in LineEnds : q < Start})
        BY <2>2, <3>2 DEF Reading, TypeOK
      <4>. QED
        BY <2>3, <4>1, FS_Subset
    <3>. QED
      BY <3>1, <3>2
  <2>5. ASSUME phase = "done" PROVE Len(handled) = Cardinality(LineEnds)
    <3>1. /\ Len(handled) = Cardinality({q \in LineEnds : q < Start})
          /\ i > len /\ i \in Nat /\ j \in Nat /\ len \in Nat
          /\ \A k \in Start .. i - 1 : filedata[k] # "LF"
      BY <2>2, <2>5, Types DEF Reading, LineByLine
    <3>2. ASSUME NEW q \in LineEnds PROVE q < Start
      BY <3>1 DEF LineEnds, Start
    <3>3. {q \in LineEnds : q < Start} = LineEnds
      BY <3>2
    <3>. QED
      BY <3>1, <3>3
  <2>. QED
    BY <2>2, <2>4, <2>5 DEF LinesInOrder, Faithful
<1>. QED
  BY <1>1, Invariance, PTL

\* The driver never ends on a file with a bare line feed
\* (XEDParseTest.cpp:165-184).
THEOREM EndsOnCrLfOnly == Spec => []EndsOnCrLf
<1>1. ASSUME IInv PROVE EndsOnCrLf
  <2>1. SUFFICES ASSUME phase = "done" PROVE IsCrLf
    BY DEF EndsOnCrLf
  <2>2. CrLfBehind /\ i > len /\ i \in Nat /\ len \in Nat
    BY <1>1, <2>1, Types DEF IInv, Chained, LineByLine
  <2>. QED
    BY <2>2 DEF IsCrLf, CrLfBehind
<1>. QED
  BY <1>1, Invariance, PTL

\* The driver makes calls as AssembleCall allows, so that what Assemble
\* promises holds for it (XEDParseTest.cpp:172-179).
THEOREM ContractKept == Spec => KeepsContract
<1>1. Init => Callee!Init
  BY DEF Init
<1>2. IInv /\ IInv' /\ [Next]_vars => [Callee!Next]_(Callee!vars)
  <2>. SUFFICES ASSUME IInv, IInv', [Next]_vars PROVE [Callee!Next]_(Callee!vars)
    OBVIOUS
  <2>1. /\ phase \in {"scan", "call", "advance", "newline", "done"} /\ (busy <=> phase = "call")
        /\ x64' \in BOOLEAN /\ cip' \in Cips
    BY DEF IInv, Chained, TypeOK
  <2>2. CASE Assemble
    BY <2>2 DEF Assemble, Callee!Next
  <2>3. CASE Assembled
    BY <2>3 DEF Assembled, Callee!Next
  <2>4. CASE BaseLine
    BY <2>1, <2>4 DEF BaseLine, Callee!Next, Callee!Fill
  <2>5. CASE Advance
    BY <2>1, <2>5 DEF Advance, Callee!Next, Callee!Fill
  <2>6. CASE Character \/ SkipNewline \/ NextLine \/ EndOfFile \/ UNCHANGED vars
    BY <2>6 DEF Character, SkipNewline, NextLine, EndOfFile, vars, call, Callee!vars
  <2>. QED
    BY <2>2, <2>3, <2>4, <2>5, <2>6 DEF Next
<1>. QED
  BY <1>1, <1>2, Invariance, PTL DEF Spec, KeepsContract
=============================================================================
