------------------------- MODULE LookupTableProofs -------------------------
(***************************************************************************)
(* Proofs about LookupTable for any number of threads, classes, forms and  *)
(* any order of XED's table, in the DLL build (assumption Dll): the        *)
(* invariant IInv is inductive, so a scan of the table is complete, the    *)
(* published table is never written again, and the whole implements        *)
(* OnceTable.                                                              *)
(***************************************************************************)
EXTENDS LookupTable, FiniteSetTheorems, TLAPS

(***************************************************************************)
(* FormsBelow, the rows of a class among the first m rows.                 *)
(***************************************************************************)

\* No rows: no forms.
LEMMA FormsBelowZero == \A c : FormsBelow(c, 0) = {}
  BY DEF FormsBelow

\* Row m adds itself to its own class and nothing to the others.
LEMMA FormsBelowNext ==
  ASSUME NEW m \in Insts, NEW c
  PROVE  /\ ClassOf[m] = c => FormsBelow(c, m + 1) = FormsBelow(c, m) \union {m}
         /\ ClassOf[m] # c => FormsBelow(c, m + 1) = FormsBelow(c, m)
         /\ m \notin FormsBelow(c, m)
  <1>1. m \in Nat /\ 0 .. (m + 1) - 1 = (0 .. m - 1) \union {m} /\ m \notin 0 .. m - 1
    BY TableAssumption DEF Insts
  <1>2. QED
    BY <1>1 DEF FormsBelow

\* The forms are finitely many, so that they can be counted.
LEMMA FormsBelowFinite ==
  ASSUME NEW m \in Nat, NEW c
  PROVE  IsFiniteSet(FormsBelow(c, m)) /\ Cardinality(FormsBelow(c, m)) \in Nat
  <1>1. IsFiniteSet(0 .. m - 1)
    BY FS_Interval
  <1>2. FormsBelow(c, m) \subseteq 0 .. m - 1
    BY DEF FormsBelow
  <1>3. IsFiniteSet(FormsBelow(c, m))
    BY <1>1, <1>2, FS_Subset
  <1>4. QED
    BY <1>3, FS_CardinalityType

\* The count of a class grows by one when a row of the class is met, and
\* before that it is below the length of the array.
LEMMA FormsBelowCount ==
  ASSUME NEW m \in Insts
  PROVE  LET c == ClassOf[m]
         IN  /\ Cardinality(FormsBelow(c, m + 1)) = Cardinality(FormsBelow(c, m)) + 1
             /\ Cardinality(FormsBelow(c, m)) < MaxForms
  <1> DEFINE c == ClassOf[m]
  <1>1. m \in Nat /\ m + 1 \in Nat /\ c \in IClasses
    BY TableAssumption DEF Insts
  <1>2. Cardinality(FormsBelow(c, m + 1)) = Cardinality(FormsBelow(c, m)) + 1
    <2>1. /\ FormsBelow(c, m + 1) = FormsBelow(c, m) \union {m}
          /\ m \notin FormsBelow(c, m)
      BY FormsBelowNext
    <2>2. IsFiniteSet(FormsBelow(c, m))
      BY <1>1, FormsBelowFinite
    <2>3. QED
      BY ONLY <2>1, <2>2, FS_AddElement
  <1>3. FormsBelow(c, m + 1) \subseteq FormsOf(c)
    <2>1. 0 .. (m + 1) - 1 \subseteq 0 .. NumInsts - 1
      BY TableAssumption DEF Insts
    <2>2. QED
      BY <2>1 DEF FormsBelow, FormsOf
  <1>4. Cardinality(FormsBelow(c, m + 1)) <= Cardinality(FormsOf(c))
    BY <1>3, FS_Subset, FormsBelowFinite, TableAssumption DEF FormsOf
  <1>5. Cardinality(FormsOf(c)) <= MaxForms /\ Cardinality(FormsOf(c)) \in Nat
    BY <1>1, FormsBelowFinite, TableAssumption DEF FormsOf
  <1>6. QED
    BY <1>1, <1>2, <1>4, <1>5, FormsBelowFinite, TableAssumption

(***************************************************************************)
(* The invariant.                                                          *)
(***************************************************************************)

\* What is known of an entry depends on the table alone.
LEMMA FilledFrame ==
  ASSUME UNCHANGED table
  PROVE  \A c, m : Filled(c, m)' <=> Filled(c, m)
  BY DEF Filled, table

LEMMA InitIInv == ASSUME Init PROVE IInv
  <1>1. TypeOK
    <2>1. 0 \in IClasses /\ 0 \in 0 .. MaxForms
      BY TableAssumption DEF IClasses
    <2>2. InstructionCount \in [IClasses -> 0 .. MaxForms]
      BY <2>1 DEF Init
    <2>3. Instructions \in [IClasses -> [0 .. MaxForms - 1 -> Insts \union {NoInst}]]
      BY DEF Init
    <2>4. QED
      BY <2>1, <2>2, <2>3 DEF Init, TypeOK
  <1>2. LoaderInv
    BY TableAssumption DEF Init, LoaderInv, Writing
  <1>3. BuildInv /\ PublishedInv /\ ScanInv /\ ScanIsComplete /\ NeverBreaks
    BY DEF Init, BuildInv, Built, PublishedInv, ScanInv, Scanned, ScanIsComplete, NeverBreaks, Broken
  <1>4. QED
    BY <1>1, <1>2, <1>3 DEF IInv

\* The typing and the roles of the threads survive every step.
LEMMA StepTypeOK == ASSUME IInv, [Next]_vars PROVE TypeOK'
  <1> USE TableAssumption DEF TypeOK, Goto
  <1>0. TypeOK
    BY DEF IInv
  <1>1. CASE UNCHANGED vars
    BY <1>0, <1>1 DEF vars, table, loader, local
  <1>2. ASSUME NEW t \in Threads, Attach(t) PROVE TypeOK'
    BY <1>0, <1>2 DEF Attach, table
  <1>3. ASSUME NEW t \in Threads, NEW c \in IClasses, CallAssemble(t, c) PROVE TypeOK'
    BY <1>0, <1>3 DEF CallAssemble, table, loader
  <1>4. ASSUME NEW t \in Threads, CheckInit(t) PROVE TypeOK'
    BY <1>0, <1>4 DEF CheckInit, table, loader, Writing
  <1>5. ASSUME NEW t \in Threads, Invalidate(t) PROVE TypeOK'
    <2>1. CASE i[t] < NumClasses
      <3>1. InstructionCount' \in [IClasses -> 0 .. MaxForms]
        BY <1>0, <1>5, <2>1 DEF Invalidate
      <3>2. i[t] \in Nat /\ ~(i[t] >= NumClasses)
        BY <1>0, <2>1
      <3>3. i' = [i EXCEPT ![t] = i[t] + 1] /\ UNCHANGED pc
        BY <1>5, <3>2 DEF Invalidate
      <3>4. QED
        BY <1>0, <1>5, <3>1, <3>2, <3>3 DEF Invalidate, loader
    <2>2. CASE ~(i[t] < NumClasses)
      <3>0. i[t] >= NumClasses
        <4>1. i[t] \in Nat /\ NumClasses \in Nat
          BY <1>0
        <4>2. QED
          BY ONLY <2>2, <4>1
      <3>1. /\ i' = [i EXCEPT ![t] = 0] /\ UNCHANGED InstructionCount
            /\ \/ pc' = [pc EXCEPT ![t] = "load"]
               \/ pc' = [pc EXCEPT ![t] = "publish"]
        BY <1>0, <1>5, <2>2, <3>0 DEF Invalidate, NextRow
      <3>2. pc' \in [Threads -> Writing \union {"idle", "check", "return", "scan",
                                               "done", "debugbreak"}]
        BY <1>0, <3>1 DEF Writing
      <3>3. QED
        BY <1>0, <1>5, <3>1, <3>2 DEF Invalidate, loader
    <2>3. QED
      BY ONLY <2>1, <2>2
  <1>6. ASSUME NEW t \in Threads, LoadCount(t) PROVE TypeOK'
    <2>1. InstructionCount[ClassOf[i[t]]] \in Nat
      <3>1. i[t] \in Insts
        BY <1>6 DEF IInv, BuildInv, Built, LoadCount
      <3>2. QED
        BY <1>0, <3>1
    <2>2. QED
      BY <1>0, <1>6, <2>1 DEF LoadCount, table, loader, Writing
  <1>7. ASSUME NEW t \in Threads, StoreCount(t) PROVE TypeOK'
    <2>1. i[t] \in Insts /\ n[t] = Cardinality(FormsBelow(ClassOf[i[t]], i[t]))
      BY <1>7 DEF IInv, BuildInv, Built, StoreCount
    <2>2. n[t] + 1 \in 0 .. MaxForms
      BY <1>0, <2>1, FormsBelowCount
    <2>3. QED
      BY <1>0, <1>7, <2>2 DEF StoreCount, loader, local, Writing
  <1>8. ASSUME NEW t \in Threads, StoreSlot(t) PROVE TypeOK'
    <2>1. i[t] \in Insts /\ i[t] + 1 \in Nat
      BY <1>0, <1>8 DEF IInv, BuildInv, Built, StoreSlot
    <2>2. Instructions' \in [IClasses -> [0 .. MaxForms - 1 -> Insts \union {NoInst}]]
      BY <1>0, <1>8, <2>1 DEF StoreSlot
    <2>3. QED
      BY <1>0, <1>8, <2>1, <2>2 DEF StoreSlot, NextRow, loader, Writing
  <1>9. ASSUME NEW t \in Threads, Publish(t) PROVE TypeOK'
    BY <1>0, <1>9 DEF Publish, table, loader, local
  <1>10. ASSUME NEW t \in Threads, ReturnFromInit(t) PROVE TypeOK'
    <2>1. CASE caller[t] = "DllMain"
      BY <1>0, <1>10, <2>1 DEF ReturnFromInit, table, loader
    <2>2. CASE caller[t] = "assemble"
      <3>1. /\ i' = [i EXCEPT ![t] = 0] /\ seen' = [seen EXCEPT ![t] = {}]
            /\ pc' = [pc EXCEPT ![t] = "scan"] /\ UNCHANGED loader
        BY <1>10, <2>2 DEF ReturnFromInit
      <3>2. QED
        BY <1>0, <1>10, <3>1 DEF ReturnFromInit, table, loader
    <2>3. QED
      BY <1>0, <2>1, <2>2
  <1>11. ASSUME NEW t \in Threads, Scan(t) PROVE TypeOK'
    <2>1. CASE i[t] < InstructionCount[iclass[t]]
      <3>1. Instructions[iclass[t]][i[t]] \in FormsOf(iclass[t])
        <4>1. bInitialized /\ iclass[t] \in IClasses /\ i[t] \in Nat
          BY <1>0, <1>11 DEF IInv, LoaderInv, Scan
        <4>2. Filled(iclass[t], NumInsts)
          BY <4>1 DEF IInv, PublishedInv
        <4>3. i[t] \in 0 .. InstructionCount[iclass[t]] - 1
          BY <1>0, <2>1, <4>1
        <4>4. QED
          BY <4>2, <4>3 DEF Filled, FormsOf
      <3>2. Instructions[iclass[t]][i[t]] \in Insts
        BY <3>1 DEF FormsOf, FormsBelow, Insts
      <3>3. QED
        <4>1. seen' \in [Threads -> SUBSET Insts]
          BY <1>0, <1>11, <2>1, <3>2 DEF Scan
        <4>2. i' = [i EXCEPT ![t] = i[t] + 1] /\ UNCHANGED pc
          BY <1>0, <1>11, <2>1 DEF Scan
        <4>3. QED
          BY <1>0, <1>11, <4>1, <4>2 DEF Scan, table, loader
    <2>2. CASE ~(i[t] < InstructionCount[iclass[t]])
      BY <1>0, <1>11, <2>2 DEF Scan, table, loader
    <2>3. QED
      BY <2>1, <2>2
  <1>12. ASSUME NEW t \in Threads, ReturnFromAssemble(t) PROVE TypeOK'
    BY <1>0, <1>12 DEF ReturnFromAssemble, table, loader, local
  <1>13. QED
    BY <1>1, <1>2, <1>3, <1>4, <1>5, <1>6, <1>7, <1>8, <1>9, <1>10, <1>11, <1>12
       DEF Next, Step, Run

LEMMA StepLoaderInv == ASSUME IInv, Dll, [Next]_vars PROVE LoaderInv'
  <1> USE TableAssumption DEF LoaderInv, Goto, Writing
  <1>0. TypeOK /\ LoaderInv
    BY DEF IInv
  <1> USE <1>0 DEF TypeOK
  <1>1. CASE UNCHANGED vars
    BY <1>1 DEF vars, table, loader, local
  <1>2. ASSUME NEW t \in Threads, Attach(t) PROVE LoaderInv'
    BY <1>2 DEF Attach, table
  <1>3. ASSUME NEW t \in Threads, NEW c \in IClasses, CallAssemble(t, c) PROVE LoaderInv'
    BY <1>3 DEF CallAssemble, table, loader
  <1>4. ASSUME NEW t \in Threads, CheckInit(t) PROVE LoaderInv'
    BY <1>4 DEF CheckInit, table, loader
  <1>5. ASSUME NEW t \in Threads, Invalidate(t) PROVE LoaderInv'
    BY <1>5 DEF Invalidate, NextRow, loader
  <1>6. ASSUME NEW t \in Threads, LoadCount(t), ~(pc[t]' = "debugbreak") PROVE LoaderInv'
    BY <1>6 DEF LoadCount, table, loader
  <1>7. ASSUME NEW t \in Threads, StoreCount(t) PROVE LoaderInv'
    BY <1>7 DEF StoreCount, loader, local
  <1>8. ASSUME NEW t \in Threads, StoreSlot(t) PROVE LoaderInv'
    BY <1>8 DEF StoreSlot, NextRow, loader
  <1>9. ASSUME NEW t \in Threads, Publish(t) PROVE LoaderInv'
    BY <1>9 DEF Publish, table, loader, local
  <1>10. ASSUME NEW t \in Threads, ReturnFromInit(t) PROVE LoaderInv'
    BY <1>10 DEF ReturnFromInit, table, loader
  <1>11. ASSUME NEW t \in Threads, Scan(t) PROVE LoaderInv'
    BY <1>11 DEF Scan, table, loader
  <1>12. ASSUME NEW t \in Threads, ReturnFromAssemble(t) PROVE LoaderInv'
    BY <1>12 DEF ReturnFromAssemble, table, loader, local
  <1>13. ASSUME NEW t \in Threads, LoadCount(t) PROVE ~(pc[t]' = "debugbreak")
    <2>1. i[t] \in Insts /\ Filled(ClassOf[i[t]], i[t])
      BY <1>13 DEF IInv, BuildInv, Built, LoadCount
    <2>2. InstructionCount[ClassOf[i[t]]] < MaxForms
      BY <2>1, FormsBelowCount DEF Filled
    <2>3. QED
      BY <1>13, <2>1, <2>2 DEF LoadCount
  <1>14. QED
    BY <1>1, <1>2, <1>3, <1>4, <1>5, <1>6, <1>7, <1>8, <1>9, <1>10, <1>11, <1>12, <1>13
       DEF Next, Step, Run

\* A step that leaves the table and a thread's registers alone leaves what is
\* known of that thread's progress alone.
LEMMA BuiltFrame ==
  ASSUME NEW t \in Threads, Built(t), UNCHANGED table,
         pc'[t] = pc[t], i'[t] = i[t], n'[t] = n[t]
  PROVE  Built(t)'
  <1>1. \A c, m : Filled(c, m)' <=> Filled(c, m)
    BY FilledFrame
  <1>2. UNCHANGED <<InstructionCount, Instructions>>
    BY DEF table
  <1>3. QED
    BY <1>1, <1>2 DEF Built

\* A thread outside of the building loops is not bound by Built.
LEMMA BuiltElsewhere ==
  ASSUME NEW t \in Threads, pc[t] \notin Writing
  PROVE  Built(t)
  BY DEF Built, Writing

\* Filling one slot of an entry whose count has already been raised.
LEMMA StoreFills ==
  ASSUME IInv, NEW t \in Threads, StoreSlot(t)
  PROVE  \A c \in IClasses : Filled(c, i[t])'
  <1> DEFINE c0 == ClassOf[i[t]]
  <1> USE TableAssumption
  <1>1. /\ i[t] \in Insts /\ c0 \in IClasses
        /\ n[t] = Cardinality(FormsBelow(c0, i[t])) /\ n[t] \in 0 .. MaxForms - 1
        /\ {Instructions[c0][k] : k \in 0 .. n[t] - 1} = FormsBelow(c0, i[t])
        /\ InstructionCount[c0] = n[t] + 1
        /\ \A c \in IClasses \ {c0} : Filled(c, i[t])
    <2>1. Built(t) /\ pc[t] = "slot" /\ n[t] \in Nat
      BY DEF IInv, BuildInv, StoreSlot, TypeOK
    <2>2. i[t] \in Insts /\ n[t] = Cardinality(FormsBelow(c0, i[t]))
      BY <2>1 DEF Built
    <2>3. n[t] < MaxForms
      BY <2>2, FormsBelowCount
    <2>4. QED
      BY <2>1, <2>2, <2>3 DEF Built
  <1>2. /\ UNCHANGED InstructionCount /\ i'[t] = i[t] + 1
        /\ Instructions' = [Instructions EXCEPT ![c0] = [@ EXCEPT ![n[t]] = i[t]]]
        /\ Instructions \in [IClasses -> [0 .. MaxForms - 1 -> Insts \union {NoInst}]]
    BY DEF StoreSlot, NextRow, IInv, TypeOK
  <1>3. ASSUME NEW c \in IClasses \ {c0} PROVE Filled(c, i[t])'
    <2>1. Instructions'[c] = Instructions[c] /\ InstructionCount'[c] = InstructionCount[c]
      BY <1>1, <1>2
    <2>2. FormsBelow(c, i[t] + 1) = FormsBelow(c, i[t])
      BY <1>1, FormsBelowNext
    <2>3. Filled(c, i[t])
      BY <1>1
    <2>4. /\ InstructionCount'[c] = Cardinality(FormsBelow(c, i[t] + 1))
          /\ {Instructions'[c][k] : k \in 0 .. InstructionCount'[c] - 1}
                = FormsBelow(c, i[t] + 1)
      BY <2>1, <2>2, <2>3 DEF Filled
    <2>5. QED
      BY <1>2, <2>4 DEF Filled
  <1>4. ASSUME NEW c \in IClasses, c = c0 PROVE Filled(c, i[t])'
    <2>1. InstructionCount'[c0] = Cardinality(FormsBelow(c0, i[t] + 1))
      BY <1>1, <1>2, FormsBelowCount
    <2>2. /\ \A k \in 0 .. n[t] - 1 : Instructions'[c0][k] = Instructions[c0][k]
          /\ Instructions'[c0][n[t]] = i[t]
      BY <1>1, <1>2
    <2>3. 0 .. InstructionCount'[c0] - 1 = (0 .. n[t] - 1) \union {n[t]}
      BY <1>1, <1>2
    <2>4. {Instructions'[c0][k] : k \in 0 .. InstructionCount'[c0] - 1}
            = FormsBelow(c0, i[t]) \union {i[t]}
      BY <1>1, <2>2, <2>3
    <2>5. FormsBelow(c0, i[t] + 1) = FormsBelow(c0, i[t]) \union {i[t]}
      BY <1>1, FormsBelowNext
    <2>6. QED
      BY <1>2, <1>4, <2>1, <2>4, <2>5 DEF Filled
  <1>5. QED
    BY <1>3, <1>4

\* The progress of the building thread, whoever takes the step.
LEMMA StepBuildInv == ASSUME IInv, Dll, [Next]_vars PROVE BuildInv'
  <1> USE TableAssumption
  <1>0. TypeOK /\ LoaderInv /\ BuildInv /\ TypeOK' /\ LoaderInv'
    BY StepTypeOK, StepLoaderInv DEF IInv
  <1>1. CASE UNCHANGED vars
    BY <1>0, <1>1, BuiltFrame DEF BuildInv, vars, local
  <1>2. ASSUME NEW t \in Threads, Step(t), NEW s \in Threads \ {t} PROVE Built(s)'
    <2>1. pc'[s] = pc[s] /\ i'[s] = i[s] /\ n'[s] = n[s]
      BY <1>0, <1>2
      DEF Step, Run, Attach, CallAssemble, CheckInit, Invalidate, LoadCount, StoreCount,
          StoreSlot, Publish, ReturnFromInit, Scan, ReturnFromAssemble, Goto, NextRow,
          local, TypeOK
    <2>2. CASE UNCHANGED table
      BY <1>0, <2>1, <2>2, BuiltFrame DEF BuildInv
    <2>3. CASE ~UNCHANGED table
      <3>1. pc[t] \in Writing
        BY <1>2, <2>3
        DEF Step, Run, Attach, CallAssemble, CheckInit, Invalidate, LoadCount, StoreCount,
            StoreSlot, Publish, ReturnFromInit, Scan, ReturnFromAssemble, Writing
      <3>2. pc'[s] \notin Writing
        BY <1>0, <2>1, <3>1 DEF LoaderInv
      <3>3. QED
        BY <3>2 DEF Built, Writing
    <2>4. QED
      BY <2>2, <2>3
  <1>3. ASSUME NEW t \in Threads, Step(t) PROVE Built(t)'
    <2>1. CASE pc'[t] \notin Writing
      BY <2>1 DEF Built, Writing
    <2>2. CASE CheckInit(t)
      <3>1. \/ pc'[t] = "return"
            \/ pc'[t] = "invalidate" /\ i'[t] = 0
        BY <1>0, <2>2 DEF CheckInit, Goto, TypeOK
      <3>2. \A c \in IClasses : ~(c < 0)
        BY DEF IClasses
      <3>3. QED
        BY <3>1, <3>2 DEF Built
    <2>3. CASE Invalidate(t)
      <3> USE <1>0, <2>3 DEF TypeOK
      <3>1. i[t] <= NumClasses /\ \A c \in IClasses : c < i[t] => InstructionCount[c] = 0
        BY DEF BuildInv, Built, Invalidate
      <3>2. CASE i[t] < NumClasses
        <4>1. /\ InstructionCount' = [InstructionCount EXCEPT ![i[t]] = 0]
              /\ i'[t] = i[t] + 1 /\ pc'[t] = "invalidate"
          BY <3>2 DEF Invalidate
        <4>2. \A c \in IClasses : c < i[t] + 1 => c < i[t] \/ c = i[t]
          BY DEF IClasses
        <4>3. \A c \in IClasses : c < i[t] + 1 => InstructionCount'[c] = 0
          BY <3>1, <4>1, <4>2
        <4>4. QED
          BY <3>2, <4>1, <4>3 DEF Built
      <3>3. CASE i[t] >= NumClasses
        <4>1. UNCHANGED InstructionCount /\ i'[t] = 0
          BY <3>3 DEF Invalidate, NextRow
        <4>2. pc'[t] = IF 0 < NumInsts THEN "load" ELSE "publish"
          BY <3>3 DEF Invalidate, NextRow, Goto
        <4>3. \A c \in IClasses : InstructionCount'[c] = 0
          BY <3>1, <3>3, <4>1 DEF IClasses
        <4>4. \A c \in IClasses : Filled(c, 0)'
          <5>1. \A c \in IClasses : {Instructions'[c][k] : k \in 0 .. InstructionCount'[c] - 1} = {}
            BY <4>3
          <5>2. QED
            BY <4>3, <5>1, FormsBelowZero, FS_EmptySet DEF Filled
        <4>5. CASE 0 < NumInsts
          <5>1. pc'[t] = "load" /\ 0 \in Insts
            BY <4>2, <4>5 DEF Insts
          <5>2. \A c \in IClasses : Filled(c, i[t])'
            BY <4>1, <4>4 DEF Filled
          <5>3. ClassOf[i'[t]] \in IClasses
            BY <4>1, <5>1
          <5>4. QED
            BY <4>1, <5>1, <5>2, <5>3 DEF Built
        <4>6. CASE ~(0 < NumInsts)
          <5>1. pc'[t] = "publish" /\ NumInsts = 0
            BY <4>2, <4>6
          <5>2. QED
            BY <4>4, <5>1 DEF Built
        <4>7. QED
          BY <4>5, <4>6
      <3>4. QED
        BY <3>2, <3>3
    <2>4. CASE LoadCount(t)
      <3>1. /\ UNCHANGED table /\ i'[t] = i[t] /\ pc[t] = "load"
            /\ n'[t] = InstructionCount[ClassOf[i[t]]]
            /\ pc'[t] = "count" \/ pc'[t] = "debugbreak"
        BY <1>0, <2>4 DEF LoadCount, Goto, TypeOK
      <3>2. /\ i[t] \in Insts /\ Filled(ClassOf[i[t]], i[t])
            /\ \A c \in IClasses \ {ClassOf[i[t]]} : Filled(c, i[t])
        BY <1>0, <3>1 DEF BuildInv, Built
      <3>3. \A c : Filled(c, i[t])' <=> Filled(c, i[t])
        BY <3>1 DEF Filled, table
      <3>4. UNCHANGED <<InstructionCount, Instructions>>
        BY <3>1 DEF table
      <3>5. /\ n'[t] = Cardinality(FormsBelow(ClassOf[i[t]], i[t]))
            /\ {Instructions[ClassOf[i[t]]][k] : k \in 0 .. n'[t] - 1}
                   = FormsBelow(ClassOf[i[t]], i[t])
        BY <3>1, <3>2 DEF Filled
      <3>6. QED
        BY <3>1, <3>2, <3>3, <3>4, <3>5 DEF Built
    <2>5. CASE StoreCount(t)
      <3>1. /\ InstructionCount' = [InstructionCount EXCEPT ![ClassOf[i[t]]] = n[t] + 1]
            /\ UNCHANGED <<Instructions, i, n>>
            /\ pc[t] = "count" /\ pc'[t] = "slot"
        BY <1>0, <2>5 DEF StoreCount, Goto, local, TypeOK
      <3>2. Built(t) /\ i[t] \in Insts /\ ClassOf[i[t]] \in IClasses
        BY <1>0, <3>1 DEF BuildInv, Built
      <3>3. \A c \in IClasses \ {ClassOf[i[t]]} : Filled(c, i[t])'
        <4>1. \A c \in IClasses \ {ClassOf[i[t]]} : InstructionCount'[c] = InstructionCount[c]
          BY <1>0, <3>1 DEF TypeOK
        <4>2. QED
          BY <3>1, <3>2, <4>1 DEF Built, Filled
      <3>4. InstructionCount'[ClassOf[i[t]]] = n[t] + 1
        BY <1>0, <3>1, <3>2 DEF TypeOK
      <3>5. QED
        BY <3>1, <3>2, <3>3, <3>4 DEF Built
    <2>6. CASE StoreSlot(t)
      <3>1. \A c \in IClasses : Filled(c, i[t])'
        BY <2>6, StoreFills DEF IInv
      <3>2. /\ i'[t] = i[t] + 1 /\ i[t] \in Insts
            /\ pc'[t] = IF i[t] + 1 < NumInsts THEN "load" ELSE "publish"
        BY <1>0, <2>6 DEF StoreSlot, NextRow, Goto, TypeOK, BuildInv, Built
      <3>3. CASE i[t] + 1 < NumInsts
        <4>1. i'[t] \in Insts /\ ClassOf[i'[t]] \in IClasses /\ pc'[t] = "load"
          BY <3>2, <3>3 DEF Insts
        <4>2. QED
          BY <3>1, <4>1 DEF Built
      <3>4. CASE ~(i[t] + 1 < NumInsts)
        <4>1. i'[t] = NumInsts /\ pc'[t] = "publish"
          BY <3>2, <3>4 DEF Insts
        <4>2. \A c \in IClasses : Filled(c, NumInsts)'
          BY <3>1, <4>1 DEF Filled
        <4>3. QED
          BY <4>1, <4>2 DEF Built
      <3>5. QED
        BY <3>3, <3>4
    <2>7. QED
      BY <1>0, <1>3, <2>1, <2>2, <2>3, <2>4, <2>5, <2>6
      DEF Step, Run, Attach, CallAssemble, Publish, ReturnFromInit, Scan,
          ReturnFromAssemble, Goto, Writing, TypeOK
  <1>4. QED
    BY <1>1, <1>2, <1>3 DEF Next, BuildInv

\* Only the thread that builds writes the table, and it does so before the
\* table is published.
LEMMA WritesAreEarly ==
  ASSUME IInv, Dll, [Next]_vars, ~UNCHANGED table
  PROVE  ~bInitialized /\ ~bInitialized'
  <1>1. PICK t \in Threads : Invalidate(t) \/ StoreCount(t) \/ StoreSlot(t)
    BY DEF Next, Step, Run, vars, Attach, CallAssemble, CheckInit, LoadCount, Publish,
           ReturnFromInit, Scan, ReturnFromAssemble
  <1>2. pc[t] \in Writing /\ UNCHANGED bInitialized
    BY <1>1 DEF Invalidate, StoreCount, StoreSlot, Writing
  <1>3. QED
    BY <1>2 DEF IInv, LoaderInv

LEMMA StepPublishedInv == ASSUME IInv, Dll, [Next]_vars PROVE PublishedInv'
  <1>1. CASE ~UNCHANGED table
    BY <1>1, WritesAreEarly DEF PublishedInv
  <1>2. CASE UNCHANGED table
    <2>1. \A c : Filled(c, NumInsts)' <=> Filled(c, NumInsts)
      BY <1>2 DEF Filled, table
    <2>2. CASE UNCHANGED bInitialized
      BY <2>1, <2>2 DEF PublishedInv, IInv
    <2>3. CASE \E t \in Threads : Publish(t)
      <3>1. \A c \in IClasses : Filled(c, NumInsts)
        BY <2>3 DEF IInv, BuildInv, Built, Publish
      <3>2. QED
        BY <2>1, <3>1 DEF PublishedInv
    <2>4. QED
      BY <2>2, <2>3 DEF Next, Step, Run, vars, Attach, CallAssemble, CheckInit, Invalidate,
         LoadCount, StoreCount, StoreSlot, ReturnFromInit, Scan, ReturnFromAssemble
  <1>3. QED
    BY <1>1, <1>2

\* A scan that has come to the end of a full entry has met all of its forms.
LEMMA FullScan ==
  ASSUME IInv, NEW t \in Threads, pc[t] = "scan",
         ~(i[t] < InstructionCount[iclass[t]])
  PROVE  seen[t] = FormsOf(iclass[t])
  <1>1. bInitialized /\ iclass[t] \in IClasses /\ InstructionCount[iclass[t]] \in Nat
        /\ i[t] \in Nat
    BY TableAssumption DEF IInv, LoaderInv, TypeOK
  <1>2. Filled(iclass[t], NumInsts)
    BY <1>1 DEF IInv, PublishedInv
  <1>3. /\ i[t] <= InstructionCount[iclass[t]]
        /\ seen[t] = {Instructions[iclass[t]][k] : k \in 0 .. i[t] - 1}
    BY DEF IInv, ScanInv, Scanned
  <1>4. i[t] = InstructionCount[iclass[t]]
    BY <1>1, <1>3
  <1>5. QED
    BY <1>2, <1>3, <1>4 DEF Filled, FormsOf

LEMMA StepScanInv == ASSUME IInv, Dll, [Next]_vars PROVE ScanInv' /\ ScanIsComplete'
  <1>0. /\ TypeOK /\ LoaderInv /\ ScanInv /\ ScanIsComplete /\ TypeOK' /\ LoaderInv'
    BY StepTypeOK, StepLoaderInv DEF IInv
  <1>1. CASE ~UNCHANGED table
    <2>1. ~bInitialized'
      BY <1>1, WritesAreEarly
    <2>2. \A t \in Threads : pc'[t] # "scan" /\ pc'[t] # "done"
      BY <1>0, <2>1 DEF LoaderInv
    <2>3. QED
      BY <2>2 DEF ScanInv, Scanned, ScanIsComplete
  <1>2. CASE UNCHANGED table
    <2>0. UNCHANGED <<InstructionCount, Instructions>>
      BY <1>2 DEF table
    <2>1. CASE UNCHANGED vars
      BY <1>0, <2>0, <2>1 DEF ScanInv, Scanned, ScanIsComplete, vars, local
    <2>2. ASSUME NEW t \in Threads, Step(t), NEW s \in Threads \ {t}
          PROVE  Scanned(s)' /\ (pc'[s] = "done" => seen'[s] = FormsOf(iclass'[s]))
      <3>1. pc'[s] = pc[s] /\ i'[s] = i[s] /\ seen'[s] = seen[s] /\ iclass'[s] = iclass[s]
        BY <1>0, <2>2
        DEF Step, Run, Attach, CallAssemble, CheckInit, Invalidate, LoadCount, StoreCount,
            StoreSlot, Publish, ReturnFromInit, Scan, ReturnFromAssemble, Goto, NextRow,
            local, TypeOK
      <3>2. QED
        BY <1>0, <2>0, <3>1 DEF ScanInv, Scanned, ScanIsComplete
    <2>3. ASSUME NEW t \in Threads, Step(t)
          PROVE  Scanned(t)' /\ (pc'[t] = "done" => seen'[t] = FormsOf(iclass'[t]))
      <3> DEFINE e == iclass[t]
      <3>1. CASE ReturnFromInit(t)
        <4>1. \/ pc'[t] = "idle"
              \/ pc'[t] = "scan" /\ i'[t] = 0 /\ seen'[t] = {}
          BY <1>0, <3>1 DEF ReturnFromInit, Goto, TypeOK
        <4>2. InstructionCount'[iclass'[t]] \in Nat
          BY <1>0, TableAssumption DEF TypeOK
        <4>3. QED
          BY <4>1, <4>2 DEF Scanned
      <3>2. CASE Scan(t) /\ i[t] < InstructionCount[e]
        <4>1. /\ i[t] \in Nat /\ InstructionCount[e] \in Nat /\ pc[t] = "scan"
          BY <1>0, <3>2, TableAssumption DEF TypeOK, Scan
        <4>2. /\ i'[t] = i[t] + 1 /\ UNCHANGED <<pc, iclass>>
              /\ seen'[t] = seen[t] \union {Instructions[e][i[t]]}
          BY <1>0, <3>2, <4>1 DEF TypeOK, Scan
        <4>3. seen[t] = {Instructions[e][k] : k \in 0 .. i[t] - 1}
          BY <1>0, <4>1 DEF ScanInv, Scanned
        <4>4. 0 .. i[t] + 1 - 1 = (0 .. i[t] - 1) \union {i[t]}
          BY <4>1
        <4>5. seen'[t] = {Instructions[e][k] : k \in 0 .. i'[t] - 1}
          BY <4>2, <4>3, <4>4
        <4>6. i'[t] <= InstructionCount[e] /\ pc'[t] = "scan"
          BY <3>2, <4>1, <4>2
        <4>7. QED
          BY <2>0, <4>2, <4>5, <4>6 DEF Scanned
      <3>3. CASE Scan(t) /\ ~(i[t] < InstructionCount[e])
        <4>1. pc[t] = "scan" /\ UNCHANGED <<iclass, seen>> /\ pc'[t] = "done"
          BY <1>0, <3>3 DEF Scan, Goto, TypeOK
        <4>2. seen[t] = FormsOf(e)
          BY <3>3, <4>1, FullScan
        <4>3. QED
          BY <4>1, <4>2 DEF Scanned
      <3>4. QED
        BY <1>0, <2>3, <3>1, <3>2, <3>3
        DEF Step, Run, Attach, CallAssemble, CheckInit, Invalidate, LoadCount, StoreCount,
            StoreSlot, Publish, ReturnFromAssemble, Goto, NextRow, local, TypeOK, Scanned
    <2>4. QED
      BY <2>1, <2>2, <2>3 DEF Next, ScanInv, ScanIsComplete
  <1>3. QED
    BY <1>1, <1>2

\* The __debugbreak is out of reach: a class never has more forms than slots.
LEMMA StepNeverBreaks == ASSUME IInv, Dll, [Next]_vars PROVE NeverBreaks'
  <1>1. ASSUME NEW t \in Threads PROVE pc'[t] # "debugbreak"
    <2>1. CASE \E s \in Threads : LoadCount(s)
      <3>1. PICK s \in Threads : LoadCount(s)
        BY <2>1
      <3>2. i[s] \in Insts /\ Filled(ClassOf[i[s]], i[s])
        BY <3>1 DEF IInv, BuildInv, Built, LoadCount
      <3>3. ~(InstructionCount[ClassOf[i[s]]] >= MaxForms)
        BY <3>2, FormsBelowCount, FormsBelowFinite, TableAssumption DEF Filled, Insts
      <3>4. pc' = [pc EXCEPT ![s] = "count"]
        BY <3>1, <3>3 DEF LoadCount, Goto
      <3>5. QED
        BY <3>4 DEF IInv, TypeOK, NeverBreaks, Broken
    <2>2. CASE ~\E s \in Threads : LoadCount(s)
      <3>. DEFINE Safe == Writing \union {"idle", "check", "return", "scan", "done"}
      <3>0. pc \in [Threads -> Safe \union {"debugbreak"}] /\ pc[t] # "debugbreak"
        BY DEF IInv, TypeOK, NeverBreaks, Broken
      <3>1. UNCHANGED pc \/ \E s \in Threads, l \in Safe : pc' = [pc EXCEPT ![s] = l]
        <4>1. CASE UNCHANGED vars
          BY <4>1 DEF vars
        <4>2. CASE \E s \in Threads : Attach(s) \/ CheckInit(s) \/ Publish(s) \/ ReturnFromInit(s)
                                        \/ ReturnFromAssemble(s)
          BY <4>2 DEF Attach, CheckInit, Publish, ReturnFromInit, ReturnFromAssemble, Goto, Writing
        <4>3. CASE \E s \in Threads : StoreCount(s) \/ StoreSlot(s) \/ Invalidate(s) \/ Scan(s)
          BY <4>3 DEF StoreCount, StoreSlot, Invalidate, Scan, Goto, NextRow, Writing
        <4>4. CASE \E s \in Threads, c \in IClasses : CallAssemble(s, c)
          BY <4>4 DEF CallAssemble, Goto
        <4>5. QED
          BY <2>2, <4>1, <4>2, <4>3, <4>4 DEF Next, Step, Run
      <3>2. QED
        BY <3>0, <3>1 DEF Writing
    <2>3. QED
      BY <2>1, <2>2
  <1>2. QED
    BY <1>1 DEF NeverBreaks, Broken

LEMMA StepIInv == ASSUME IInv, Dll, [Next]_vars PROVE IInv'
  BY StepTypeOK, StepLoaderInv, StepBuildInv, StepPublishedInv, StepScanInv,
     StepNeverBreaks DEF IInv

(***************************************************************************)
(* The theorems.                                                           *)
(***************************************************************************)

\* In the DLL build IInv holds in every state.
THEOREM Invariance == ASSUME Dll PROVE Spec => []IInv
  <1>1. Init => IInv
    BY InitIInv
  <1>2. IInv /\ [Next]_vars => IInv'
    BY StepIInv
  <1>3. QED
    BY <1>1, <1>2, PTL DEF Spec

\* In the DLL build every variable keeps its type: no count exceeds the array
\* of an entry and no index leaves it.
THEOREM TypeCorrect == ASSUME Dll PROVE Spec => []TypeOK
  <1>1. IInv => TypeOK
    BY DEF IInv
  <1>2. QED
    BY <1>1, Invariance, PTL

\* In the DLL build a call of XEDParseAssemble that has looked up its class
\* has seen all of the forms XED lists for it, however many threads call.
THEOREM ScansAreComplete == ASSUME Dll PROVE Spec => []ScanIsComplete
  <1>1. IInv => ScanIsComplete
    BY DEF IInv
  <1>2. QED
    BY <1>1, Invariance, PTL

\* In the DLL build the __debugbreak of Validator.cpp:572 is never executed.
THEOREM NoBreak == ASSUME Dll PROVE Spec => []NeverBreaks
  <1>1. IInv => NeverBreaks
    BY DEF IInv
  <1>2. QED
    BY <1>1, Invariance, PTL

\* In the DLL build the published table is never written again.
THEOREM Frozen == ASSUME Dll PROVE Spec => FrozenOncePublished
  <1>1. IInv /\ [Next]_vars => [bInitialized => UNCHANGED table]_vars
    BY WritesAreEarly
  <1>2. QED
    BY <1>1, Invariance, PTL DEF Spec, FrozenOncePublished

\* In the DLL build the table is OnceTable: published once, and every answer
\* the threads get is the full set of forms.
THEOREM Refinement == ASSUME Dll PROVE Spec => ImplementsOnceTable
  <1>1. Init => Once!Init
    BY DEF Init, Once!Init
  <1>2. IInv /\ [Next]_vars => [Once!Next]_Once!vars
    <2> SUFFICES ASSUME IInv, [Next]_vars PROVE [Once!Next]_Once!vars
      OBVIOUS
    <2> DEFINE Held == [t \in Threads |-> IF pc[t] = "done" THEN <<iclass[t], seen[t]>>
                                                           ELSE <<>>]
               Full == [c \in IClasses |-> FormsOf(c)]
    <2>0. TypeOK /\ DOMAIN Full = IClasses
      BY DEF IInv
    <2>1. CASE UNCHANGED vars
      BY <2>1 DEF vars, local, Once!vars
    <2>2. ASSUME NEW t \in Threads, Publish(t) PROVE Once!Publish
      <3>1. ~bInitialized /\ bInitialized' = TRUE
        BY <2>2 DEF IInv, LoaderInv, Publish, Writing
      <3>2. Held' = Held
        BY <2>0, <2>2 DEF Publish, Goto, local, TypeOK
      <3>3. QED
        BY <3>1, <3>2 DEF Once!Publish
    <2>3. ASSUME NEW t \in Threads, Scan(t), ~(i[t] < InstructionCount[iclass[t]])
          PROVE  \E c \in DOMAIN Full : Once!Answer(t, c)
      <3>1. /\ pc[t] = "scan" /\ pc' = [pc EXCEPT ![t] = "done"]
            /\ UNCHANGED <<bInitialized, iclass, seen>> /\ iclass[t] \in IClasses
        BY <2>0, <2>3 DEF Scan, Goto, TypeOK
      <3>2. seen[t] = Full[iclass[t]] /\ bInitialized
        BY <2>3, <3>1, FullScan DEF IInv, LoaderInv
      <3>3. Held' = [Held EXCEPT ![t] = <<iclass[t], Full[iclass[t]]>>]
        BY <2>0, <3>1, <3>2 DEF TypeOK
      <3>4. QED
        BY <2>0, <3>1, <3>2, <3>3 DEF Once!Answer
    <2>4. ASSUME NEW t \in Threads, ReturnFromAssemble(t) PROVE Once!Leave(t)
      <3>1. Held' = [Held EXCEPT ![t] = <<>>]
        BY <2>0, <2>4 DEF ReturnFromAssemble, Goto, local, TypeOK
      <3>2. QED
        BY <2>4, <3>1 DEF Once!Leave, ReturnFromAssemble
    <2>5. ASSUME NEW t \in Threads, Step(t), ~Publish(t), ~ReturnFromAssemble(t),
                 ~(Scan(t) /\ ~(i[t] < InstructionCount[iclass[t]]))
          PROVE  UNCHANGED Once!vars
      <3>1. UNCHANGED bInitialized
        BY <2>5 DEF Step, Run, Attach, CallAssemble, CheckInit, Invalidate, LoadCount,
           StoreCount, StoreSlot, ReturnFromInit, Scan
      <3>2. ASSUME NEW s \in Threads
            PROVE  /\ (pc'[s] = "done") = (pc[s] = "done")
                   /\ pc[s] = "done" => iclass'[s] = iclass[s] /\ seen'[s] = seen[s]
        BY <2>0, <2>5 DEF Step, Run, Attach, CallAssemble, CheckInit, Invalidate, LoadCount,
           StoreCount, StoreSlot, ReturnFromInit, Scan, Goto, NextRow, local, TypeOK
      <3>3. Held' = Held
        BY <3>2
      <3>4. QED
        BY <3>1, <3>3 DEF Once!vars
    <2>6. QED
      BY <2>1, <2>2, <2>3, <2>4, <2>5 DEF Next, Step, Run, Once!Next
  <1>3. QED
    BY <1>1, <1>2, Invariance, PTL DEF Spec, ImplementsOnceTable, Once!Spec
=============================================================================
