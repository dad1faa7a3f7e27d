---------------------------- MODULE LookupTable ----------------------------
(***************************************************************************)
(* XedInstLookupTable, the process-wide table that maps an instruction     *)
(* class to all of its forms (Validator.cpp), its lazy initialisation by   *)
(* LookupTableInit, and the threads that call XEDParseAssemble and scan    *)
(* it.  Each action is one access to shared memory, so the model contains  *)
(* every interleaving of the plain loads and stores of the code.           *)
(*                                                                         *)
(* Dll selects the build.  With Dll the library is a DLL: DllMain runs     *)
(* LookupTableInit under the loader lock, and no thread can call           *)
(* XEDParseAssemble before the first DllMain has returned.  Without it     *)
(* (XEDPARSE_STATIC) there is no DllMain and the first calls of            *)
(* XEDParseAssemble initialise the table, with nothing to order them.      *)
(*                                                                         *)
(* The fields IClass and MinimumOperands of an entry are left out: their   *)
(* only reader is commented out (Validator.cpp:416).                       *)
(***************************************************************************)
EXTENDS Naturals, FiniteSets

CONSTANTS Threads,
          NoThread,     \* "nobody holds the loader lock"
          NumClasses,   \* XED_ICLASS_LAST
          NumInsts,     \* XED_MAX_INST_TABLE_NODES
          ClassOf,      \* xed_inst_iclass of every row of xed_inst_table_base()
          MaxForms,     \* length of the array IClassType::Instructions (32)
          NoInst,       \* content of an array slot never written
          Dll           \* TRUE: built as a DLL; FALSE: XEDPARSE_STATIC

IClasses == 0 .. NumClasses - 1
Insts    == 0 .. NumInsts - 1

\* The rows of the first m rows of XED's table that belong to class c.
FormsBelow(c, m) == {j \in 0 .. m - 1 : ClassOf[j] = c}

FormsOf(c) == FormsBelow(c, NumInsts)

ASSUME TableAssumption ==
    /\ NumClasses \in Nat \ {0}
    /\ NumInsts \in Nat
    /\ MaxForms \in Nat
    /\ ClassOf \in [Insts -> IClasses]
    /\ \A c \in IClasses : Cardinality(FormsOf(c)) <= MaxForms
    /\ NoThread \notin Threads
    /\ Dll \in BOOLEAN

VARIABLES
    bInitialized,      \* the function-local static flag of LookupTableInit
    InstructionCount,  \* the count field of every entry
    Instructions,      \* the array field of every entry
    loaderLock,        \* the thread that runs DllMain, or NoThread
    loaded,            \* LoadLibrary has returned: the exports can be called
    pc,                \* where each thread is
    caller,            \* who called LookupTableInit: "DllMain" or "assemble"
    iclass,            \* class the running call of XEDParseAssemble looks up
    i,                 \* the thread's loop index
    n,                 \* the count the thread has loaded into a register
    seen               \* forms the thread's scan has met so far

table  == <<InstructionCount, Instructions>>
loader == <<loaderLock, loaded>>
local  == <<caller, iclass, i, n, seen>>
vars   == <<bInitialized, table, loader, pc, local>>

\* Locations inside the loops of LookupTableInit, which write the table.
Writing == {"invalidate", "load", "count", "slot", "publish"}

Goto(t, l) == pc' = [pc EXCEPT ![t] = l]

\* Variant of NextRow whose loop misses the last row.
NextRowShort(t, k) ==
    /\ Goto(t, IF k < NumInsts - 1 THEN "load" ELSE "publish")
    /\ i' = [i EXCEPT ![t] = k]

\* Leaving the first loop, or an iteration of the second one, with index k.
NextRow(t, k) ==
    /\ Goto(t, IF k < NumInsts THEN "load" ELSE "publish")
    /\ i' = [i EXCEPT ![t] = k]

-----------------------------------------------------------------------------

Init ==
    /\ bInitialized = FALSE
    /\ InstructionCount = [c \in IClasses |-> 0]
    /\ Instructions = [c \in IClasses |-> [k \in 0 .. MaxForms - 1 |-> NoInst]]
    /\ loaderLock = NoThread
    /\ loaded = FALSE
    /\ pc = [t \in Threads |-> "idle"]
    /\ caller = [t \in Threads |-> "assemble"]
    /\ iclass = [t \in Threads |-> 0]
    /\ i = [t \in Threads |-> 0]
    /\ n = [t \in Threads |-> 0]
    /\ seen = [t \in Threads |-> {}]

\* The loader calls DllMain on a process or thread attach, one call at a time.
Attach(t) ==
    /\ Dll
    /\ pc[t] = "idle"
    /\ loaderLock = NoThread
    /\ loaderLock' = t
    /\ caller' = [caller EXCEPT ![t] = "DllMain"]
    /\ Goto(t, "check")
    /\ UNCHANGED <<bInitialized, table, loaded, iclass, i, n, seen>>

\* A thread calls XEDParseAssemble on an instruction of class c, whose first
\* step is LookupTableInit.
CallAssemble(t, c) ==
    /\ Dll => loaded
    /\ pc[t] = "idle"
    /\ caller' = [caller EXCEPT ![t] = "assemble"]
    /\ iclass' = [iclass EXCEPT ![t] = c]
    /\ Goto(t, "check")
    /\ UNCHANGED <<bInitialized, table, loader, i, n, seen>>

\* Variant of CheckInit that ignores the flag.
CheckInitNoFlag(t) ==
    /\ pc[t] = "check"
    /\ i' = [i EXCEPT ![t] = 0]
    /\ Goto(t, "invalidate")
    /\ UNCHANGED <<bInitialized, table, loader, caller, iclass, n, seen>>

\* if(bInitialized) return;
CheckInit(t) ==
    /\ pc[t] = "check"
    /\ i' = [i EXCEPT ![t] = 0]
    /\ Goto(t, IF bInitialized THEN "return" ELSE "invalidate")
    /\ UNCHANGED <<bInitialized, table, loader, caller, iclass, n, seen>>

\* One iteration of the loop that empties every entry, or its exit.
Invalidate(t) ==
    /\ pc[t] = "invalidate"
    /\ \/ /\ i[t] < NumClasses
          /\ InstructionCount' = [InstructionCount EXCEPT ![i[t]] = 0]
          /\ i' = [i EXCEPT ![t] = @ + 1]
          /\ UNCHANGED pc
       \/ /\ i[t] >= NumClasses
          /\ NextRow(t, 0)
          /\ UNCHANGED InstructionCount
    /\ UNCHANGED <<bInitialized, Instructions, loader, caller, iclass, n, seen>>

\* Variant of LoadCount that breaks one form too early.
LoadCountTight(t) ==
    /\ pc[t] = "load"
    /\ LET c == InstructionCount[ClassOf[i[t]]]
       IN  /\ n' = [n EXCEPT ![t] = c]
           /\ Goto(t, IF c + 1 >= MaxForms THEN "debugbreak" ELSE "count")
    /\ UNCHANGED <<bInitialized, table, loader, caller, iclass, i, seen>>

\* if(type->InstructionCount >= 32) __debugbreak();  else the count is kept in
\* a register for the store below.
LoadCount(t) ==
    /\ pc[t] = "load"
    /\ LET c == InstructionCount[ClassOf[i[t]]]
       IN  /\ n' = [n EXCEPT ![t] = c]
           /\ Goto(t, IF c >= MaxForms THEN "debugbreak" ELSE "count")
    /\ UNCHANGED <<bInitialized, table, loader, caller, iclass, i, seen>>

\* type->Instructions[type->InstructionCount++] = inst;  as its two stores.
StoreCount(t) ==
    /\ pc[t] = "count"
    /\ InstructionCount' = [InstructionCount EXCEPT ![ClassOf[i[t]]] = n[t] + 1]
    /\ Goto(t, "slot")
    /\ UNCHANGED <<bInitialized, Instructions, loader, local>>

StoreSlot(t) ==
    /\ pc[t] = "slot"
    /\ Instructions' = [Instructions EXCEPT ![ClassOf[i[t]]][n[t]] = i[t]]
    /\ NextRow(t, i[t] + 1)
    /\ UNCHANGED <<bInitialized, InstructionCount, loader, caller, iclass, n, seen>>

\* bInitialized = true;
Publish(t) ==
    /\ pc[t] = "publish"
    /\ bInitialized' = TRUE
    /\ Goto(t, "return")
    /\ UNCHANGED <<table, loader, local>>

\* LookupTableInit returns: to the loader, or to XEDParseAssemble, which goes
\* on to parse the text and then scans the entry of the class.
ReturnFromInit(t) ==
    /\ pc[t] = "return"
    /\ \/ /\ caller[t] = "DllMain"
          /\ loaderLock' = NoThread
          /\ loaded' = TRUE
          /\ Goto(t, "idle")
          /\ UNCHANGED <<i, seen>>
       \/ /\ caller[t] = "assemble"
          /\ i' = [i EXCEPT ![t] = 0]
          /\ seen' = [seen EXCEPT ![t] = {}]
          /\ Goto(t, "scan")
          /\ UNCHANGED loader
    /\ UNCHANGED <<bInitialized, table, caller, iclass, n>>

\* Variant of Scan that reads one slot past the count.
ScanInclusive(t) ==
    /\ pc[t] = "scan"
    /\ \/ /\ i[t] <= InstructionCount[iclass[t]]
          /\ seen' = [seen EXCEPT ![t] = @ \union {Instructions[iclass[t]][i[t]]}]
          /\ i' = [i EXCEPT ![t] = @ + 1]
          /\ UNCHANGED pc
       \/ /\ i[t] > InstructionCount[iclass[t]]
          /\ Goto(t, "done")
          /\ UNCHANGED <<i, seen>>
    /\ UNCHANGED <<bInitialized, table, loader, caller, iclass, n>>

\* Variant of Scan that never advances its index.
ScanStuck(t) ==
    /\ pc[t] = "scan"
    /\ \/ /\ i[t] < InstructionCount[iclass[t]]
          /\ seen' = [seen EXCEPT ![t] = @ \union {Instructions[iclass[t]][i[t]]}]
          /\ UNCHANGED <<pc, i>>
       \/ /\ i[t] >= InstructionCount[iclass[t]]
          /\ Goto(t, "done")
          /\ UNCHANGED <<i, seen>>
    /\ UNCHANGED <<bInitialized, table, loader, caller, iclass, n>>

\* One iteration of  for(i = 0; i < type->InstructionCount; i++)  in the
\* validator, or its exit.
Scan(t) ==
    /\ pc[t] = "scan"
    /\ \/ /\ i[t] < InstructionCount[iclass[t]]
          /\ seen' = [seen EXCEPT ![t] = @ \union {Instructions[iclass[t]][i[t]]}]
          /\ i' = [i EXCEPT ![t] = @ + 1]
          /\ UNCHANGED pc
       \/ /\ i[t] >= InstructionCount[iclass[t]]
          /\ Goto(t, "done")
          /\ UNCHANGED <<i, seen>>
    /\ UNCHANGED <<bInitialized, table, loader, caller, iclass, n>>

\* XEDParseAssemble returns to its caller.
ReturnFromAssemble(t) ==
    /\ pc[t] = "done"
    /\ Goto(t, "idle")
    /\ UNCHANGED <<bInitialized, table, loader, local>>

-----------------------------------------------------------------------------

\* A thread's own instructions, as opposed to the calls others make it run.
Run(t) ==
    \/ CheckInit(t) \/ Invalidate(t) \/ LoadCount(t) \/ StoreCount(t)
    \/ StoreSlot(t) \/ Publish(t) \/ ReturnFromInit(t)
    \/ Scan(t) \/ ReturnFromAssemble(t)

Step(t) == Attach(t) \/ (\E c \in IClasses : CallAssemble(t, c)) \/ Run(t)

\* __debugbreak raises an exception no handler of the library catches: the
\* process stops.
Broken == \E t \in Threads : pc[t] = "debugbreak"

Next == ~Broken /\ \E t \in Threads : Step(t)

Spec == Init /\ [][Next]_vars

\* The operating system schedules every runnable thread.
FairSpec == Spec /\ \A t \in Threads : WF_vars(~Broken /\ Run(t))

-----------------------------------------------------------------------------

TypeOK ==
    /\ bInitialized \in BOOLEAN
    /\ InstructionCount \in [IClasses -> 0 .. MaxForms]
    /\ Instructions \in [IClasses -> [0 .. MaxForms - 1 -> Insts \union {NoInst}]]
    /\ loaderLock \in Threads \union {NoThread}
    /\ loaded \in BOOLEAN
    /\ pc \in [Threads -> Writing \union {"idle", "check", "return", "scan", "done",
                                          "debugbreak"}]
    /\ caller \in [Threads -> {"DllMain", "assemble"}]
    /\ iclass \in [Threads -> IClasses]
    /\ i \in [Threads -> Nat]
    /\ n \in [Threads -> Nat]
    /\ seen \in [Threads -> SUBSET Insts]

\* Class c's entry holds exactly the forms among the first m rows.
Filled(c, m) ==
    /\ InstructionCount[c] = Cardinality(FormsBelow(c, m))
    /\ {Instructions[c][k] : k \in 0 .. InstructionCount[c] - 1} = FormsBelow(c, m)

\* Who may be where: the loader lock belongs to the thread inside DllMain, only
\* that thread builds, and everyone else comes after the table was published.
LoaderInv ==
    /\ \A t \in Threads :
          /\ loaderLock = t <=> /\ caller[t] = "DllMain"
                               /\ pc[t] \in Writing \union {"check", "return"}
          /\ pc[t] \in Writing => loaderLock = t /\ ~bInitialized
          /\ pc[t] = "check" /\ caller[t] = "assemble" => bInitialized
          /\ pc[t] \in {"return", "scan", "done"} => bInitialized
    /\ loaded => bInitialized

\* How far the building thread is, and what the table holds at that point.
Built(t) ==
    LET c0 == ClassOf[i[t]]
    IN  /\ pc[t] = "invalidate" =>
              /\ i[t] <= NumClasses
              /\ \A c \in IClasses : c < i[t] => InstructionCount[c] = 0
        /\ pc[t] \in {"load", "count", "slot"} =>
              /\ i[t] \in Insts
              /\ \A c \in IClasses \ {c0} : Filled(c, i[t])
        /\ pc[t] \in {"load", "count"} => Filled(c0, i[t])
        /\ pc[t] \in {"count", "slot"} =>
              /\ n[t] = Cardinality(FormsBelow(c0, i[t]))
              /\ {Instructions[c0][k] : k \in 0 .. n[t] - 1} = FormsBelow(c0, i[t])
        /\ pc[t] = "slot" => InstructionCount[c0] = n[t] + 1
        /\ pc[t] = "publish" => \A c \in IClasses : Filled(c, NumInsts)

BuildInv == \A t \in Threads : Built(t)

PublishedInv == bInitialized => \A c \in IClasses : Filled(c, NumInsts)

\* A scan has met the slots below its index, and stays inside the entry.
Scanned(t) ==
    pc[t] = "scan" => /\ i[t] <= InstructionCount[iclass[t]]
                      /\ seen[t] = {Instructions[iclass[t]][k] : k \in 0 .. i[t] - 1}

ScanInv == \A t \in Threads : Scanned(t)

\* Every call of XEDParseAssemble that has scanned an entry has met exactly
\* the forms XED lists for the class: no half-built entry, no missing form.
ScanIsComplete ==
    \A t \in Threads : pc[t] = "done" => seen[t] = FormsOf(iclass[t])

\* The form limit of an entry is never hit, although it equals the number of
\* forms of the largest class (the __debugbreak of Validator.cpp:572).
NeverBreaks == ~Broken

\* The inductive invariant of the DLL build: it explains why the table is
\* complete when it is published and why nobody builds it a second time.
IInv ==
    /\ TypeOK /\ LoaderInv /\ BuildInv /\ PublishedInv /\ ScanInv
    /\ ScanIsComplete /\ NeverBreaks

\* Once one thread has published the table, no thread writes it again
\* ("Initialize all of the tables only once", XEDParse.cpp:23).
FrozenOncePublished == [][bInitialized => UNCHANGED table]_vars

\* Every call of the library comes to its end (the loader lock is no obstacle
\* to a call in progress, and neither loop runs away).
CallsReturn == \A t \in Threads : (pc[t] # "idle") ~> (pc[t] = "idle")

\* The table implements the one-shot table of OnceTable.
Once == INSTANCE OnceTable WITH
            Forms  <- [c \in IClasses |-> FormsOf(c)],
            ready  <- bInitialized,
            answer <- [t \in Threads |-> IF pc[t] = "done"
                                         THEN <<iclass[t], seen[t]>> ELSE <<>>]

ImplementsOnceTable == Once!Spec
=============================================================================
