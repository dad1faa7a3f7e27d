----------------------------- MODULE Mnemonics -----------------------------
(***************************************************************************)
(* The names of instructions (MnemonicTable.cpp, MnemonicTable.h): from    *)
(* the mnemonic of the text to the name of XED's class.  A name is a       *)
(* sequence of parts, such as <<"movs", "d">> or <<"cmov", "nae">>; the    *)
(* parts are cut so that the prefixes the code looks for are parts.        *)
(***************************************************************************)
EXTENDS Integers, Sequences

\* MnemonicTranslateXmmAlias, for an operand that is an XMM register.
XmmAlias(m) ==
    CASE m = <<"cmps", "d">> -> <<"cmps", "d", "_xmm">>
      [] m = <<"movs", "d">> -> <<"movs", "d", "_xmm">>
      [] m = <<"pextrw">>    -> <<"pextrw", "_sse4">>
      [] OTHER               -> m

\* The special cases of one register operand, of this kind.
RegisterAlias(m, kind) ==
    CASE m = <<"mov">> /\ kind = "control" -> <<"mov", "_cr">>
      [] m = <<"mov">> /\ kind = "debug"   -> <<"mov", "_dr">>
      [] kind = "xmm"                      -> XmmAlias(m)
      [] OTHER                             -> m

FarAlias(m) == IF m \in {<<"call">>, <<"jmp">>, <<"ret">>} THEN Append(m, "_far") ELSE m

SaveFlags(m, is64) ==
    IF m \in {<<"pushf">>, <<"popf">>} THEN Append(m, IF is64 THEN "q" ELSE "d") ELSE m

\* Parts with one of _, X and x in them.
Conflicting == {"x", "xd", "_xmm", "_sse4", "_cr", "_dr", "_far"}

StringStems == {"ins", "outs", "movs", "cmps", "stos", "lods", "scas"}

HasImplicitOperands(m) ==
    /\ m # <<>> /\ m[1] \in StringStems
    /\ \A k \in 1 .. Len(m) : m[k] \notin Conflicting

-----------------------------------------------------------------------------
(* XedMnemonicTable: the alias of a condition after j, cmov and set.  A    *)
(* condition that has none is its own.                                     *)

Jumps(cc) ==
    CASE cc \in {"nae", "c"} -> "b"
      [] cc \in {"ae", "nc"} -> "nb"
      [] cc = "e"   -> "z"
      [] cc = "ne"  -> "nz"
      [] cc = "na"  -> "be"
      [] cc = "a"   -> "nbe"
      [] cc = "pe"  -> "p"
      [] cc = "po"  -> "np"
      [] cc = "nge" -> "l"
      [] cc = "ge"  -> "nl"
      [] cc = "ng"  -> "le"
      [] cc = "g"   -> "nle"
      [] OTHER      -> cc

\* Variant of JumpCondition with the entry that cmov and set have for nge.
JumpConditionOfSet(cc) == IF cc = "nge" THEN "le" ELSE Jumps(cc)

JumpCondition(cc) == Jumps(cc)

MoveCondition(cc) == CASE cc = "ae"  -> "b"
                       [] cc = "nae" -> "nb"
                       [] cc = "nge" -> "le"
                       [] OTHER      -> Jumps(cc)

SetCondition(cc) == CASE cc = "nae" -> "nb"
                      [] cc = "ae"  -> "b"
                      [] cc = "po"  -> "p"
                      [] cc = "nge" -> "le"
                      [] OTHER      -> Jumps(cc)

\* The entries of the table that are no condition.
OtherAlias(m) ==
    CASE m = <<"sal">>                            -> <<"shl">>
      [] m = <<"retf">>                           -> <<"ret", "_far">>
      [] m \in {<<"ret">>, <<"retn">>, <<"retn", "_far">>} -> <<"ret", "_near">>
      [] m = <<"call">>                           -> <<"call", "_near">>
      [] m = <<"callf">>                          -> <<"call", "_far">>
      [] m = <<"jmpf">>                           -> <<"jmp", "_far">>
      [] m \in {<<"pushf">>, <<"popf">>, <<"pusha">>, <<"popa">>} -> Append(m, "d")
      [] m \in {<<"j", "cxz">>, <<"j", "ecxz">>}  -> <<"j", "rcxz">>
      [] m = <<"loopz">>                          -> <<"loope">>
      [] m = <<"loopnz">>                         -> <<"loopne">>
      [] m = <<"movabs">>                         -> <<"mov">>
      [] m = <<"wait">>                           -> <<"mwait">>
      [] m = <<"xlatb">>                          -> <<"xlat">>
      [] m = <<"icebp">>                          -> <<"int1">>
      [] m \in {<<"f", s>> : s \in {"stenv", "stcw", "clex", "init", "save", "stsw"}}
                                                  -> <<"f", "n", m[2]>>
      [] OTHER                                    -> m

MnemonicToXed(m) ==
    CASE Len(m) = 2 /\ m[1] = "j"    -> OtherAlias(<<"j", JumpCondition(m[2])>>)
      [] Len(m) = 2 /\ m[1] = "cmov" -> <<"cmov", MoveCondition(m[2])>>
      [] Len(m) = 2 /\ m[1] = "set"  -> <<"set", SetCondition(m[2])>>
      [] OTHER                       -> OtherAlias(m)

-----------------------------------------------------------------------------

\* The condition codes of XED's classes.
Conditions == {"o", "no", "b", "nb", "z", "nz", "be", "nbe",
               "s", "ns", "p", "np", "l", "nl", "le", "nle"}

\* The classes of XED, of the names met here.
XedClasses ==
    {<<c, cc>> : c \in {"j", "cmov", "set"}, cc \in Conditions}
    \union {<<c, s>> : c \in {"movs", "cmps", "stos", "lods", "scas"}, s \in {"b", "w", "d", "q"}}
    \union {<<c, s>> : c \in {"ins", "outs"}, s \in {"b", "w", "d"}}
    \union {<<"movs", "s">>, <<"movs", "x">>, <<"movs", "xd">>, <<"ins", "ertps">>, <<"cmps", "s">>,
            <<"movs", "d", "_xmm">>, <<"cmps", "d", "_xmm">>, <<"pextrw">>, <<"pextrw", "_sse4">>,
            <<"mov">>, <<"mov", "_cr">>, <<"mov", "_dr">>, <<"jmp">>, <<"j", "rcxz">>,
            <<"jmp", "_far">>, <<"call", "_near">>, <<"call", "_far">>, <<"ret", "_near">>,
            <<"ret", "_far">>, <<"pushf", "d">>, <<"pushf", "q">>, <<"popf", "d">>, <<"popf", "q">>}

\* str2xed_iclass_enum_t finds a class.
IsClass(m) == m \in XedClasses
=============================================================================
