------------------------------ MODULE MCParser ------------------------------
(***************************************************************************)
(* Parser on texts of five kinds: all short sequences of separators,       *)
(* modifiers, a prefix and words; all pairs of operands of the mnemonics   *)
(* that depend on them, and up to eight operands; all conditions; all      *)
(* short numbers; all selectors that are pairs of some numbers; and a      *)
(* modifier put anywhere in some texts.                                    *)
(***************************************************************************)
EXTENDS Parser

Pieces == {" ", "tab", ",", "near", "far", "rep", "call", "sym"}

ShortTexts == UNION {[1 .. n -> Pieces] : n \in 0 .. 5}

OperandTokens == {<<r>> : r \in DOMAIN Registers \ {"es"}} \union {<<b>> : b \in DOMAIN Brackets}
                 \union {<<"es", ":", "[esi]">>}

Named == {<<"mov">>, <<"movs", "d">>, <<"movs", "b">>, <<"movs", "s">>, <<"movs", "x">>,
          <<"cmps", "d">>, <<"pextrw">>, <<"ins", "ertps">>, <<"lods", "q">>}

TwoOperandTexts == {m \o <<" ">> \o a \o <<",", " ">> \o b :
                        m \in Named, a \in OperandTokens, b \in OperandTokens}

Repeated(word, n) == FlattenSeq([k \in 1 .. n |-> IF k = 1 THEN word ELSE <<",">> \o word])

LongTexts == {m \o <<" ">> \o Repeated(w, n) :
                  m \in {<<"movs", "d">>, <<"rep", " ", "mov">>}, w \in {<<"xmm0">>, <<"1">>},
                  n \in 1 .. 8}

AllConditions == Conditions \union {"nae", "c", "ae", "nc", "e", "ne", "na", "a", "pe", "po",
                                    "nge", "ge", "ng", "g"}

ConditionTexts == {<<c, cc, " ", "eax">> : c \in {"j", "cmov", "set"}, cc \in AllConditions}
                  \union {<<c, w, cc, " ", "eax">> : c \in {"j", "set"}, w \in {"near", "short"}, cc \in {"z", "nae"}}
                  \union {<<c, "d", "_xmm", " ", "[esi]">> : c \in {"movs", "cmps"}}
                  \union {<<m>> : m \in {"pushf", "popf", "ret", "retn", "retf", "sal"}}
                  \union {<<"j", "cxz", " ", "1">>}

NumberTexts == {<<"jmp", " ">> \o s :
                    s \in UNION {[1 .. n -> {"-", "0", "x", ".", "b", "o", "1", "9"}] : n \in 1 .. 4}}

SomeNumbers == {<<"0">>, <<"9">>, <<"b">>, <<".", "1", "1">>, <<"1", "0">>, <<"-", "9">>,
                <<"-", "1", "0">>, <<"1", "0", "0">>, <<"-", "1", "0", "0">>, <<>>, <<"sym">>}

SelectorTexts == {<<"jmp", " ", "far", " ">> \o a \o <<":">> \o b : a \in SomeNumbers, b \in SomeNumbers}

ModifiedTexts == {InsertAt(s, k, w) : k \in 1 .. 5, w \in {"near", "far", "short"},
                      s \in {<<"rep", " ", "movs", "b", " ", "[esi]">>, <<"jmp", " ", "sy", "far", "m">>,
                             <<"ret", " ", " ", "9", " ">>}}

MCTexts == ShortTexts \union TwoOperandTexts \union LongTexts \union ConditionTexts
           \union NumberTexts \union SelectorTexts \union ModifiedTexts
=============================================================================
