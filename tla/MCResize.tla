------------------------------ MODULE MCResize ------------------------------
(***************************************************************************)
(* Resize on a machine with a byte of 2 bits, a word of 3, a dword of 4    *)
(* and a qword of 7.  The rows are all sequences of up to three forms of a *)
(* family, a family being forms that real classes mix: widths written as   *)
(* numbers are fixed, V and Z follow the operand size, 752 and 864 bits    *)
(* are the areas of FNSAVE and FXSAVE, and a width of 0 is memory that is  *)
(* only an address.  Memory has every size, and the operand size that its  *)
(* prefix gives it.                                                        *)
(***************************************************************************)
EXTENDS Resize

Fixed(bits) == [e \in 0 .. 3 |-> bits]
WidthV == [e \in 0 .. 3 |-> CASE e = 1 -> 16 [] e = 2 -> 32 [] e = 3 -> 64 [] OTHER -> 0]
WidthZ == [e \in 0 .. 3 |-> CASE e = 1 -> 16 [] e \in {2, 3} -> 32 [] OTHER -> 0]

None == [kind |-> "none", width |-> Fixed(0)]
Imm(w) == [kind |-> "imm", width |-> w]
Mem(w) == [kind |-> "mem", width |-> w]
Reg(w) == [kind |-> "reg", width |-> w]
Form(a, b) == [op0 |-> a, op1 |-> b]

ImmFamily == {Form(Imm(Fixed(8)), None), Form(Imm(WidthZ), None), Form(Mem(WidthV), None)}
MemFamily == {Form(Mem(Fixed(w)), None) : w \in {0, 32, 64, 752, 864}}
RegImmFamily == {Form(Reg(Fixed(8)), Imm(Fixed(8))), Form(Reg(WidthV), Imm(Fixed(8))),
                 Form(Reg(WidthV), Imm(WidthZ)), Form(Reg(WidthV), Imm(WidthV))}
RegMemFamily == {Form(Reg(WidthV), Mem(WidthV)), Form(Reg(WidthV), Mem(Fixed(8))),
                 Form(Mem(WidthV), Reg(WidthV)), Form(Mem(Fixed(32)), Reg(Fixed(80)))}
MemImmFamily == {Form(Mem(Fixed(8)), Imm(Fixed(8))), Form(Mem(WidthV), Imm(Fixed(8))),
                 Form(Mem(WidthV), Imm(WidthZ))}

RowsOf(n) == UNION {[1 .. n -> F] : F \in {ImmFamily, MemFamily, RegImmFamily, RegMemFamily,
                                           MemImmFamily}}

MCRows == RowsOf(0) \union RowsOf(1) \union RowsOf(2) \union RowsOf(3)

\* On both sides of the sign of a byte, of 32 bits and of 64 bits.
MCValues == {1, 2, 8, 14, 24, 31, 126}
=============================================================================
