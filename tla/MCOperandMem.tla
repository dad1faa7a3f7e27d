---------------------------- MODULE MCOperandMem ----------------------------
(***************************************************************************)
(* OperandMem on a small machine: a byte is -2 .. 1, 32 bits are -4 .. 3   *)
(* and 64 bits -16 .. 15.  The values lie on both sides of the sign of a   *)
(* byte and of 32 bits, and -3 is one of them.  Four pieces hold a base, a *)
(* scaled index and a displacement in every order.  A prefix has a segment *)
(* or none, and a size whose operand size is no mode's, or none.           *)
(***************************************************************************)
EXTENDS OperandMem

MCRegs == {"ECX", "ESP", "RIP"}
MCStackRegs == {"ESP"}
MCSegRegs == {"DS", "SS", "FS"}
MCWordRegs == {"AX"}
MCPrefixSizes == {"WORD"}
MCValues == {1, 3, 6, 29}
MCCips == {2, 20}
=============================================================================
