----------------------------- MODULE MCAssemble -----------------------------
(***************************************************************************)
(* Assemble on a small machine: a 32-bit value is -4 .. 3, a 64-bit one    *)
(* -16 .. 15, an instruction has at most two bytes.  From the instruction  *)
(* pointer 9 the addresses lie 8, 7 and 6 back and 5 ahead: at the limit   *)
(* of the mask, past it for one length and not the other, and in reach;    *)
(* from 30 they lie across the wrap of the address space or out of reach.  *)
(* Two slots and texts of up to three operands: the loops meet one operand *)
(* or two, and one operand too many.                                       *)
(***************************************************************************)
EXTENDS Assemble

MCCips == {9, 30}
MCAddresses == {1, 2, 3, 14}
=============================================================================
