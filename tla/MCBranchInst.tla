---------------------------- MODULE MCBranchInst ----------------------------
(***************************************************************************)
(* BranchInst with a 4-bit byte, a 5-bit word, a 6-bit dword and an 8-bit  *)
(* qword: every 64-bit target is tried from both ends and the middle of    *)
(* the 32-bit and of the 64-bit address space.                             *)
(***************************************************************************)
EXTENDS BranchInst

MCCips == {0, 1, DwordHalf - 1, DwordHalf, 2 * DwordHalf - 2, 2 * DwordHalf - 1,
           2 * DwordHalf + 3, QwordHalf, QwordHalf + 7, 2 * QwordHalf - 1}

MCValues == {-QwordHalf, -1, 3, 2 * WordHalf, QwordHalf - 1}
=============================================================================
