------------------------------- MODULE OpSize -------------------------------
(***************************************************************************)
(* OPSIZE (OpSize.h, OpSize.cpp): the sizes that a register has, or that   *)
(* the text gives memory, in bits and as XED's effective operand size.     *)
(***************************************************************************)
EXTENDS Integers

Sizes == {"UNSET", "BYTE", "WORD", "DWORD", "FWORD", "QWORD", "TBYTE", "DQWORD",
          "XMMWORD", "YMMWORD", "ZMMWORD", "32_64"}

OpsizeToBits(size) ==
    CASE size = "BYTE"    -> 8
      [] size = "WORD"    -> 16
      [] size = "DWORD"   -> 32
      [] size = "FWORD"   -> 48
      [] size = "QWORD"   -> 64
      [] size = "TBYTE"   -> 80
      [] size = "DQWORD"  -> 128
      [] size = "XMMWORD" -> 128
      [] size = "YMMWORD" -> 256
      [] size = "ZMMWORD" -> 512
      [] OTHER            -> 0

OpsizeFromInt(bytes) ==
    CASE bytes = 1  -> "BYTE"
      [] bytes = 2  -> "WORD"
      [] bytes = 4  -> "DWORD"
      [] bytes = 6  -> "FWORD"
      [] bytes = 8  -> "QWORD"
      [] bytes = 10 -> "TBYTE"
      [] bytes = 16 -> "XMMWORD"
      [] bytes = 32 -> "YMMWORD"
      [] bytes = 64 -> "ZMMWORD"
      [] OTHER      -> "UNSET"

OpsizeFromBits(bits) == OpsizeFromInt(bits \div 8)

OpsizeToEosz(size) ==
    CASE size = "WORD"  -> 1
      [] size = "DWORD" -> 2
      [] size = "QWORD" -> 3
      [] OTHER          -> 0

\* The operand size of the mode.
EOSZ_64_32(Is64) == IF Is64 THEN 3 ELSE 2
=============================================================================
