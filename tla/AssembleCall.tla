---------------------------- MODULE AssembleCall ----------------------------
(***************************************************************************)
(* What the caller of XEDParseAssemble relies on, with no word about how   *)
(* an instruction is assembled: the block is the caller's between calls    *)
(* and is not touched in its mode and its instruction pointer by a call,   *)
(* every call for a text with no more operands than the parser has room    *)
(* for returns, and one that returns XEDPARSE_OK has written at least one  *)
(* byte and no more than an instruction can have.  A call that returns     *)
(* XEDPARSE_ERROR leaves any length: the one of an earlier call, for it    *)
(* is not cleared, or one of its own tries.                                *)
(***************************************************************************)
EXTENDS Naturals

CONSTANTS MaxLength,   \* XED_MAX_INSTRUCTION_BYTES
          Cips         \* 64-bit values

VARIABLES x64, cip,            \* XEDPARSE: what the caller sets
          fits,                \* ... a text with as many operands as Inst has, at most
          dest_size, result,   \* what the call leaves
          busy,                \* the call is being made
          alive                \* the process runs

vars == <<x64, cip, fits, dest_size, result, busy, alive>>

Init == /\ x64 \in BOOLEAN /\ cip \in Cips /\ fits \in BOOLEAN
        /\ dest_size = 0 /\ result = "none" /\ busy = FALSE /\ alive = TRUE

Fill ==
    /\ alive /\ ~busy
    /\ x64' \in BOOLEAN /\ cip' \in Cips /\ fits' \in BOOLEAN
    /\ UNCHANGED <<dest_size, result, busy>> /\ alive' = alive

\* The caller may fill in the block first.  The length stays there.
Call ==
    /\ alive /\ ~busy
    /\ x64' \in BOOLEAN /\ cip' \in Cips /\ fits' \in BOOLEAN
    /\ busy' = TRUE /\ result' = "none"
    /\ dest_size' = dest_size /\ alive' = alive

\* While the call is being made the length is its own to write.
Work ==
    /\ busy
    /\ dest_size' \in 0 .. MaxLength
    /\ UNCHANGED <<x64, cip, result, busy>> /\ fits' = fits /\ alive' = alive

Return ==
    /\ busy
    /\ busy' = FALSE
    /\ \/ result' = "OK" /\ dest_size' \in 1 .. MaxLength
       \/ result' = "ERROR" /\ dest_size' \in 0 .. MaxLength
    /\ UNCHANGED <<x64, cip>> /\ fits' = fits /\ alive' = alive

\* More operands than there is room for may take the process down.
Stop ==
    /\ busy /\ ~fits
    /\ busy' = FALSE /\ alive' = FALSE
    /\ UNCHANGED <<x64, cip, fits, dest_size, result>>

Next == Fill \/ Call \/ Work \/ Return \/ Stop

Spec == Init /\ [][Next]_vars /\ WF_vars(Return)
=============================================================================
