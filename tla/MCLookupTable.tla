--------------------------- MODULE MCLookupTable ---------------------------
(***************************************************************************)
(* Small instance of LookupTable: two classes, one of which has two forms  *)
(* that another class's form separates in XED's table.                     *)
(***************************************************************************)
EXTENDS LookupTable, TLC

MCClassOf == 0 :> 0 @@ 1 :> 1 @@ 2 :> 0
=============================================================================
