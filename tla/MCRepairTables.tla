--------------------------- MODULE MCRepairTables ---------------------------
(* Two runs over a list of two tables. *)
EXTENDS RepairTables, TLC

CONSTANTS x, y, a, b

MCTables  == <<x, y>>
=============================================================================
