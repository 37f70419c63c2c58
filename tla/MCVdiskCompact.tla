--------------------------- MODULE MCVdiskCompact ---------------------------
(* Groups of one and two VDisks, two workers, and the modes of one and three *)
(* operations; a VDisk that is given twice, a run that does not wait, a dry  *)
(* run.                                                                      *)
EXTENDS VdiskCompact

CONSTANTS v1, v2, v3

Wait(groups, mode) == [groups |-> groups, mode |-> mode, wait |-> TRUE, dryRun |-> FALSE]

MCInputs ==
  {Wait(<<<<v1, v2>>>>, "compact-full"),
   Wait(<<<<v1>>, <<v2>>, <<v3>>>>, "compact-logoblobs"),
   Wait(<<<<v1, v2>>, <<v3>>>>, "defrag"),
   Wait(<<<<v1, v1, v2>>>>, "compact-barriers"),
   [Wait(<<<<v1, v2>>, <<v3>>>>, "compact-blocks") EXCEPT !.wait = FALSE],
   [Wait(<<<<v1, v2>>, <<v3>>>>, "compact-full") EXCEPT !.dryRun = TRUE]}

=============================================================================
