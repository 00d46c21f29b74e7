---------------------------- MODULE MCScanCycle ----------------------------
(* Small instances of ScanCycle: the scheduled scan and a manual one, one or  *)
(* two control requests at a time, two symbols.                               *)
EXTENDS ScanCycle

=============================================================================
