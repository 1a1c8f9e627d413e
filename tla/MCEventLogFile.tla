--------------------------- MODULE MCEventLogFile ---------------------------
(* Small instances of EventLogFile for TLC.                                *)
EXTENDS EventLogFile

CONSTANTS collector, request

OneHandle  == {collector}
TwoHandles == {collector, request}
=============================================================================
