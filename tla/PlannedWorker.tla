--------------------------- MODULE PlannedWorker ---------------------------
(***************************************************************************)
(* A PLC worker together with the point table it is built from             *)
(* (plcworker.New): the worker runs on a plan buildPlan made, executes     *)
(* commands on points Validate accepted, and writes what numericWords      *)
(* encodes.  The invariants tie what the worker relies on to the code that *)
(* provides it.                                                            *)
(***************************************************************************)
EXTENDS PlcWorker, PointTable

\* A worker starts on a sound plan, however its readable points are laid out
\* (overlaps, gaps, the end of the address space): no request exceeds what FC03
\* carries or wraps around, the requests together read exactly the configured
\* words, and the request that decides a point's value holds its whole span, so
\* that a two-word value is never put together from two answers (buildPlan,
\* newReadBatch, goodValues).
PlanIsSound == pc = "start" => PlansAreSound

\* When a command is confirmed, what it wrote reads back as a value that is
\* accepted and writes the same words again: an integer as itself, a float32
\* point's number as the float32 next to it, so as itself exactly when a float32
\* has that value.  So does whatever else a register holds; only the float32
\* patterns that are no finite number are refused (numericWords,
\* decodePointValue, ValidateValue).
ValuesRoundTrip == scan.why = "confirm" => EncodingsRoundTrip
=============================================================================
