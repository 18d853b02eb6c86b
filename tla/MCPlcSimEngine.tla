-------------------------- MODULE MCPlcSimEngine --------------------------
(***************************************************************************)
(* A line of two blanks whose finished bin holds two and whose reject bin  *)
(* holds one item, every second item inspected, and six commands: start,   *)
(* an inspection bound to a control revision, the acknowledgement of the   *)
(* tool-limit alarm, new settings, clear_bins, and reset.                  *)
(***************************************************************************)
EXTENDS PlcSimEngine, TLC

Symmetry == Permutations(Ids) \cup Permutations(Requests)

Command(name) ==
    [name |-> name, mode |-> "", paused |-> "nil", target |-> 0, toolLimit |-> 0, inspectInterval |-> 0,
     alarm |-> "", expectedRevision |-> 0]

MCBodies ==
    {Command("start"), [Command("inspect") EXCEPT !.expectedRevision = 2],
     [Command("acknowledge_alarm") EXCEPT !.alarm = "TOOL_LIMIT"],
     [Command("update_settings") EXCEPT !.target = 1, !.toolLimit = 2, !.inspectInterval = 1],
     Command("clear_bins"), Command("reset")}
=============================================================================
