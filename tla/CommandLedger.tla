--------------------------- MODULE CommandLedger ---------------------------
(***************************************************************************)
(* What the command pipeline of block-agent promises about one commandId,  *)
(* whoever submits it, how often, and whatever crashes meanwhile: it is    *)
(* bound once to one content, takes effect at most once, gets exactly one  *)
(* final outcome with exactly one row in the operation and audit history,  *)
(* and nobody is ever told another outcome than that one.                  *)
(***************************************************************************)
EXTENDS Naturals

CONSTANTS
    Ids,      \* commandIds
    Bodies,   \* command contents, as told apart by their fingerprints
    NoBody

VARIABLES
    status,   \* the outcome on record
    body,     \* the content a commandId is bound to
    rows,     \* number of operation and audit rows
    applied,  \* how often the command took effect on the device
    told      \* the outcomes callers have been told

vars == <<status, body, rows, applied, told>>

Terminal == {"EXECUTED", "REJECTED", "FAILED", "UNKNOWN"}

Init ==
    /\ status = [i \in Ids |-> "none"]
    /\ body = [i \in Ids |-> NoBody]
    /\ rows = [i \in Ids |-> 0]
    /\ applied = [i \in Ids |-> 0]
    /\ told = [i \in Ids |-> {}]

\* A commandId is bound to its content.
Bind(i, b) ==
    /\ status[i] = "none"
    /\ status' = [status EXCEPT ![i] = "PENDING"]
    /\ body' = [body EXCEPT ![i] = b]
    /\ UNCHANGED <<rows, applied, told>>

\* The command takes effect: only while its outcome is open or was left unknown.
Apply(i) ==
    /\ status[i] \in {"PENDING", "UNKNOWN"}
    /\ applied[i] = 0
    /\ applied' = [applied EXCEPT ![i] = 1]
    /\ UNCHANGED <<status, body, rows, told>>

\* The outcome goes on record, once, with its history rows; its caller may be told in
\* the same step.  EXECUTED only after the effect, REJECTED only without one.
Settle(i, outcome) ==
    /\ status[i] = "PENDING"
    /\ outcome = "EXECUTED" => applied[i] = 1
    /\ outcome = "REJECTED" => applied[i] = 0
    /\ status' = [status EXCEPT ![i] = outcome]
    /\ rows' = [rows EXCEPT ![i] = @ + 1]
    /\ told' \in {told, [told EXCEPT ![i] = @ \cup {outcome}]}
    /\ UNCHANGED <<body, applied>>

\* A caller is told what is on record.
Tell(i) ==
    /\ status[i] \in Terminal
    /\ told' = [told EXCEPT ![i] = @ \cup {status[i]}]
    /\ UNCHANGED <<status, body, rows, applied>>

Next ==
    \E i \in Ids :
        \/ \E b \in Bodies : Bind(i, b)
        \/ Apply(i)
        \/ \E outcome \in Terminal : Settle(i, outcome)
        \/ Tell(i)

Spec == Init /\ [][Next]_vars
=============================================================================
