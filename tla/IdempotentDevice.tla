-------------------------- MODULE IdempotentDevice --------------------------
(***************************************************************************)
(* What the command pipeline relies on when it retries a command on its    *)
(* device: the first request that gets through binds the commandId to its  *)
(* content and decides it once, in one step with its effect on the control *)
(* revision, and every later answer for that content repeats the verdict.  *)
(* Nothing undoes a verdict: no crash, no restart, no failed write.        *)
(***************************************************************************)
EXTENDS Naturals

CONSTANTS
    Ids,     \* commandIds
    Bodies,  \* command contents
    NoBody

VARIABLES
    bound,    \* the content a commandId is bound to
    verdict,  \* its outcome, "none" while undecided
    revision, \* the control revision
    told      \* the outcomes callers were given for the bound content

vars == <<bound, verdict, revision, told>>

Verdicts == {"EXECUTED", "REJECTED", "FAILED"}

Init ==
    /\ bound = [i \in Ids |-> NoBody]
    /\ verdict = [i \in Ids |-> "none"]
    /\ revision = 1
    /\ told = [i \in Ids |-> {}]

\* The command is decided; the revision counts exactly the executed ones.
Decide(i, b, v) ==
    /\ bound[i] = NoBody
    /\ bound' = [bound EXCEPT ![i] = b]
    /\ verdict' = [verdict EXCEPT ![i] = v]
    /\ revision' = IF v = "EXECUTED" THEN revision + 1 ELSE revision
    /\ UNCHANGED told

\* A caller is given the verdict on record.
Tell(i) ==
    /\ verdict[i] # "none"
    /\ told' = [told EXCEPT ![i] = @ \cup {verdict[i]}]
    /\ UNCHANGED <<bound, verdict, revision>>

Next ==
    \E i \in Ids :
        \/ \E b \in Bodies, v \in Verdicts : Decide(i, b, v)
        \/ Tell(i)

Spec == Init /\ [][Next]_vars
=============================================================================
