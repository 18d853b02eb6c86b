----------------------------- MODULE MCEasy521 -----------------------------
(***************************************************************************)
(* One shared bit word, one two-register span, transaction ids that repeat *)
(* at every call.                                                          *)
(***************************************************************************)
EXTENDS Easy521

MCSpan == <<"lo", "hi">>
MCCalls ==
    {[kind |-> "mask", word |-> "bits", value |-> {}, bit |-> 0, target |-> TRUE],
     [kind |-> "multi", word |-> "lo", value |-> {0}, bit |-> 0, target |-> FALSE],
     [kind |-> "single", word |-> "one", value |-> {1}, bit |-> 0, target |-> FALSE],
     [kind |-> "read", word |-> "bits", value |-> {}, bit |-> 0, target |-> FALSE]}
=============================================================================
