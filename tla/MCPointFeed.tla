---------------------------- MODULE MCPointFeed ----------------------------
(***************************************************************************)
(* A numeric point the commands set, whose register may come to hold a     *)
(* pattern that is no number, and an alarm bit.                            *)
(***************************************************************************)
EXTENDS PointFeed

MCInitial == {[speed |-> "a", fault |-> "a"]}
MCMoves == {<<"speed", "nan">>, <<"fault", "a">>, <<"fault", "b">>}
=============================================================================
