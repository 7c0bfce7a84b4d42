---------------------------- MODULE MCPrivateStream ----------------------------
(***************************************************************************)
(* Values for PrivateStream: two rows that never parse, and sessions with  *)
(* both channels or without the one of orders.                             *)
(***************************************************************************)
EXTENDS PrivateStream

MCGarbled == {<<"order", 3>>, <<"fill", 1>>}
MCGrants == {{"order", "fill"}, {"fill"}}

=============================================================================
