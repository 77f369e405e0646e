---------------------------- MODULE MCTickServer ----------------------------
(* TickServer with a few connections, in turn and at a time. *)
EXTENDS TickServer, TLC

CONSTANTS c1, c2, c3, btcusd, ltcusd, none

MCClients  == {c1, c2, c3}
MCSymbols  == {btcusd, ltcusd}
=============================================================================
