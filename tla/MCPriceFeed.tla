----------------------------- MODULE MCPriceFeed -----------------------------
(* PriceFeed on a small instance: values for TLC. *)
EXTENDS PriceFeed, TLC

CONSTANTS eurusd, xauusd, q1, q2, none, junk

MCSymbols == {eurusd, xauusd}
MCOneSymbol == {eurusd}
MCReqIds == {q1, q2}
MCOneReqId == {q1}

=============================================================================
