---------------------------- MODULE MCActionQueue ----------------------------
\* Three connections, one message from any of them.
EXTENDS ActionQueue
CONSTANTS c1, c2, c3
MCConns == {c1, c2, c3}
=============================================================================
