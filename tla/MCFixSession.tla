---------------------------- MODULE MCFixSession ----------------------------
\* Two requests per process of the client, two failures, among them a restart.
EXTENDS FixSession
=============================================================================
