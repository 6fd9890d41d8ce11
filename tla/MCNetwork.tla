----------------------------- MODULE MCNetwork -----------------------------
\* Instance of Network for TLC: the constants are in the configuration.
EXTENDS Network
=============================================================================
