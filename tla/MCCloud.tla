------------------------------ MODULE MCCloud ------------------------------
\* Instance of Cloud for TLC: the constants are in the configuration.
EXTENDS Cloud
=============================================================================
