----------------------------- MODULE MCAkTimer -----------------------------
\* Instances of AkTimer for TLC: the constants are in the configurations.
EXTENDS AkTimer
=============================================================================
