----------------------------- MODULE MCRecorder -----------------------------
\* Instances of Recorder for TLC: the constants are in the configurations.
EXTENDS Recorder
=============================================================================
