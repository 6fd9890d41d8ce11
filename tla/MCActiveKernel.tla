--------------------------- MODULE MCActiveKernel ---------------------------
\* Instance of ActiveKernel for TLC: the constants are in the configuration.
EXTENDS ActiveKernel
=============================================================================
