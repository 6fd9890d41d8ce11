---------------------------- MODULE MCMsgQueue ----------------------------
\* Instance of MsgQueue for TLC: the constants are in the configuration.
EXTENDS MsgQueue
=============================================================================
