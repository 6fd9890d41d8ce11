---------------------------- MODULE MCPushToTalk ----------------------------
\* Instance of PushToTalk for TLC: the constants are in the configuration.
EXTENDS PushToTalk
=============================================================================
