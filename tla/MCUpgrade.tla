----------------------------- MODULE MCUpgrade -----------------------------
\* Instance of Upgrade for TLC: the constant is in the configuration.
EXTENDS Upgrade
=============================================================================
