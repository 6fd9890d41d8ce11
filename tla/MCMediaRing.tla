---------------------------- MODULE MCMediaRing ----------------------------
\* Instances of MediaRing for TLC: the constants are in the configurations.
EXTENDS MediaRing
=============================================================================
