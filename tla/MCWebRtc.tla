------------------------------ MODULE MCWebRtc ------------------------------
\* Instances of WebRtc for TLC: the constants are in the configurations.
EXTENDS WebRtc
=============================================================================
