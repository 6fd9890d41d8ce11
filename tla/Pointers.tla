------------------------------ MODULE Pointers ------------------------------
\* The null pointer of the lists in ak/: no message and no timer.
CONSTANT NULL
=============================================================================
