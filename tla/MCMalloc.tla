------------------------------ MODULE MCMalloc ------------------------------
EXTENDS Malloc
CONSTANTS c1, c2
=============================================================================
