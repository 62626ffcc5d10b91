------------------------------ MODULE MCFdManager ------------------------------
\* Instances of FdManager with as many descriptor numbers as threads: a
\* client with one socket never finds the table full, and every number comes
\* back into use.
EXTENDS FdManager
=============================================================================
