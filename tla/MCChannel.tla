------------------------------ MODULE MCChannel ------------------------------
EXTENDS Channel
=============================================================================
