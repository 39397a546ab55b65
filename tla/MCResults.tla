----------------------------- MODULE MCResults ------------------------------
EXTENDS Results
=============================================================================
