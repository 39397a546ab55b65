---------------------------- MODULE MCRowStream -----------------------------
EXTENDS RowStream
=============================================================================
