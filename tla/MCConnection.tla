---------------------------- MODULE MCConnection ----------------------------
EXTENDS ConnectionInvariant
=============================================================================
