--------------------------- MODULE MCTypeMapping ----------------------------
EXTENDS TypeMapping

\* Two, three, four and five bits.
MCInts == [u8 |-> 0..3, i16 |-> -4..3, i32 |-> -8..7, i64 |-> -16..15]
=============================================================================
