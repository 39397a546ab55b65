--------------------------- MODULE MCPlaceholders ---------------------------
EXTENDS Placeholders

Upto(n, characters) == UNION {[1..k -> characters] : k \in 0..n}

\* Every short text, and longer ones of the characters that a comment, a
\* quoted region or a word is made of, or that tell apart the placeholders
\* that become P1 from the P1 already there.
MCTexts ==
    Upto(4, Characters)
        \cup Upto(8, {"/", "*", "@", "a"})
        \cup Upto(6, {"'", "[", "]", "@", "a"})
        \cup Upto(6, {"-", "newline", "@", "A", "b"})
        \cup Upto(6, {"@", "a", "P1", "space"})

\* The first is bound again as the third, the second begins with it, and the
\* fourth has the name of the first's place.
MCNames == << <<"a">>, <<"A", "b">>, <<"a">>, <<"P1">> >>
=============================================================================
