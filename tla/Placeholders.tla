---------------------------- MODULE Placeholders ----------------------------
(***************************************************************************)
(* rewrite_placeholders: the one pass over the text of a Command that puts *)
(* @P1, @P2, ... for its named placeholders, and a definition by tokens of *)
(* what it has to return.                                                  *)
(*                                                                         *)
(* A text is a sequence of characters.  Those that only continue an        *)
(* identifier are stood for by letters, those that mean nothing by a space;*)
(* P1 counts as one letter, so that a text and a name may hold it too.     *)
(***************************************************************************)
EXTENDS Naturals, Sequences, FiniteSetsExt

CONSTANTS
    Texts, \* the texts looked at
    Names  \* the parameters' names, in binding order

Letters == {"a", "A", "b", "P1"}
Ordinals == <<"P1", "P2", "P3", "P4">>
Closer == [c \in {"'", "quote", "["} |-> IF c = "[" THEN "]" ELSE c]
Characters ==
    Letters \cup DOMAIN Closer \cup {"@", "]", "-", "/", "*", "newline", "space"}

ASSUME TextsAssumption == Texts \subseteq Seq(Characters)
ASSUME NamesAssumption ==
    Names \in Seq(Seq(Letters \cup {"@"})) /\ Len(Names) <= Len(Ordinals)

VARIABLES
    text,   \* the text, never changed
    i,      \* the loop's locals: the place in it,
    region, \* the region that place is in -- a quoted one by what closes it --
    depth,  \* and how deep, in block comments,
    prev,   \* whether the last character written continues an identifier,
    out     \* and what has been written

vars == <<text, i, region, depth, prev, out>>

-----------------------------------------------------------------------------

IsIdentContinue(c) == c \in Letters \cup {"@"}

Lower(c) == IF c = "A" THEN "a" ELSE c
Lowercase(s) == [k \in DOMAIN s |-> Lower(s[k])]

\* The first parameter of that name, as a set of none or one.
PlaceholderIndex(ident) ==
    LET bound == {k \in DOMAIN Names : Lowercase(Names[k]) = Lowercase(ident)}
    IN  IF bound = {} THEN {} ELSE {Min(bound)}

\* What is at place k, "end" past the end.
At(k) == IF k <= Len(text) THEN text[k] ELSE "end"
Next2 == <<At(i), At(i + 1)>>

\* The place after the identifier characters from k on.
IdentEnd(k) == Min({j \in k..(Len(text) + 1) : ~IsIdentContinue(At(j))})
Ident(k) == SubSeq(text, k, IdentEnd(k) - 1)

-----------------------------------------------------------------------------
(* The loop.                                                               *)

\* Copy n characters and go on in region r.
Copy(n, r) ==
    /\ out' = out \o SubSeq(text, i, i + n - 1)
    /\ i' = i + n
    /\ prev' = IsIdentContinue(At(i + n - 1))
    /\ region' = r
    /\ UNCHANGED text

OpenQuoted ==
    /\ region = "Sql"
    /\ At(i) \in DOMAIN Closer
    /\ Copy(1, Closer[At(i)])
    /\ UNCHANGED depth

\* Mutant of CloseQuoted: a doubled closing character is not looked for.
CloseQuotedFirst ==
    /\ region \notin {"Sql", "LineComment", "BlockComment"}
    /\ At(i) = region
    /\ Copy(1, "Sql")
    /\ UNCHANGED depth

\* Doubled, the closing character stands for itself.
CloseQuoted ==
    /\ region \notin {"Sql", "LineComment", "BlockComment"}
    /\ At(i) = region
    /\ IF At(i + 1) = region THEN Copy(2, region) ELSE Copy(1, "Sql")
    /\ UNCHANGED depth

OpenLineComment ==
    /\ region = "Sql"
    /\ Next2 = <<"-", "-">>
    /\ Copy(2, "LineComment")
    /\ UNCHANGED depth

CloseLineComment ==
    /\ region = "LineComment"
    /\ At(i) = "newline"
    /\ Copy(1, "Sql")
    /\ UNCHANGED depth

OpenBlockComment ==
    /\ region \in {"Sql", "BlockComment"}
    /\ Next2 = <<"/", "*">>
    /\ Copy(2, "BlockComment")
    /\ depth' = depth + 1

\* Mutant of CloseBlockComment: comments are not nested.
CloseBlockCommentAtOnce ==
    /\ region = "BlockComment"
    /\ Next2 = <<"*", "/">>
    /\ Copy(2, "Sql")
    /\ depth' = depth - 1

CloseBlockComment ==
    /\ region = "BlockComment"
    /\ Next2 = <<"*", "/">>
    /\ Copy(2, IF depth = 1 THEN "Sql" ELSE "BlockComment")
    /\ depth' = depth - 1

AtPlaceholder ==
    region = "Sql" /\ At(i) = "@" /\ ~prev /\ PlaceholderIndex(Ident(i + 1)) # {}

Replace ==
    /\ AtPlaceholder
    /\ \E k \in PlaceholderIndex(Ident(i + 1)) : out' = Append(out, Ordinals[k])
    /\ i' = IdentEnd(i + 1)
    /\ prev' = TRUE
    /\ UNCHANGED <<text, region, depth>>

\* Any other character is copied as it is.
CopyOther ==
    /\ i <= Len(text)
    /\ CASE region = "Sql" ->
              /\ At(i) \notin DOMAIN Closer
              /\ Next2 \notin {<<"-", "-">>, <<"/", "*">>}
              /\ ~AtPlaceholder
         [] region = "LineComment"  -> At(i) # "newline"
         [] region = "BlockComment" -> Next2 \notin {<<"/", "*">>, <<"*", "/">>}
         [] OTHER                   -> At(i) # region
    /\ Copy(1, region)
    /\ UNCHANGED depth

Init ==
    /\ text \in Texts
    /\ i = 1
    /\ region = "Sql"
    /\ depth = 0
    /\ prev = FALSE
    /\ out = <<>>

Over == i > Len(text)

Returned == Over /\ UNCHANGED vars

Next ==
    \/ OpenQuoted \/ CloseQuoted
    \/ OpenLineComment \/ CloseLineComment
    \/ OpenBlockComment \/ CloseBlockComment
    \/ Replace \/ CopyOther
    \/ Returned

Spec == Init /\ [][Next]_vars

-----------------------------------------------------------------------------
(* What it has to return, by the tokens of T-SQL.                          *)

\* Whether the region that the token at k opens, closed by c, is closed at j:
\* by a closing character that is not one of a doubled pair.
Closes(k, c, j) ==
    /\ At(j) = c
    /\ At(j + 1) # c
    /\ Cardinality({m \in (k + 1)..j : At(m) = c}) % 2 = 1

QuotedEnd(k, c) ==
    Min({j \in (k + 1)..Len(text) : Closes(k, c, j)} \cup {Len(text)}) + 1

LineEnd(k) == Min({j \in k..Len(text) : At(j) = "newline"} \cup {Len(text)}) + 1

\* The place after the comment that is d deep at k.
CommentEnd[k \in 1..(Len(text) + 1)] ==
    [d \in Nat |->
        IF d = 0 THEN k
        ELSE IF k >= Len(text) THEN Len(text) + 1
        ELSE CASE At(k) = "/" /\ At(k + 1) = "*" -> CommentEnd[k + 2][d + 1]
               [] At(k) = "*" /\ At(k + 1) = "/" -> CommentEnd[k + 2][d - 1]
               [] OTHER                           -> CommentEnd[k + 1][d]]

TokenEnd(k) ==
    CASE At(k) \in DOMAIN Closer        -> QuotedEnd(k, Closer[At(k)])
      [] At(k) = "-" /\ At(k + 1) = "-" -> LineEnd(k)
      [] At(k) = "/" /\ At(k + 1) = "*" -> CommentEnd[k + 2][1]
      [] IsIdentContinue(At(k))         -> IdentEnd(k)
      [] OTHER                          -> k + 1

\* A word that is "@" and the name of a parameter becomes that parameter's
\* ordinal; every other token stays as it is.
Meaning(token) ==
    IF token[1] = "@" /\ PlaceholderIndex(Tail(token)) # {}
    THEN <<Ordinals[CHOOSE k \in PlaceholderIndex(Tail(token)) : TRUE]>>
    ELSE token

\* The text from the token at k on.
RewrittenFrom[k \in 1..(Len(text) + 1)] ==
    IF k > Len(text) THEN <<>>
    ELSE Meaning(SubSeq(text, k, TokenEnd(k) - 1)) \o RewrittenFrom[TokenEnd(k)]

Rewritten == RewrittenFrom[1]

-----------------------------------------------------------------------------
(* Properties.                                                             *)

TypeOK ==
    /\ text \in Seq(Characters)
    /\ i \in 1..(Len(text) + 1)
    /\ region \in {"Sql", "LineComment", "BlockComment", "'", "quote", "]"}
    /\ depth \in Nat
    /\ (depth > 0) <=> (region = "BlockComment")
    /\ prev \in BOOLEAN
    /\ out \in Seq(Characters \cup {Ordinals[k] : k \in DOMAIN Names})

\* What is returned is the text with every placeholder that is one in T-SQL,
\* and nothing else, replaced by its parameter's position.
RewritesPlaceholders == Over => out = Rewritten

=============================================================================
