------------------------ MODULE Placeholders_proofs ------------------------
(***************************************************************************)
(* Theorems about Placeholders, for texts of any length over its           *)
(* characters, and any names.                                              *)
(***************************************************************************)
EXTENDS Placeholders, SequenceTheorems, FiniteSetTheorems, WellFoundedInduction, TLAPS

\* What is so of some number is so of a least one: induction, as the provers
\* can use it.
LEMMA LeastOf ==
    ASSUME NEW S, S \subseteq Nat, S # {}
    PROVE  \E n \in S : \A m \in S : n <= m
<1>1. PICK n \in S : \A m \in S : <<m, n>> \notin OpToRel(<, Nat)
  BY NatLessThanWellFounded, WFMin
<1>2. \A m \in S : <<m, n>> \in OpToRel(<, Nat) <=> m < n
  BY DEF OpToRel
<1>3. \A m \in S : ~(m < n)
  BY <1>1, <1>2, Zenon
<1> QED
  BY <1>3

LEMMA MinOf ==
    ASSUME NEW S, S \subseteq Nat, S # {}
    PROVE  Min(S) \in S /\ \A n \in S : Min(S) <= n
BY LeastOf DEF Min

LEMMA MinIs ==
    ASSUME NEW S, S \subseteq Nat, NEW m \in S, \A n \in S : m <= n
    PROVE  Min(S) = m
<1>1. Min(S) \in S /\ Min(S) <= m
  BY MinOf
<1>2. Min(S) \in Nat /\ m \in Nat /\ m <= Min(S)
  BY <1>1
<1> QED
  BY <1>1, <1>2

\* A recursion downwards has a solution: G[k] of a function depends only on
\* what the function is beyond k.
LooksAhead(n, T, G) ==
    \A k \in 1..n : \A f, g \in [1..n -> T] :
        (\A j \in (k + 1)..n : f[j] = g[j]) => G[k][f] = G[k][g]

Solvable(n, T, G) == \E f \in [1..n -> T] : \A k \in 1..n : f[k] = G[k][f]

LEMMA Downwards ==
    ASSUME NEW n \in Nat, NEW T, T # {},
           NEW G \in [1..n -> [[1..n -> T] -> T]], LooksAhead(n, T, G)
    PROVE  Solvable(n, T, G)
<1> USE DEF LooksAhead, Solvable
<1> DEFINE Solves(f, m) == \A k \in 1..n : k > n - m => f[k] = G[k][f]
           Unsolved == {m \in 0..n : ~ \E f \in [1..n -> T] : Solves(f, m)}
<1>1. ASSUME Unsolved # {} PROVE FALSE
  <2>1. Unsolved \subseteq Nat
    OBVIOUS
  <2>2. PICK m \in Unsolved : \A j \in Unsolved : m <= j
    <3> HIDE DEF Unsolved
    <3> QED
      BY <1>1, <2>1, LeastOf
  <2>3. PICK t : t \in T
    OBVIOUS
  <2>4. [k \in 1..n |-> t] \in [1..n -> T] /\ Solves([k \in 1..n |-> t], 0)
    BY <2>3
  <2>5. m - 1 \in 0..n /\ m - 1 \notin Unsolved
    <3>1. m # 0
      BY <2>2, <2>4
    <3>2. m \in 0..n /\ m - 1 \in 0..n
      BY <2>2, <3>1
    <3> HIDE DEF Unsolved
    <3> QED
      BY <2>1, <2>2, <3>2
  <2>6. PICK f \in [1..n -> T] : Solves(f, m - 1)
    BY <2>5
  <2> DEFINE k0 == n - m + 1
             g == [f EXCEPT ![k0] = G[k0][f]]
  <2>7. k0 \in 1..n
    BY <2>5
  <2>8. G[k0][f] \in T
    BY <2>6, <2>7
  <2>9. g \in [1..n -> T]
    BY <2>8
  <2>10. \A j \in 1..n : j # k0 => g[j] = f[j]
    OBVIOUS
  <2>11. g[k0] = G[k0][f]
    BY <2>7
  <2> HIDE DEF k0, g
  <2>12. ASSUME NEW k \in 1..n, k >= k0 PROVE G[k][g] = G[k][f]
    <3>1. \A j \in (k + 1)..n : g[j] = f[j]
      BY <2>7, <2>10, <2>12
    <3> QED
      BY <2>9, <3>1
  <2>13. ASSUME NEW k \in 1..n, k > n - m PROVE g[k] = G[k][g]
    <3>1. k >= k0 /\ (k # k0 => k > n - (m - 1))
      BY <2>5, <2>13 DEF k0
    <3>2. k # k0 => g[k] = G[k][f]
      BY <2>6, <2>10, <3>1
    <3>3. g[k] = G[k][f]
      BY <2>11, <3>2
    <3> QED
      BY <2>12, <3>1, <3>3
  <2>14. m \notin Unsolved
    BY <2>9, <2>13
  <2> QED
    BY <2>2, <2>14
<1>2. n \notin Unsolved
  BY <1>1
<1> QED
  BY <1>2

-----------------------------------------------------------------------------
(* The text, its words, and the names.                                     *)

\* What may be written.
Symbols == Characters \cup {Ordinals[k] : k \in DOMAIN Names}

LEMMA TextTyped ==
    ASSUME text \in Seq(Characters)
    PROVE  /\ Len(text) \in Nat
           /\ \A k \in 1..Len(text) : At(k) = text[k] /\ text[k] \in Characters
           /\ \A k \in Nat : k > Len(text) => At(k) = "end"
           /\ text \in Seq(Symbols)
           /\ \A k, n \in Nat : k > 0 /\ n <= Len(text) => SubSeq(text, k, n) \in Seq(Characters)
<1>1. Len(text) \in Nat /\ \A k \in 1..Len(text) : At(k) = text[k] /\ text[k] \in Characters
  BY DEF At
<1>2. \A k \in Nat : k > Len(text) => At(k) = "end"
  BY <1>1 DEF At
<1>3. text \in Seq(Symbols)
  BY DEF Symbols
<1>4. ASSUME NEW k \in Nat, NEW n \in Nat, k > 0, n <= Len(text)
      PROVE  SubSeq(text, k, n) \in Seq(Characters)
  <2>1. \A j \in k..n : text[j] \in Characters
    BY <1>1, <1>4
  <2> QED
    BY <2>1, SubSeqProperties
<1> QED
  BY <1>1, <1>2, <1>3, <1>4

LEMMA SymbolsWider ==
    ASSUME NEW w \in Seq(Characters)
    PROVE  w \in Seq(Symbols)
BY DEF Symbols

\* "end" and what closes or opens a region are no part of a word.
LEMMA NoWord ==
    ASSUME NEW c,
           c \in {"end", "'", "quote", "[", "]", "-", "/", "*", "newline", "space"}
    PROVE  ~IsIdentContinue(c)
BY DEF IsIdentContinue, Letters

LEMMA AtIsWord ==
    ASSUME NEW c, c = "@"
    PROVE  IsIdentContinue(c)
BY DEF IsIdentContinue

LEMMA Closers ==
    /\ DOMAIN Closer = {"'", "quote", "["}
    /\ \A c \in DOMAIN Closer : Closer[c] \in {"'", "quote", "]"}
BY DEF Closer

\* A word ends at the first place after it that is no part of it.
LEMMA IdentEndIs ==
    ASSUME text \in Seq(Characters), NEW k \in 1..(Len(text) + 1)
    PROVE  /\ IdentEnd(k) \in k..(Len(text) + 1)
           /\ ~IsIdentContinue(At(IdentEnd(k)))
           /\ \A j \in k..(IdentEnd(k) - 1) : IsIdentContinue(At(j))
<1> DEFINE After == {j \in k..(Len(text) + 1) : ~IsIdentContinue(At(j))}
<1>1. Len(text) \in Nat /\ Len(text) + 1 \in After
  <2>1. Len(text) \in Nat /\ At(Len(text) + 1) = "end"
    BY TextTyped
  <2> QED
    BY <2>1, NoWord
<1>2. After \subseteq Nat /\ After # {}
  BY <1>1
<1>3. Min(After) \in After /\ \A j \in After : Min(After) <= j
  <2> HIDE DEF After
  <2> QED
    BY <1>2, MinOf
<1>4. IdentEnd(k) = Min(After)
  BY DEF IdentEnd
<1>5. IdentEnd(k) \in k..(Len(text) + 1) /\ ~IsIdentContinue(At(IdentEnd(k)))
  BY <1>3, <1>4
<1>6. ASSUME NEW j \in k..(IdentEnd(k) - 1) PROVE IsIdentContinue(At(j))
  <2>1. j \in k..(Len(text) + 1) /\ ~(IdentEnd(k) <= j)
    BY <1>1, <1>5
  <2> QED
    BY <1>3, <1>4, <2>1
<1> QED
  BY <1>5, <1>6

LEMMA IdentEndAt ==
    ASSUME text \in Seq(Characters), NEW k \in 1..(Len(text) + 1), NEW e \in k..(Len(text) + 1),
           ~IsIdentContinue(At(e)), \A j \in k..(e - 1) : IsIdentContinue(At(j))
    PROVE  IdentEnd(k) = e
<1>1. Len(text) \in Nat
  BY TextTyped
<1>2. ~(e < IdentEnd(k)) /\ ~(IdentEnd(k) < e) /\ IdentEnd(k) \in Nat
  BY <1>1, IdentEndIs
<1> QED
  BY <1>1, <1>2

\* A name is bound first at one place, or at none.
LEMMA IndexTyped ==
    ASSUME NEW w
    PROVE  /\ PlaceholderIndex(w) \subseteq DOMAIN Names
           /\ \A a, b \in PlaceholderIndex(w) : a = b
<1> DEFINE bound == {k \in DOMAIN Names : Lowercase(Names[k]) = Lowercase(w)}
<1>1. DOMAIN Names \subseteq Nat
  BY NamesAssumption
<1>2. bound # {} => Min(bound) \in bound
  <2>1. bound \subseteq Nat
    BY <1>1
  <2> HIDE DEF bound
  <2> QED
    BY <2>1, MinOf
<1>3. PlaceholderIndex(w) = IF bound = {} THEN {} ELSE {Min(bound)}
  BY DEF PlaceholderIndex
<1>4. bound \subseteq DOMAIN Names
  OBVIOUS
<1> HIDE DEF bound
<1> QED
  BY <1>2, <1>3, <1>4

LEMMA OrdinalTyped ==
    ASSUME NEW w, NEW k \in PlaceholderIndex(w)
    PROVE  Ordinals[k] \in Symbols /\ k = CHOOSE n \in PlaceholderIndex(w) : TRUE
BY IndexTyped DEF Symbols

-----------------------------------------------------------------------------
(* Types.                                                                  *)

LEMMA Typed ==
    ASSUME TypeOK
    PROVE  /\ text \in Seq(Characters) /\ Len(text) \in Nat
           /\ i \in Nat /\ i > 0 /\ i <= Len(text) + 1
           /\ region \in {"Sql", "LineComment", "BlockComment", "'", "quote", "]"}
           /\ depth \in Nat /\ (depth > 0 <=> region = "BlockComment")
           /\ prev \in BOOLEAN /\ out \in Seq(Symbols)
<1>1. text \in Seq(Characters)
  BY DEF TypeOK
<1>2. Len(text) \in Nat
  BY <1>1
<1>3. i \in 1..(Len(text) + 1)
  BY DEF TypeOK
<1>4. i \in Nat /\ i > 0 /\ i <= Len(text) + 1
  BY <1>2, <1>3
<1>5. region \in {"Sql", "LineComment", "BlockComment", "'", "quote", "]"}
  BY DEF TypeOK
<1>6. depth \in Nat /\ (depth > 0 <=> region = "BlockComment")
  BY DEF TypeOK
<1>7. prev \in BOOLEAN /\ out \in Seq(Symbols)
  BY DEF TypeOK, Symbols
<1>8. QED
  BY <1>1, <1>2, <1>4, <1>5, <1>6, <1>7

LEMMA InText ==
    ASSUME text \in Seq(Characters), NEW k \in Nat, k > 0, At(k) # "end"
    PROVE  k \in 1..Len(text) /\ At(k) = text[k]
BY TextTyped

LEMMA CopyTyped ==
    ASSUME TypeOK, NEW n \in {1, 2}, NEW r, i + n - 1 <= Len(text), Copy(n, r)
    PROVE  /\ text' = text /\ i' = i + n /\ region' = r
           /\ i' \in 1..(Len(text) + 1)
           /\ prev' \in BOOLEAN /\ prev' = IsIdentContinue(At(i' - 1))
           /\ SubSeq(text, i, i' - 1) \in Seq(Symbols)
           /\ out' = out \o SubSeq(text, i, i' - 1)
           /\ out' \in Seq(Symbols)
<1>1. /\ text' = text /\ i' = i + n /\ region' = r
      /\ prev' = IsIdentContinue(At(i + n - 1))
      /\ out' = out \o SubSeq(text, i, i + n - 1)
  BY DEF Copy
<1>2. i \in Nat /\ i > 0 /\ Len(text) \in Nat /\ i' - 1 = i + n - 1
  BY <1>1, Typed
<1>3. SubSeq(text, i, i' - 1) \in Seq(Symbols)
  BY <1>2, Typed, TextTyped, SymbolsWider
<1>4. out \in Seq(Symbols)
  BY Typed
<1>5. out' = out \o SubSeq(text, i, i' - 1) /\ out' \in Seq(Symbols)
  BY <1>1, <1>2, <1>3, <1>4, ConcatProperties
<1>6. i' \in 1..(Len(text) + 1)
  BY <1>1, <1>2
<1>7. prev' \in BOOLEAN /\ prev' = IsIdentContinue(At(i' - 1))
  BY <1>1, <1>2 DEF IsIdentContinue
<1> QED
  BY <1>1, <1>3, <1>5, <1>6, <1>7

\* How far a step copies.
LEMMA CopiedInText ==
    ASSUME TypeOK
    PROVE  /\ At(i) # "end" => i <= Len(text)
           /\ At(i + 1) # "end" => i + 1 <= Len(text)
BY InText, Typed

\* Each step of the loop copies one character or two and goes on, or replaces
\* a placeholder.
LEMMA StepKinds ==
    ASSUME TypeOK, [Next]_vars
    PROVE  \/ /\ region = "Sql" /\ At(i) \in DOMAIN Closer
              /\ Copy(1, Closer[At(i)]) /\ i <= Len(text) /\ depth' = depth
           \/ /\ region \in {"'", "quote", "]"} /\ At(i) = region /\ At(i + 1) = region
              /\ Copy(2, region) /\ i + 1 <= Len(text) /\ depth' = depth
           \/ /\ region \in {"'", "quote", "]"} /\ At(i) = region /\ At(i + 1) # region
              /\ Copy(1, "Sql") /\ i <= Len(text) /\ depth' = depth
           \/ /\ region = "Sql" /\ At(i) = "-" /\ At(i + 1) = "-"
              /\ Copy(2, "LineComment") /\ i + 1 <= Len(text) /\ depth' = depth
           \/ /\ region = "LineComment" /\ At(i) = "newline"
              /\ Copy(1, "Sql") /\ i <= Len(text) /\ depth' = depth
           \/ /\ region \in {"Sql", "BlockComment"} /\ At(i) = "/" /\ At(i + 1) = "*"
              /\ Copy(2, "BlockComment") /\ i + 1 <= Len(text) /\ depth' = depth + 1
           \/ /\ region = "BlockComment" /\ At(i) = "*" /\ At(i + 1) = "/"
              /\ Copy(2, IF depth = 1 THEN "Sql" ELSE "BlockComment")
              /\ i + 1 <= Len(text) /\ depth' = depth - 1
           \/ Replace
           \/ CopyOther /\ Copy(1, region) /\ i <= Len(text) /\ depth' = depth
           \/ UNCHANGED vars
<1>1. region \in {"'", "quote", "]"} <=> region \notin {"Sql", "LineComment", "BlockComment"}
  BY DEF TypeOK
<1>2. /\ At(i) # "end" => i <= Len(text)
      /\ At(i + 1) # "end" => i + 1 <= Len(text)
  BY CopiedInText
<1>3. ASSUME NEW a, NEW b PROVE Next2 = <<a, b>> <=> At(i) = a /\ At(i + 1) = b
  BY DEF Next2
<1>4. CASE OpenQuoted
  BY <1>2, <1>4, Closers DEF OpenQuoted
<1>5. CASE CloseQuoted
  BY <1>1, <1>2, <1>5 DEF CloseQuoted
<1>6. CASE OpenLineComment
  BY <1>2, <1>3, <1>6 DEF OpenLineComment
<1>7. CASE CloseLineComment
  BY <1>2, <1>7 DEF CloseLineComment
<1>8. CASE OpenBlockComment
  BY <1>2, <1>3, <1>8 DEF OpenBlockComment
<1>9. CASE CloseBlockComment
  BY <1>2, <1>3, <1>9 DEF CloseBlockComment
<1>10. CASE CopyOther
  BY <1>10 DEF CopyOther
<1>11. CASE Replace \/ Returned \/ UNCHANGED vars
  BY <1>11 DEF Returned
<1> QED
  BY <1>4, <1>5, <1>6, <1>7, <1>8, <1>9, <1>10, <1>11 DEF Next

\* A placeholder's name is all of the word.
LEMMA ReplaceTyped ==
    ASSUME TypeOK, Replace
    PROVE  /\ region = "Sql" /\ At(i) = "@" /\ ~prev /\ i <= Len(text)
           /\ text' = text /\ region' = region /\ depth' = depth /\ prev' = TRUE
           /\ i' = IdentEnd(i + 1) /\ i' \in (i + 1)..(Len(text) + 1)
           /\ \E k \in PlaceholderIndex(Ident(i + 1)) :
                 out' = Append(out, Ordinals[k]) /\ Ordinals[k] \in Symbols
<1>1. /\ AtPlaceholder /\ i' = IdentEnd(i + 1) /\ prev' = TRUE
      /\ text' = text /\ region' = region /\ depth' = depth
      /\ \E k \in PlaceholderIndex(Ident(i + 1)) : out' = Append(out, Ordinals[k])
  BY DEF Replace
<1>2. region = "Sql" /\ At(i) = "@" /\ ~prev
  BY <1>1 DEF AtPlaceholder
<1>3. i <= Len(text) /\ i \in Nat /\ Len(text) \in Nat /\ i > 0
  BY <1>2, CopiedInText, Typed
<1>4. IdentEnd(i + 1) \in (i + 1)..(Len(text) + 1)
  BY <1>3, Typed, IdentEndIs
<1> QED
  BY <1>1, <1>2, <1>3, <1>4, OrdinalTyped

LEMMA NextTyped ==
    ASSUME TypeOK, [Next]_vars
    PROVE  TypeOK'
<1> DEFINE CopyKept ==
        /\ text' = text /\ i' \in 1..(Len(text) + 1) /\ prev' \in BOOLEAN
        /\ out' \in Seq(Symbols)
<1> USE DEF Symbols
<1>1. ASSUME NEW n \in {1, 2}, NEW r, i + n - 1 <= Len(text), Copy(n, r)
      PROVE  CopyKept /\ region' = r
  BY <1>1, CopyTyped
<1>2. i \in Nat /\ i + 1 - 1 = i /\ i + 2 - 1 = i + 1 /\ depth \in Nat
  BY Typed
<1>3. CASE Replace
  <2>1. out \in Seq(Symbols)
    BY DEF TypeOK
  <2>2. out' \in Seq(Symbols)
    BY <1>3, <2>1, ReplaceTyped, AppendProperties
  <2>3. i' \in 1..(Len(text) + 1)
    BY <1>2, <1>3, ReplaceTyped
  <2> QED
    BY <1>3, <2>2, <2>3, ReplaceTyped DEF TypeOK
<1>4. CASE region = "Sql" /\ At(i) \in DOMAIN Closer
           /\ Copy(1, Closer[At(i)]) /\ i <= Len(text) /\ depth' = depth
  <2>1. Closer[At(i)] \in {"'", "quote", "]"}
    BY <1>4, Closers
  <2> QED
    BY <1>1, <1>2, <1>4, <2>1 DEF TypeOK
<1>5. CASE region \in {"'", "quote", "]"} /\ At(i) = region /\ At(i + 1) = region
           /\ Copy(2, region) /\ i + 1 <= Len(text) /\ depth' = depth
  BY <1>1, <1>2, <1>5 DEF TypeOK
<1>6. CASE region \in {"'", "quote", "]"} /\ At(i) = region /\ At(i + 1) # region
           /\ Copy(1, "Sql") /\ i <= Len(text) /\ depth' = depth
  BY <1>1, <1>2, <1>6 DEF TypeOK
<1>7. CASE region = "Sql" /\ At(i) = "-" /\ At(i + 1) = "-"
           /\ Copy(2, "LineComment") /\ i + 1 <= Len(text) /\ depth' = depth
  BY <1>1, <1>2, <1>7 DEF TypeOK
<1>8. CASE region = "LineComment" /\ At(i) = "newline"
           /\ Copy(1, "Sql") /\ i <= Len(text) /\ depth' = depth
  BY <1>1, <1>2, <1>8 DEF TypeOK
<1>9. CASE region \in {"Sql", "BlockComment"} /\ At(i) = "/" /\ At(i + 1) = "*"
           /\ Copy(2, "BlockComment") /\ i + 1 <= Len(text) /\ depth' = depth + 1
  BY <1>1, <1>2, <1>9 DEF TypeOK
<1>10. CASE region = "BlockComment" /\ At(i) = "*" /\ At(i + 1) = "/"
            /\ Copy(2, IF depth = 1 THEN "Sql" ELSE "BlockComment")
            /\ i + 1 <= Len(text) /\ depth' = depth - 1
  <2>1. depth > 0 /\ depth' \in Nat /\ (depth' > 0 <=> depth # 1)
    BY <1>2, <1>10 DEF TypeOK
  <2> QED
    BY <1>1, <1>2, <1>10, <2>1 DEF TypeOK
<1>11. CASE CopyOther /\ Copy(1, region) /\ i <= Len(text) /\ depth' = depth
  BY <1>1, <1>2, <1>11 DEF TypeOK
<1>12. CASE UNCHANGED vars
  BY <1>12 DEF TypeOK, vars
<1> QED
  BY <1>3, <1>4, <1>5, <1>6, <1>7, <1>8, <1>9, <1>10, <1>11, <1>12, StepKinds

LEMMA InitTyped == Init => TypeOK
<1> SUFFICES ASSUME Init PROVE TypeOK
  OBVIOUS
<1>1. text \in Seq(Characters)
  BY TextsAssumption DEF Init
<1>2. Len(text) \in Nat
  BY <1>1
<1>3. i \in 1..(Len(text) + 1)
  BY <1>2 DEF Init
<1>4. out \in Seq(Characters \cup {Ordinals[k] : k \in DOMAIN Names})
  BY DEF Init
<1>5. region = "Sql" /\ depth = 0 /\ prev = FALSE
  BY DEF Init
<1>6. depth \in Nat /\ ~(depth > 0)
  BY <1>5
<1> QED
  BY <1>1, <1>3, <1>4, <1>5, <1>6 DEF TypeOK

\* Every variable keeps its type, and the place in the text stays in it.
THEOREM PlaceholdersTyped == Spec => []TypeOK
BY InitTyped, NextTyped, PTL DEF Spec

-----------------------------------------------------------------------------
(* Where comments end.                                                     *)

\* One step of CommentEnd.
CommentAt(f, k, d) ==
    IF d = 0 THEN k
    ELSE IF k >= Len(text) THEN Len(text) + 1
    ELSE CASE At(k) = "/" /\ At(k + 1) = "*" -> f[k + 2][d + 1]
           [] At(k) = "*" /\ At(k + 1) = "/" -> f[k + 2][d - 1]
           [] OTHER                           -> f[k + 1][d]

CommentStep(f, k) == [d \in Nat |-> CommentAt(f, k, d)]

LEMMA CommentAtIs ==
    ASSUME NEW f, NEW k, NEW d
    PROVE  /\ d = 0 => CommentAt(f, k, d) = k
           /\ d # 0 /\ k >= Len(text) => CommentAt(f, k, d) = Len(text) + 1
           /\ d # 0 /\ ~(k >= Len(text)) =>
                 /\ At(k) = "/" /\ At(k + 1) = "*" => CommentAt(f, k, d) = f[k + 2][d + 1]
                 /\ At(k) = "*" /\ At(k + 1) = "/" => CommentAt(f, k, d) = f[k + 2][d - 1]
                 /\ ~(At(k) = "/" /\ At(k + 1) = "*") /\ ~(At(k) = "*" /\ At(k + 1) = "/") =>
                       CommentAt(f, k, d) = f[k + 1][d]
<1>1. CASE d = 0 \/ k >= Len(text)
  BY <1>1, Zenon DEF CommentAt
<1>2. CASE d # 0 /\ ~(k >= Len(text)) /\ At(k) = "/" /\ At(k + 1) = "*"
  BY <1>2, Zenon DEF CommentAt
<1>3. CASE d # 0 /\ ~(k >= Len(text)) /\ At(k) = "*" /\ At(k + 1) = "/"
  <2>1. ~(At(k) = "/" /\ At(k + 1) = "*")
    BY <1>3
  <2> QED
    BY <1>3, <2>1, Zenon DEF CommentAt
<1>4. CASE /\ d # 0 /\ ~(k >= Len(text)) /\ ~(At(k) = "/" /\ At(k + 1) = "*")
           /\ ~(At(k) = "*" /\ At(k + 1) = "/")
  BY <1>4, Zenon DEF CommentAt
<1> QED
  BY <1>1, <1>2, <1>3, <1>4

LEMMA CommentAtOneOf ==
    ASSUME NEW f, NEW k, NEW d, d # 0, ~(k >= Len(text))
    PROVE  CommentAt(f, k, d) \in {f[k + 2][d + 1], f[k + 2][d - 1], f[k + 1][d]}
BY CommentAtIs, SMT

LEMMA CommentAtSame ==
    ASSUME NEW f, NEW g, NEW k, NEW d,
           k >= Len(text) \/ (f[k + 1] = g[k + 1] /\ f[k + 2] = g[k + 2])
    PROVE  CommentAt(f, k, d) = CommentAt(g, k, d)
BY CommentAtIs, SMT

LEMMA CommentStepSame ==
    ASSUME NEW f, NEW g, NEW k,
           k >= Len(text) \/ (f[k + 1] = g[k + 1] /\ f[k + 2] = g[k + 2])
    PROVE  CommentStep(f, k) = CommentStep(g, k)
BY CommentAtSame DEF CommentStep

LEMMA CommentEndIs ==
    ASSUME text \in Seq(Characters)
    PROVE  \A k \in 1..(Len(text) + 1) : CommentEnd[k] = CommentStep(CommentEnd, k)
<1> DEFINE n == Len(text) + 1
           T == [Nat -> Nat]
           G == [k \in 1..n |-> [f \in [1..n -> T] |-> CommentStep(f, k)]]
<1>1. n \in Nat /\ Len(text) \in Nat
  BY TextTyped
<1>2. ASSUME NEW k \in 1..n, NEW f \in [1..n -> T] PROVE CommentStep(f, k) \in T
  <2>1. ASSUME NEW d \in Nat PROVE CommentAt(f, k, d) \in Nat
    <3>1. ASSUME d # 0, k < Len(text)
          PROVE  f[k + 2][d + 1] \in Nat /\ f[k + 2][d - 1] \in Nat /\ f[k + 1][d] \in Nat
      <4>1. k + 2 \in 1..n /\ k + 1 \in 1..n /\ d - 1 \in Nat /\ d + 1 \in Nat
        BY <1>1, <3>1
      <4>2. f[k + 2] \in T /\ f[k + 1] \in T
        BY <4>1
      <4> QED
        BY <4>1, <4>2
    <3>2. k \in Nat /\ (k >= Len(text) \/ k < Len(text))
      BY <1>1
    <3>3. CASE d = 0 \/ k >= Len(text)
      BY <1>1, <3>2, <3>3 DEF CommentAt
    <3>4. CASE d # 0 /\ k < Len(text)
      <4>0. ~(k >= Len(text))
        BY <1>1, <3>2, <3>4
      <4>1. CommentAt(f, k, d) \in {f[k + 2][d + 1], f[k + 2][d - 1], f[k + 1][d]}
        BY <3>4, <4>0, CommentAtOneOf
      <4> QED
        BY <3>1, <3>4, <4>1
    <3> QED
      BY <3>2, <3>3, <3>4
  <2> QED
    BY <2>1 DEF CommentStep
<1>3. G \in [1..n -> [[1..n -> T] -> T]]
  BY <1>2
<1>4. ASSUME NEW k \in 1..n, NEW f \in [1..n -> T], NEW g \in [1..n -> T],
             \A j \in (k + 1)..n : f[j] = g[j]
      PROVE  G[k][f] = G[k][g]
  <2>1. k < Len(text) => f[k + 1] = g[k + 1] /\ f[k + 2] = g[k + 2]
    BY <1>1, <1>4
  <2>2. k >= Len(text) \/ (f[k + 1] = g[k + 1] /\ f[k + 2] = g[k + 2])
    BY <1>1, <2>1
  <2>3. CommentStep(f, k) = CommentStep(g, k)
    BY <2>2, CommentStepSame
  <2> QED
    BY <2>3
<1>5. T # {}
  <2>1. [d \in Nat |-> 0] \in T
    OBVIOUS
  <2> QED
    BY <2>1
<1>6. PICK f \in [1..n -> T] : \A k \in 1..n : f[k] = G[k][f]
  <2>1. LooksAhead(n, T, G)
    BY <1>4 DEF LooksAhead
  <2>2. Solvable(n, T, G)
    <3> HIDE DEF n, T, G
    <3> QED
      BY <1>1, <1>3, <1>5, <2>1, Downwards
  <2> HIDE DEF n, T, G
  <2> QED
    BY <2>2 DEF Solvable
<1>7. f = [k \in 1..n |-> CommentStep(f, k)]
  BY <1>6
<1>8. CommentEnd = [k \in 1..n |-> CommentStep(CommentEnd, k)]
  <2>1. \E g : g = [k \in 1..(Len(text) + 1) |-> CommentStep(g, k)]
    BY <1>7
  <2> QED
    BY <2>1, Zenon DEF CommentEnd, CommentStep, CommentAt
<1>9. ASSUME NEW k \in 1..n
      PROVE  CommentEnd[k] = CommentStep(CommentEnd, k)
  BY <1>8, Zenon
<1> QED
  BY <1>9

LEMMA CommentEndAt ==
    ASSUME text \in Seq(Characters), NEW k \in 1..(Len(text) + 1), NEW d \in Nat
    PROVE  CommentEnd[k][d] = CommentAt(CommentEnd, k, d)
BY CommentEndIs DEF CommentStep

LEMMA CommentEndTyped ==
    ASSUME text \in Seq(Characters), NEW k \in 1..(Len(text) + 1), NEW d \in Nat
    PROVE  CommentEnd[k][d] \in k..(Len(text) + 1)
<1> DEFINE n == Len(text) + 1
           Bad == {m \in 0..Len(text) : \E e \in Nat : CommentEnd[n - m][e] \notin (n - m)..n}
<1>1. n \in Nat /\ Len(text) \in Nat
  BY TextTyped
<1>2. ASSUME Bad # {} PROVE FALSE
  <2>1. Bad \subseteq Nat
    BY <1>1
  <2>2. PICK m \in Bad : \A j \in Bad : m <= j
    <3> HIDE DEF Bad
    <3> QED
      BY <1>2, <2>1, LeastOf
  <2>3. PICK e \in Nat : CommentEnd[n - m][e] \notin (n - m)..n
    BY <2>2
  <2> DEFINE p == n - m
  <2>4. p \in 1..n /\ m \in 0..Len(text)
    BY <1>1, <2>2
  <2>5. ASSUME NEW q \in (p + 1)..n, NEW x \in Nat
        PROVE  CommentEnd[q][x] \in q..n
    <3>1. n - q \in 0..Len(text) /\ n - q < m /\ n - (n - q) = q
      BY <1>1, <2>4
    <3>2. n - q \notin Bad
      <4> HIDE DEF Bad
      <4> QED
        BY <2>1, <2>2, <3>1
    <3> QED
      BY <3>1, <3>2
  <2> HIDE DEF Bad
  <2>6. CommentEnd[p][e] = CommentAt(CommentEnd, p, e)
    BY <2>4, CommentEndAt
  <2>7. CASE e = 0 \/ p >= Len(text)
    <3>1. CommentEnd[p][e] = p \/ CommentEnd[p][e] = n
      BY <2>6, <2>7, CommentAtIs
    <3> QED
      BY <1>1, <2>3, <2>4, <3>1
  <2>8. CASE e # 0 /\ ~(p >= Len(text))
    <3>1. /\ p + 1 \in (p + 1)..n /\ p + 2 \in (p + 1)..n
          /\ e - 1 \in Nat /\ e + 1 \in Nat
      BY <1>1, <2>4, <2>8
    <3>2. /\ CommentEnd[p + 2][e + 1] \in (p + 2)..n
          /\ CommentEnd[p + 2][e - 1] \in (p + 2)..n
          /\ CommentEnd[p + 1][e] \in (p + 1)..n
      <4> HIDE DEF p, n
      <4> QED
        BY <2>5, <3>1
    <3>3. CommentEnd[p][e] \in
              {CommentEnd[p + 2][e + 1], CommentEnd[p + 2][e - 1], CommentEnd[p + 1][e]}
      BY <2>6, <2>8, CommentAtOneOf
    <3>4. /\ (p + 2)..n \subseteq p..n
          /\ (p + 1)..n \subseteq p..n
      BY <1>1, <2>4
    <3>5. CommentEnd[p][e] \in p..n
      <4> HIDE DEF p, n
      <4> QED
        BY <3>2, <3>3, <3>4
    <3> QED
      BY <2>3, <3>5
  <2> QED
    BY <2>7, <2>8
<1>3. n - k \in 0..Len(text) /\ n - (n - k) = k
  BY <1>1
<1>4. n - k \notin Bad
  BY <1>2
<1> QED
  BY <1>3, <1>4

-----------------------------------------------------------------------------
(* Where tokens end.                                                       *)

\* m is the first place from a on that is among Ends, or else the last of the
\* text.
FirstAfter(a, Ends, m) ==
    /\ m \in Nat /\ m <= Len(text)
    /\ m = Len(text) \/ m >= a
    /\ \A e \in Ends : (\A j \in a..(e - 1) : j \notin Ends) => m = e
    /\ Ends = {} => m = Len(text)

LEMMA FirstOf ==
    ASSUME text \in Seq(Characters), NEW a \in Nat, NEW Ends, Ends \subseteq a..Len(text)
    PROVE  FirstAfter(a, Ends, Min(Ends \cup {Len(text)}))
<1> DEFINE m == Min(Ends \cup {Len(text)})
<1>1. Len(text) \in Nat
  BY TextTyped
<1> DEFINE All == Ends \cup {Len(text)}
<1>2. All \subseteq Nat
  <2>1. \A e \in a..Len(text) : e \in Nat
    BY <1>1
  <2> QED
    BY <1>1, <2>1
<1>3. All # {} /\ \A e \in All : e = Len(text) \/ e \in a..Len(text)
  OBVIOUS
<1>4. m \in All /\ \A e \in All : m <= e
  <2> HIDE DEF All
  <2>1. m = Min(All)
    BY DEF All
  <2>2. All # {}
    BY <1>3
  <2> HIDE DEF m
  <2> QED
    BY <1>2, <2>1, <2>2, MinOf
<1> HIDE DEF m
<1>5. ASSUME NEW e \in Ends, \A j \in a..(e - 1) : j \notin Ends
      PROVE  m = e
  <2>1. e \in All /\ e \in a..Len(text)
    OBVIOUS
  <2>2. m <= e /\ m \in Nat /\ e \in Nat
    <3> HIDE DEF All
    <3> QED
      BY <1>1, <1>2, <1>4, <2>1
  <2>3. m \in Ends \/ m = Len(text)
    BY <1>4
  <2>4. ~(m < e)
    BY <1>1, <1>5, <2>1, <2>2, <2>3
  <2> QED
    BY <2>2, <2>4
<1>6. Ends = {} => m = Len(text)
  BY <1>4
<1>7. m \in Nat /\ m <= Len(text) /\ (m = Len(text) \/ m >= a)
  <2>1. m = Len(text) \/ m \in a..Len(text)
    BY <1>3, <1>4
  <2> QED
    BY <1>1, <2>1
<1> QED
  BY <1>5, <1>6, <1>7 DEF FirstAfter, m

LEMMA QuotedEndIs ==
    ASSUME text \in Seq(Characters), NEW k \in 1..Len(text), NEW c
    PROVE  /\ QuotedEnd(k, c) \in (k + 1)..(Len(text) + 1)
           /\ \A e \in (k + 1)..Len(text) :
                 Closes(k, c, e) /\ (\A j \in (k + 1)..(e - 1) : ~Closes(k, c, j)) =>
                     QuotedEnd(k, c) = e + 1
           /\ (\A j \in (k + 1)..Len(text) : ~Closes(k, c, j)) => QuotedEnd(k, c) = Len(text) + 1
<1> DEFINE Ends == {j \in (k + 1)..Len(text) : Closes(k, c, j)}
<1>1. Len(text) \in Nat
  BY TextTyped
<1>2. Ends \subseteq (k + 1)..Len(text) /\ k \in Nat /\ k + 1 \in Nat /\ k <= Len(text)
  BY <1>1
<1> DEFINE m == Min(Ends \cup {Len(text)})
<1>3. QuotedEnd(k, c) = m + 1
  BY DEF QuotedEnd
<1>4. \A e \in (k + 1)..Len(text) : e \in Ends <=> Closes(k, c, e)
  OBVIOUS
<1> HIDE DEF Ends
<1>5. /\ m \in Nat /\ m <= Len(text)
      /\ m = Len(text) \/ m >= k + 1
      /\ \A e \in Ends : (\A j \in (k + 1)..(e - 1) : j \notin Ends) => m = e
      /\ Ends = {} => m = Len(text)
  <2>1. FirstAfter(k + 1, Ends, m)
    BY <1>2, FirstOf
  <2> HIDE DEF m
  <2> QED
    BY <2>1 DEF FirstAfter
<1> HIDE DEF m
<1>6. QuotedEnd(k, c) \in (k + 1)..(Len(text) + 1)
  BY <1>1, <1>2, <1>3, <1>5
<1>7. ASSUME NEW e \in (k + 1)..Len(text), Closes(k, c, e),
             \A j \in (k + 1)..(e - 1) : ~Closes(k, c, j)
      PROVE  QuotedEnd(k, c) = e + 1
  <2>1. \A j \in (k + 1)..(e - 1) : j \notin Ends
    BY <1>1, <1>4, <1>7
  <2> QED
    BY <1>3, <1>4, <1>5, <1>7, <2>1
<1>8. ASSUME \A j \in (k + 1)..Len(text) : ~Closes(k, c, j)
      PROVE  QuotedEnd(k, c) = Len(text) + 1
  <2>1. Ends = {}
    BY <1>2, <1>4, <1>8
  <2> QED
    BY <1>3, <1>5, <2>1
<1> QED
  BY <1>6, <1>7, <1>8

LEMMA LineEndIs ==
    ASSUME text \in Seq(Characters), NEW k \in 1..Len(text)
    PROVE  /\ LineEnd(k) \in (k + 1)..(Len(text) + 1)
           /\ \A e \in k..Len(text) :
                 At(e) = "newline" /\ (\A j \in k..(e - 1) : At(j) # "newline") =>
                     LineEnd(k) = e + 1
           /\ (\A j \in k..Len(text) : At(j) # "newline") => LineEnd(k) = Len(text) + 1
<1> DEFINE Ends == {j \in k..Len(text) : At(j) = "newline"}
<1>1. Len(text) \in Nat
  BY TextTyped
<1>2. Ends \subseteq k..Len(text) /\ k \in Nat /\ k <= Len(text)
  BY <1>1
<1> DEFINE m == Min(Ends \cup {Len(text)})
<1>3. LineEnd(k) = m + 1
  BY DEF LineEnd
<1>4. \A e \in k..Len(text) : e \in Ends <=> At(e) = "newline"
  OBVIOUS
<1> HIDE DEF Ends
<1>5. /\ m \in Nat /\ m <= Len(text)
      /\ m = Len(text) \/ m >= k
      /\ \A e \in Ends : (\A j \in k..(e - 1) : j \notin Ends) => m = e
      /\ Ends = {} => m = Len(text)
  <2>1. FirstAfter(k, Ends, m)
    BY <1>2, FirstOf
  <2> HIDE DEF m
  <2> QED
    BY <2>1 DEF FirstAfter
<1> HIDE DEF m
<1>6. LineEnd(k) \in (k + 1)..(Len(text) + 1)
  BY <1>1, <1>2, <1>3, <1>5
<1>7. ASSUME NEW e \in k..Len(text), At(e) = "newline", \A j \in k..(e - 1) : At(j) # "newline"
      PROVE  LineEnd(k) = e + 1
  <2>1. \A j \in k..(e - 1) : j \notin Ends
    BY <1>1, <1>4, <1>7
  <2> QED
    BY <1>3, <1>4, <1>5, <1>7, <2>1
<1>8. ASSUME \A j \in k..Len(text) : At(j) # "newline"
      PROVE  LineEnd(k) = Len(text) + 1
  <2>1. Ends = {}
    BY <1>2, <1>4, <1>8
  <2> QED
    BY <1>3, <1>5, <2>1
<1> QED
  BY <1>6, <1>7, <1>8

\* Which end a token has, by how it starts.
LEMMA TokenEndIs ==
    ASSUME NEW k
    PROVE  /\ At(k) \in DOMAIN Closer => TokenEnd(k) = QuotedEnd(k, Closer[At(k)])
           /\ At(k) = "-" /\ At(k + 1) = "-" => TokenEnd(k) = LineEnd(k)
           /\ At(k) = "/" /\ At(k + 1) = "*" => TokenEnd(k) = CommentEnd[k + 2][1]
           /\ IsIdentContinue(At(k)) => TokenEnd(k) = IdentEnd(k)
           /\ /\ At(k) \notin DOMAIN Closer
              /\ ~(At(k) = "-" /\ At(k + 1) = "-")
              /\ ~(At(k) = "/" /\ At(k + 1) = "*")
              /\ ~IsIdentContinue(At(k))
              => TokenEnd(k) = k + 1
<1>1. /\ IsIdentContinue(At(k)) =>
             At(k) \notin DOMAIN Closer /\ At(k) # "-" /\ At(k) # "/"
      /\ At(k) \in DOMAIN Closer => At(k) # "-" /\ At(k) # "/"
  BY NoWord, Closers
<1> QED
  BY <1>1, Zenon DEF TokenEnd

LEMMA TokenEndTyped ==
    ASSUME text \in Seq(Characters), NEW k \in 1..Len(text)
    PROVE  TokenEnd(k) \in (k + 1)..(Len(text) + 1)
<1>1. Len(text) \in Nat /\ k \in Nat
  BY TextTyped
<1>2. CASE At(k) \in DOMAIN Closer
  BY <1>2, TokenEndIs, QuotedEndIs
<1>3. CASE At(k) = "-" /\ At(k + 1) = "-"
  BY <1>3, TokenEndIs, LineEndIs
<1>4. CASE At(k) = "/" /\ At(k + 1) = "*"
  <2>1. k + 1 \in 1..Len(text)
    BY <1>1, <1>4, InText
  <2>2. CommentEnd[k + 2][1] \in (k + 2)..(Len(text) + 1)
    <3>1. k + 2 \in 1..(Len(text) + 1) /\ 1 \in Nat
      BY <1>1, <2>1
    <3> QED
      BY <3>1, CommentEndTyped
  <2>3. TokenEnd(k) = CommentEnd[k + 2][1]
    BY <1>4, TokenEndIs
  <2> QED
    BY <1>1, <2>2, <2>3
<1>5. CASE IsIdentContinue(At(k))
  <2>1. IdentEnd(k) \in k..(Len(text) + 1) /\ ~IsIdentContinue(At(IdentEnd(k)))
    BY <1>1, IdentEndIs
  <2>2. IdentEnd(k) # k /\ TokenEnd(k) = IdentEnd(k)
    BY <1>5, <2>1, TokenEndIs
  <2> QED
    BY <1>1, <2>1, <2>2
<1>6. CASE TokenEnd(k) = k + 1
  BY <1>1, <1>6
<1> QED
  BY <1>2, <1>3, <1>4, <1>5, <1>6, TokenEndIs

-----------------------------------------------------------------------------
(* What has to be returned.                                                *)

\* Whether a token is a placeholder.
Named(token) == token[1] = "@" /\ PlaceholderIndex(Tail(token)) # {}

LEMMA MeaningIs ==
    ASSUME NEW token \in Seq(Characters)
    PROVE  /\ Meaning(token) \in Seq(Symbols)
           /\ ~Named(token) => Meaning(token) = token
           /\ Named(token) => \E k \in PlaceholderIndex(Tail(token)) :
                                 Meaning(token) = <<Ordinals[k]>>
<1>1. CASE ~Named(token)
  BY <1>1, SymbolsWider DEF Meaning, Named
<1>2. CASE Named(token)
  <2>1. PICK k \in PlaceholderIndex(Tail(token)) : TRUE
    BY <1>2 DEF Named
  <2>2. Ordinals[k] \in Symbols /\ k = CHOOSE n \in PlaceholderIndex(Tail(token)) : TRUE
    BY OrdinalTyped
  <2>3. Meaning(token) = <<Ordinals[k]>>
    BY <1>2, <2>2 DEF Meaning, Named
  <2>4. \A x \in Symbols : <<x>> \in Seq(Symbols)
    OBVIOUS
  <2>5. Meaning(token) \in Seq(Symbols)
    BY <2>2, <2>3, <2>4
  <2> QED
    BY <1>2, <2>3, <2>5
<1> QED
  BY <1>1, <1>2

Token(k) == SubSeq(text, k, TokenEnd(k) - 1)

LEMMA TokenTyped ==
    ASSUME text \in Seq(Characters), NEW k \in 1..Len(text)
    PROVE  /\ Token(k) \in Seq(Characters)
           /\ Token(k)[1] = At(k)
           /\ Tail(Token(k)) = SubSeq(text, k + 1, TokenEnd(k) - 1)
<1>1. Len(text) \in Nat /\ TokenEnd(k) \in (k + 1)..(Len(text) + 1)
  BY TextTyped, TokenEndTyped
<1> DEFINE e == TokenEnd(k) - 1
<1>2. e \in k..Len(text)
  BY <1>1
<1> HIDE DEF e
<1>3. SubSeq(text, k, e) \in Seq(Characters)
  BY <1>1, <1>2, TextTyped
<1>4. Head(SubSeq(text, k, e)) = text[k] /\ Tail(SubSeq(text, k, e)) = SubSeq(text, k + 1, e)
  BY <1>2, HeadTailOfSubSeq
<1>5. SubSeq(text, k, e)[1] = text[k]
  BY <1>1, <1>2
<1> QED
  BY <1>3, <1>4, <1>5, TextTyped DEF Token, e

\* One step of RewrittenFrom.
RewrittenStep(f, k) ==
    IF k > Len(text) THEN <<>>
    ELSE Meaning(SubSeq(text, k, TokenEnd(k) - 1)) \o f[TokenEnd(k)]

LEMMA RewrittenFromIs ==
    ASSUME text \in Seq(Characters)
    PROVE  \A k \in 1..(Len(text) + 1) : RewrittenFrom[k] = RewrittenStep(RewrittenFrom, k)
<1> DEFINE n == Len(text) + 1
           T == Seq(Symbols)
           G == [k \in 1..n |-> [f \in [1..n -> T] |-> RewrittenStep(f, k)]]
<1>1. n \in Nat /\ Len(text) \in Nat
  BY TextTyped
<1>2. ASSUME NEW k \in 1..n, k <= Len(text)
      PROVE  /\ Meaning(SubSeq(text, k, TokenEnd(k) - 1)) \in T
             /\ TokenEnd(k) \in (k + 1)..n /\ TokenEnd(k) \in 1..n
  <2>1. k \in 1..Len(text)
    BY <1>1, <1>2
  <2>2. TokenEnd(k) \in (k + 1)..n
    BY <2>1, TokenEndTyped
  <2>3. TokenEnd(k) \in 1..n
    BY <1>1, <2>2
  <2> QED
    BY <2>1, <2>2, <2>3, TokenTyped, MeaningIs DEF Token
<1>3. ASSUME NEW k \in 1..n, NEW f \in [1..n -> T] PROVE RewrittenStep(f, k) \in T
  <2>1. CASE k > Len(text)
    BY <2>1 DEF RewrittenStep
  <2>2. CASE k <= Len(text)
    <3>1. f[TokenEnd(k)] \in T
      BY <1>2, <2>2
    <3>2. Meaning(SubSeq(text, k, TokenEnd(k) - 1)) \o f[TokenEnd(k)] \in T
      BY <1>2, <2>2, <3>1, ConcatProperties
    <3>3. ~(k > Len(text))
      BY <1>1, <2>2
    <3> QED
      BY <3>2, <3>3 DEF RewrittenStep
  <2> QED
    BY <1>1, <2>1, <2>2
<1>4. G \in [1..n -> [[1..n -> T] -> T]]
  BY <1>3
<1>5. ASSUME NEW k \in 1..n, NEW f \in [1..n -> T], NEW g \in [1..n -> T],
             \A j \in (k + 1)..n : f[j] = g[j]
      PROVE  G[k][f] = G[k][g]
  <2>1. k > Len(text) \/ f[TokenEnd(k)] = g[TokenEnd(k)]
    <3>1. k > Len(text) \/ k <= Len(text)
      BY <1>1
    <3>2. k <= Len(text) => TokenEnd(k) \in (k + 1)..n
      BY <1>2
    <3> QED
      BY <1>5, <3>1, <3>2
  <2>2. RewrittenStep(f, k) = RewrittenStep(g, k)
    BY <2>1 DEF RewrittenStep
  <2> QED
    BY <2>2
<1>6. T # {}
  <2>1. <<>> \in T
    OBVIOUS
  <2> QED
    BY <2>1
<1>7. PICK f \in [1..n -> T] : \A k \in 1..n : f[k] = G[k][f]
  <2>1. LooksAhead(n, T, G)
    BY <1>5 DEF LooksAhead
  <2>2. Solvable(n, T, G)
    <3> HIDE DEF n, T, G
    <3> QED
      BY <1>1, <1>4, <1>6, <2>1, Downwards
  <2> HIDE DEF n, T, G
  <2> QED
    BY <2>2 DEF Solvable
<1>8. f = [k \in 1..n |-> RewrittenStep(f, k)]
  BY <1>7
<1>9. RewrittenFrom = [k \in 1..n |-> RewrittenStep(RewrittenFrom, k)]
  <2>1. \E g : g = [k \in 1..(Len(text) + 1) |-> RewrittenStep(g, k)]
    BY <1>8
  <2> QED
    BY <2>1, Zenon DEF RewrittenFrom, RewrittenStep
<1>10. ASSUME NEW k \in 1..n
       PROVE  RewrittenFrom[k] = RewrittenStep(RewrittenFrom, k)
  BY <1>9, Zenon
<1> QED
  BY <1>10

\* It is a text over the characters and the ordinals, the meaning of a token
\* and what follows it.
LEMMA RewrittenFromTyped ==
    ASSUME text \in Seq(Characters), NEW k \in 1..(Len(text) + 1)
    PROVE  RewrittenFrom[k] \in Seq(Symbols)
<1> DEFINE n == Len(text) + 1
           Bad == {m \in 0..Len(text) : RewrittenFrom[n - m] \notin Seq(Symbols)}
<1>1. n \in Nat /\ Len(text) \in Nat
  BY TextTyped
<1>2. ASSUME Bad # {} PROVE FALSE
  <2>1. Bad \subseteq Nat
    BY <1>1
  <2>2. PICK m \in Bad : \A j \in Bad : m <= j
    <3> HIDE DEF Bad
    <3> QED
      BY <1>2, <2>1, LeastOf
  <2> DEFINE p == n - m
  <2>3. p \in 1..n /\ RewrittenFrom[p] \notin Seq(Symbols)
    BY <1>1, <2>2
  <2>4. RewrittenFrom[p] = RewrittenStep(RewrittenFrom, p)
    BY <2>3, RewrittenFromIs
  <2>5. p <= Len(text)
    <3>1. p > Len(text) => RewrittenFrom[p] = <<>>
      BY <2>4 DEF RewrittenStep
    <3>2. <<>> \in Seq(Symbols)
      OBVIOUS
    <3>3. ~(p > Len(text))
      BY <2>3, <3>1, <3>2
    <3> QED
      BY <1>1, <2>3, <3>3
  <2>6. p \in 1..Len(text) /\ ~(p > Len(text))
    BY <1>1, <2>3, <2>5
  <2> DEFINE e == TokenEnd(p)
  <2>7. e \in (p + 1)..n
    BY <2>6, TokenEndTyped
  <2>8. n - e \in 0..Len(text) /\ n - (n - e) = e /\ n - e < m
    BY <1>1, <2>2, <2>3, <2>7
  <2>9. n - e \notin Bad
    <3> HIDE DEF Bad, e
    <3> QED
      BY <2>1, <2>2, <2>8
  <2>10. RewrittenFrom[e] \in Seq(Symbols)
    BY <2>8, <2>9
  <2>11. Meaning(Token(p)) \in Seq(Symbols)
    BY <2>6, TokenTyped, MeaningIs
  <2>12. RewrittenFrom[p] = Meaning(Token(p)) \o RewrittenFrom[e]
    BY <2>4, <2>6 DEF RewrittenStep, Token
  <2> QED
    BY <2>3, <2>10, <2>11, <2>12, ConcatProperties
<1>3. n - k \in 0..Len(text) /\ n - (n - k) = k
  BY <1>1
<1>4. n - k \notin Bad
  BY <1>2
<1> QED
  BY <1>3, <1>4

LEMMA RewrittenFromToken ==
    ASSUME text \in Seq(Characters), NEW k \in 1..Len(text)
    PROVE  RewrittenFrom[k] = Meaning(Token(k)) \o RewrittenFrom[TokenEnd(k)]
<1>1. Len(text) \in Nat
  BY TextTyped
<1>2. k \in 1..(Len(text) + 1) /\ ~(k > Len(text))
  BY <1>1
<1> QED
  BY <1>2, RewrittenFromIs DEF RewrittenStep, Token

LEMMA RewrittenFromEnd ==
    ASSUME text \in Seq(Characters)
    PROVE  RewrittenFrom[Len(text) + 1] = <<>>
<1>1. Len(text) \in Nat
  BY TextTyped
<1>2. Len(text) + 1 \in 1..(Len(text) + 1) /\ Len(text) + 1 > Len(text)
  BY <1>1
<1> QED
  BY <1>2, RewrittenFromIs DEF RewrittenStep

-----------------------------------------------------------------------------
(* The invariant: the text before some token has its meaning written, and  *)
(* what there is of that token so far is written as it stands.             *)

\* The token at s is a word, and no placeholder, at least as far as a.
InWord(s, a) ==
    /\ s < a
    /\ \A j \in s..(a - 1) : IsIdentContinue(At(j))
    /\ ~(At(s) = "@" /\ PlaceholderIndex(Ident(s + 1)) # {})

\* It is a quoted region that c closes, but not before a, and no doubled pair
\* is around a.
InQuoted(s, a, c) ==
    /\ s < a
    /\ At(s) \in DOMAIN Closer
    /\ Closer[At(s)] = c
    /\ Cardinality({m \in (s + 1)..(a - 1) : At(m) = c}) % 2 = 0
    /\ \A j \in (s + 1)..(a - 1) : ~Closes(s, c, j)

InLineComment(s, a) ==
    /\ s + 2 <= a
    /\ At(s) = "-" /\ At(s + 1) = "-"
    /\ \A j \in s..(a - 1) : At(j) # "newline"

\* It is a comment, that ends where one does that is d deep at a.
InBlockComment(s, a, d) ==
    /\ s + 2 <= a
    /\ At(s) = "/" /\ At(s + 1) = "*"
    /\ CommentEnd[s + 2][1] = CommentEnd[a][d]

\* The loop at a, in region r, d deep, and p: whether it is at the token at s
\* or somewhere in it.
Scanned(s, a, r, d, p) ==
    \/ r = "Sql" /\ s = a /\ (p => ~IsIdentContinue(At(a)))
    \/ r = "Sql" /\ p /\ InWord(s, a)
    \/ r \in {"'", "quote", "]"} /\ InQuoted(s, a, r)
    \/ r = "LineComment" /\ InLineComment(s, a)
    \/ r = "BlockComment" /\ InBlockComment(s, a, d)

\* w is what was written up to the token at s, o up to a.
Written(s, w, a, o) ==
    /\ s \in 1..a
    /\ w \in Seq(Symbols)
    /\ w \o RewrittenFrom[s] = Rewritten
    /\ o = w \o SubSeq(text, s, a - 1)

RewriteInv ==
    \E s \in Nat, w \in Seq(Symbols) : Written(s, w, i, out) /\ Scanned(s, i, region, depth, prev)

LEMMA InitRewrites ==
    ASSUME Init
    PROVE  RewriteInv
<1>1. i = 1 /\ region = "Sql" /\ prev = FALSE /\ out = <<>>
  BY DEF Init
<1>2. text \in Seq(Characters) /\ Len(text) \in Nat
  BY InitTyped, Typed
<1>3. RewrittenFrom[1] \in Seq(Symbols)
  BY <1>2, RewrittenFromTyped
<1>4. <<>> \o RewrittenFrom[1] = Rewritten
  BY <1>3, ConcatEmptySeq DEF Rewritten
<1>5. <<>> \in Seq(Symbols) /\ SubSeq(text, 1, 1 - 1) = <<>>
  <2>1. SubSeq(text, 1, 0) = <<>>
    BY SubSeqEmpty
  <2>2. 1 - 1 = 0
    OBVIOUS
  <2> QED
    BY <2>1, <2>2
<1>6. <<>> \o <<>> = <<>>
  BY <1>5, ConcatEmptySeq
<1>7. Written(1, <<>>, i, out)
  BY <1>1, <1>4, <1>5, <1>6 DEF Written
<1>8. Scanned(1, i, region, depth, prev)
  BY <1>1 DEF Scanned
<1> QED
  BY <1>5, <1>7, <1>8 DEF RewriteInv

\* More of the token is written as it stands.
LEMMA WrittenOn ==
    ASSUME text \in Seq(Characters), NEW s, NEW w, NEW a \in 1..(Len(text) + 1), NEW o,
           Written(s, w, a, o), NEW b \in a..(Len(text) + 1)
    PROVE  Written(s, w, b, o \o SubSeq(text, a, b - 1))
<1>1. Len(text) \in Nat /\ s \in 1..a /\ w \in Seq(Symbols) /\ text \in Seq(Symbols)
  BY TextTyped DEF Written
<1>2. /\ SubSeq(text, s, a - 1) \in Seq(Symbols)
      /\ SubSeq(text, a, b - 1) \in Seq(Symbols)
  <2>1. s \in Nat /\ s > 0 /\ a \in Nat /\ a > 0 /\ a - 1 \in Nat /\ b - 1 \in Nat
        /\ a - 1 <= Len(text) /\ b - 1 <= Len(text)
    BY <1>1
  <2> QED
    BY <2>1, TextTyped, SymbolsWider
<1>3. SubSeq(text, s, a - 1) \o SubSeq(text, a, b - 1) = SubSeq(text, s, b - 1)
  <2>1. s \in 1..(Len(text) + 1) /\ a - 1 \in (s - 1)..Len(text) /\ b - 1 \in (a - 1)..Len(text)
        /\ (a - 1) + 1 = a
    BY <1>1
  <2> QED
    BY <2>1, ConcatAdjacentSubSeq
<1>4. (w \o SubSeq(text, s, a - 1)) \o SubSeq(text, a, b - 1) = w \o SubSeq(text, s, b - 1)
  <2> DEFINE t == SubSeq(text, s, a - 1)
             u == SubSeq(text, a, b - 1)
  <2>1. t \in Seq(Symbols) /\ u \in Seq(Symbols) /\ w \in Seq(Symbols)
    BY <1>1, <1>2
  <2> HIDE DEF t, u
  <2>2. (w \o t) \o u = w \o (t \o u)
    BY <2>1, ConcatAssociative
  <2> QED
    BY <1>3, <2>2 DEF t, u
<1>5. s \in 1..b
  BY <1>1
<1> QED
  BY <1>4, <1>5 DEF Written

\* Once a token is over that is no placeholder, it has its meaning written.
LEMMA WrittenOut ==
    ASSUME text \in Seq(Characters), NEW s \in 1..Len(text), NEW w, NEW e, NEW o,
           Written(s, w, e, o), TokenEnd(s) = e, ~Named(Token(s))
    PROVE  Written(e, o, e, o)
<1>1. /\ Len(text) \in Nat /\ e \in (s + 1)..(Len(text) + 1) /\ e \in 1..(Len(text) + 1)
  <2>1. Len(text) \in Nat /\ e \in (s + 1)..(Len(text) + 1)
    BY TextTyped, TokenEndTyped
  <2> QED
    BY <2>1
<1>2. Token(s) \in Seq(Characters) /\ Meaning(Token(s)) = Token(s)
  BY TokenTyped, MeaningIs
<1>3. Token(s) \in Seq(Symbols) /\ RewrittenFrom[e] \in Seq(Symbols) /\ w \in Seq(Symbols)
  BY <1>1, <1>2, SymbolsWider, RewrittenFromTyped DEF Written
<1>4. o = w \o Token(s) /\ o \in Seq(Symbols)
  <2>1. o = w \o Token(s)
    BY DEF Written, Token
  <2> QED
    BY <1>3, <2>1, ConcatProperties
<1>5. RewrittenFrom[s] = Token(s) \o RewrittenFrom[e]
  BY <1>2, RewrittenFromToken
<1>6. o \o RewrittenFrom[e] = w \o (Token(s) \o RewrittenFrom[e])
  <2> DEFINE t == Token(s)
             u == RewrittenFrom[e]
  <2>1. t \in Seq(Symbols) /\ u \in Seq(Symbols) /\ w \in Seq(Symbols)
    BY <1>3
  <2> HIDE DEF t, u
  <2>2. (w \o t) \o u = w \o (t \o u)
    BY <2>1, ConcatAssociative
  <2> QED
    BY <1>4, <2>2 DEF t, u
<1>7. o \o RewrittenFrom[e] = Rewritten
  BY <1>5, <1>6 DEF Written
<1>8. o = o \o SubSeq(text, e, e - 1)
  <2>1. e \in Int /\ e - 1 \in Int /\ e - 1 < e
    BY <1>1
  <2>2. SubSeq(text, e, e - 1) = <<>>
    BY <2>1, SubSeqEmpty
  <2> QED
    BY <1>4, <2>2, ConcatEmptySeq
<1>9. e \in 1..e
  BY <1>1
<1> QED
  BY <1>4, <1>7, <1>8, <1>9 DEF Written

\* A word that is over.
LEMMA WordOver ==
    ASSUME text \in Seq(Characters), NEW s \in Nat, s > 0, NEW a \in 1..(Len(text) + 1),
           InWord(s, a), ~IsIdentContinue(At(a))
    PROVE  s \in 1..Len(text) /\ TokenEnd(s) = a /\ ~Named(Token(s))
<1>1. Len(text) \in Nat /\ s < a
  BY TextTyped DEF InWord
<1>2. s \in 1..Len(text) /\ s \in s..(a - 1) /\ a \in (s + 1)..(Len(text) + 1)
  BY <1>1
<1>3. \A j \in s..(a - 1) : IsIdentContinue(At(j))
  BY DEF InWord
<1>4. IdentEnd(s) = a
  <2>1. s \in 1..(Len(text) + 1) /\ a \in s..(Len(text) + 1)
    BY <1>1, <1>2
  <2> QED
    BY <1>3, <2>1, IdentEndAt
<1>5. IdentEnd(s + 1) = a
  <2>1. s + 1 \in 1..(Len(text) + 1) /\ a \in (s + 1)..(Len(text) + 1)
    BY <1>1, <1>2
  <2>2. \A j \in (s + 1)..(a - 1) : IsIdentContinue(At(j))
    BY <1>1, <1>3
  <2> QED
    BY <2>1, <2>2, IdentEndAt
<1>6. TokenEnd(s) = a
  BY <1>2, <1>3, <1>4, TokenEndIs
<1>7. Token(s)[1] = At(s) /\ Tail(Token(s)) = Ident(s + 1)
  BY <1>2, <1>5, <1>6, TokenTyped DEF Ident
<1> QED
  BY <1>2, <1>6, <1>7 DEF Named, InWord

\* In Sql the loop is at a token, or in a word that goes on.
LEMMA AtToken ==
    ASSUME TypeOK, RewriteInv, region = "Sql"
    PROVE  \E s \in Nat, w \in Seq(Symbols) :
               /\ Written(s, w, i, out)
               /\ \/ s = i /\ (prev => ~IsIdentContinue(At(i)))
                  \/ prev /\ InWord(s, i) /\ IsIdentContinue(At(i))
<1>1. PICK s \in Nat, w \in Seq(Symbols) :
          Written(s, w, i, out) /\ Scanned(s, i, region, depth, prev)
  BY DEF RewriteInv
<1>2. text \in Seq(Characters) /\ i \in 1..(Len(text) + 1)
  BY DEF TypeOK
<1>3. \/ s = i /\ (prev => ~IsIdentContinue(At(i)))
      \/ prev /\ InWord(s, i)
  BY <1>1 DEF Scanned
<1>4. CASE prev /\ InWord(s, i) /\ ~IsIdentContinue(At(i))
  <2>1. s > 0
    BY <1>1, <1>2 DEF Written
  <2>2. s \in 1..Len(text) /\ TokenEnd(s) = i /\ ~Named(Token(s))
    BY <1>2, <1>4, <2>1, WordOver
  <2>3. Written(i, out, i, out)
    BY <1>1, <1>2, <2>2, WrittenOut
  <2>4. i \in Nat /\ out \in Seq(Symbols)
    BY Typed
  <2> QED
    BY <1>4, <2>3, <2>4
<1> QED
  BY <1>1, <1>3, <1>4

-----------------------------------------------------------------------------
(* The steps.                                                              *)

\* What RewriteInv says after a step, for the text does not change.
Rewrites ==
    \E s \in Nat, w \in Seq(Symbols) :
        Written(s, w, i', out') /\ Scanned(s, i', region', depth', prev')

LEMMA CopyWritten ==
    ASSUME TypeOK, NEW n \in {1, 2}, NEW r, i + n - 1 <= Len(text), Copy(n, r),
           NEW s, NEW w, Written(s, w, i, out)
    PROVE  Written(s, w, i', out')
<1>1. /\ i' = i + n /\ i' \in 1..(Len(text) + 1)
      /\ out' = out \o SubSeq(text, i, i' - 1)
  BY CopyTyped
<1>2. text \in Seq(Characters) /\ Len(text) \in Nat /\ i \in Nat /\ i > 0
  BY Typed
<1>3. i \in 1..(Len(text) + 1) /\ i' \in i..(Len(text) + 1)
  BY <1>1, <1>2
<1> QED
  BY <1>1, <1>2, <1>3, WrittenOn

\* A token that is over and does not begin with "@" is no placeholder.
LEMMA TokenOver ==
    ASSUME TypeOK, NEW s \in 1..Len(text), NEW w, Written(s, w, i', out'),
           TokenEnd(s) = i', At(s) # "@", region' = "Sql",
           prev' => ~IsIdentContinue(At(i'))
    PROVE  Rewrites
<1>1. text \in Seq(Characters) /\ Len(text) \in Nat
  BY Typed
<1>2. ~Named(Token(s))
  BY <1>1, TokenTyped DEF Named
<1>3. Written(i', out', i', out')
  BY <1>1, <1>2, WrittenOut
<1>4. i' \in Nat /\ out' \in Seq(Symbols)
  <2>1. i' \in (s + 1)..(Len(text) + 1)
    BY <1>1, TokenEndTyped
  <2>2. i' \in Nat
    BY <1>1, <2>1
  <2> QED
    BY <1>3, <2>2 DEF Written
<1>5. Scanned(i', i', region', depth', prev')
  BY DEF Scanned
<1> QED
  BY <1>3, <1>4, <1>5 DEF Rewrites

\* How many closing characters there are after s, up to a.
Number(s, c, a) == Cardinality({m \in (s + 1)..a : At(m) = c})

LEMMA Counting ==
    ASSUME NEW s \in Nat, NEW a \in Nat, s < a, NEW c
    PROVE  /\ Number(s, c, a - 1) \in Nat
           /\ At(a) = c => Number(s, c, a) = Number(s, c, a - 1) + 1
           /\ At(a) # c => Number(s, c, a) = Number(s, c, a - 1)
<1> DEFINE Before == {m \in (s + 1)..(a - 1) : At(m) = c}
           Upto == {m \in (s + 1)..a : At(m) = c}
<1>1. IsFiniteSet((s + 1)..(a - 1))
  BY FS_Interval
<1>2. IsFiniteSet(Before)
  BY <1>1, FS_Subset
<1>3. Cardinality(Before) \in Nat
  BY <1>2, FS_CardinalityType
<1>4. a \notin Before
  OBVIOUS
<1>5. ASSUME At(a) = c PROVE Cardinality(Upto) = Cardinality(Before) + 1
  <2>1. Upto = Before \cup {a}
    BY <1>5
  <2>2. Cardinality(Before \cup {a}) = Cardinality(Before) + 1
    <3> HIDE DEF Before
    <3> QED
      BY <1>2, <1>4, FS_AddElement
  <2> QED
    BY <2>1, <2>2
<1>6. ASSUME At(a) # c PROVE Cardinality(Upto) = Cardinality(Before)
  <2>1. Upto = Before
    BY <1>6
  <2> QED
    BY <2>1
<1> QED
  BY <1>3, <1>5, <1>6 DEF Number

LEMMA CountingNone ==
    ASSUME NEW s \in Nat, NEW c
    PROVE  Number(s, c, s) = 0
<1>1. {m \in (s + 1)..s : At(m) = c} = {}
  OBVIOUS
<1> QED
  BY <1>1, FS_EmptySet DEF Number

LEMMA Parity ==
    ASSUME NEW n \in Nat, n % 2 = 0
    PROVE  /\ (n + 1) % 2 = 1
           /\ (n + 1 + 1) % 2 = 0
  BY SMT

\* Where a quoted region that is not closed yet may be closed.
LEMMA QuotedOn ==
    ASSUME TypeOK, NEW s \in Nat, NEW c, InQuoted(s, i, c)
    PROVE  /\ At(i) # c => InQuoted(s, i + 1, c)
           /\ At(i) = c /\ At(i + 1) = c => InQuoted(s, i + 2, c)
           /\ At(i) = c /\ At(i + 1) # c => Closes(s, c, i)
<1>1. /\ i \in Nat /\ i > 0 /\ s < i /\ At(s) \in DOMAIN Closer /\ Closer[At(s)] = c
      /\ i + 1 - 1 = i /\ i + 2 - 1 = i + 1 /\ s < i + 1 /\ s < i + 2 /\ i + 1 \in Nat
  BY Typed DEF InQuoted
<1>2. Number(s, c, i - 1) % 2 = 0 /\ \A j \in (s + 1)..(i - 1) : ~Closes(s, c, j)
  BY DEF InQuoted, Number
<1>3. /\ Number(s, c, i - 1) \in Nat
      /\ At(i) = c => Number(s, c, i) = Number(s, c, i - 1) + 1
      /\ At(i) # c => Number(s, c, i) = Number(s, c, i - 1)
  BY <1>1, Counting
<1>4. At(i + 1) = c => Number(s, c, i + 1) = Number(s, c, i) + 1
  BY <1>1, Counting
<1>5. Closes(s, c, i) <=> At(i) = c /\ At(i + 1) # c /\ Number(s, c, i) % 2 = 1
  BY DEF Closes, Number
<1>6. Closes(s, c, i + 1) => Number(s, c, i + 1) % 2 = 1
  BY DEF Closes, Number
<1>7. /\ InQuoted(s, i + 1, c) <=> Number(s, c, i) % 2 = 0 /\ \A j \in (s + 1)..i : ~Closes(s, c, j)
      /\ InQuoted(s, i + 2, c) <=>
             Number(s, c, i + 1) % 2 = 0 /\ \A j \in (s + 1)..(i + 1) : ~Closes(s, c, j)
  BY <1>1 DEF InQuoted, Number
<1>8. /\ \A j \in (s + 1)..i : j = i \/ j \in (s + 1)..(i - 1)
      /\ \A j \in (s + 1)..(i + 1) : j = i \/ j = i + 1 \/ j \in (s + 1)..(i - 1)
  BY <1>1
<1>9. CASE At(i) # c
  <2>1. Number(s, c, i) % 2 = 0 /\ ~Closes(s, c, i)
    BY <1>2, <1>3, <1>5, <1>9, Parity
  <2> QED
    BY <1>2, <1>7, <1>8, <1>9, <2>1
<1>10. CASE At(i) = c /\ At(i + 1) = c
  <2>1. Number(s, c, i + 1) = Number(s, c, i - 1) + 1 + 1
    BY <1>3, <1>4, <1>10
  <2>2. Number(s, c, i + 1) % 2 = 0
    BY <1>2, <1>3, <2>1, Parity
  <2>3. ~Closes(s, c, i) /\ ~Closes(s, c, i + 1)
    BY <1>5, <1>6, <1>10, <2>2
  <2> QED
    BY <1>2, <1>7, <1>8, <1>10, <2>2, <2>3
<1>11. CASE At(i) = c /\ At(i + 1) # c
  <2>1. Number(s, c, i) % 2 = 1
    BY <1>2, <1>3, <1>11, Parity
  <2> QED
    BY <1>5, <1>11, <2>1
<1> QED
  BY <1>9, <1>10, <1>11

\* A region is the token at i, as far as a.
Begun(r, a, d) ==
    \/ r \in {"'", "quote", "]"} /\ InQuoted(i, a, r)
    \/ r = "LineComment" /\ InLineComment(i, a)
    \/ r = "BlockComment" /\ InBlockComment(i, a, d)

\* A quoted region or a comment opens.
LEMMA Opens ==
    ASSUME TypeOK, RewriteInv, region = "Sql", ~IsIdentContinue(At(i)),
           NEW n \in {1, 2}, NEW r, i + n - 1 <= Len(text), Copy(n, r),
           Begun(r, i', depth')
    PROVE  Rewrites
<1>1. PICK s \in Nat, w \in Seq(Symbols) : Written(s, w, i, out) /\ s = i
  BY AtToken
<1>2. Written(i, w, i', out') /\ region' = r
  BY <1>1, CopyWritten, CopyTyped
<1>3. Scanned(i, i', region', depth', prev')
  BY <1>2 DEF Scanned, Begun
<1> QED
  BY <1>1, <1>2, <1>3 DEF Rewrites

LEMMA QuotedSteps ==
    ASSUME TypeOK, RewriteInv
    PROVE  /\ /\ region = "Sql" /\ At(i) \in DOMAIN Closer
              /\ Copy(1, Closer[At(i)]) /\ i <= Len(text)
              => Rewrites
           /\ /\ region \in {"'", "quote", "]"} /\ At(i) = region /\ At(i + 1) = region
              /\ Copy(2, region) /\ i + 1 <= Len(text)
              => Rewrites
           /\ /\ region \in {"'", "quote", "]"} /\ At(i) = region /\ At(i + 1) # region
              /\ Copy(1, "Sql") /\ i <= Len(text)
              => Rewrites
           /\ /\ region \in {"'", "quote", "]"} /\ At(i) # region
              /\ Copy(1, region) /\ i <= Len(text)
              => Rewrites
<1>1. /\ i \in Nat /\ i > 0 /\ text \in Seq(Characters) /\ Len(text) \in Nat
      /\ i + 1 - 1 = i /\ i + 2 - 1 = i + 1
  BY Typed
<1>2. ASSUME region = "Sql", At(i) \in DOMAIN Closer, Copy(1, Closer[At(i)]), i <= Len(text)
      PROVE  Rewrites
  <2>1. Closer[At(i)] \in {"'", "quote", "]"} /\ ~IsIdentContinue(At(i))
    BY <1>2, Closers, NoWord
  <2>2. i' = i + 1
    BY <1>2 DEF Copy
  <2>3. Number(i, Closer[At(i)], i) % 2 = 0
    <3>1. Number(i, Closer[At(i)], i) = 0
      BY <1>1, CountingNone
    <3> QED
      BY <3>1
  <2>4. InQuoted(i, i + 1, Closer[At(i)])
    <3>1. (i + 1)..((i + 1) - 1) = {} /\ i < i + 1
      BY <1>1
    <3> QED
      BY <1>1, <1>2, <2>3, <3>1 DEF InQuoted, Number
  <2>5. Begun(Closer[At(i)], i', depth')
    BY <2>1, <2>2, <2>4 DEF Begun
  <2>6. i + 1 - 1 <= Len(text)
    BY <1>1, <1>2
  <2> QED
    BY <1>2, <2>1, <2>5, <2>6, Opens
<1>3. ASSUME region \in {"'", "quote", "]"}
      PROVE  \E s \in Nat, w \in Seq(Symbols) : Written(s, w, i, out) /\ InQuoted(s, i, region)
  BY <1>3 DEF RewriteInv, Scanned
<1>4. ASSUME NEW n \in {1, 2}, region \in {"'", "quote", "]"}, Copy(n, region), i + n - 1 <= Len(text),
             n = 1 => At(i) # region,
             n = 2 => At(i) = region /\ At(i + 1) = region
      PROVE  Rewrites
  <2>1. PICK s \in Nat, w \in Seq(Symbols) : Written(s, w, i, out) /\ InQuoted(s, i, region)
    BY <1>3, <1>4
  <2>2. Written(s, w, i', out') /\ i' = i + n /\ region' = region
    BY <1>4, <2>1, CopyWritten, CopyTyped
  <2>3. InQuoted(s, i', region)
    BY <1>4, <2>1, <2>2, QuotedOn
  <2>4. Scanned(s, i', region', depth', prev')
    BY <1>4, <2>2, <2>3 DEF Scanned
  <2> QED
    BY <2>2, <2>4 DEF Rewrites
<1>5. ASSUME region \in {"'", "quote", "]"}, At(i) = region, At(i + 1) # region,
             Copy(1, "Sql"), i <= Len(text)
      PROVE  Rewrites
  <2>1. PICK s \in Nat, w \in Seq(Symbols) : Written(s, w, i, out) /\ InQuoted(s, i, region)
    BY <1>3, <1>5
  <2>2. Written(s, w, i', out') /\ i' = i + 1 /\ region' = "Sql" /\ prev' = IsIdentContinue(At(i))
    BY <1>1, <1>5, <2>1, CopyWritten, CopyTyped
  <2>3. ~prev'
    BY <1>5, <2>2, NoWord
  <2>4. /\ s < i /\ At(s) \in DOMAIN Closer /\ Closer[At(s)] = region
        /\ \A j \in (s + 1)..(i - 1) : ~Closes(s, region, j)
        /\ Closes(s, region, i)
    BY <1>5, <2>1, QuotedOn DEF InQuoted
  <2>5. s > 0
    BY <2>1 DEF Written
  <2>6. s \in 1..Len(text) /\ i \in (s + 1)..Len(text)
    BY <1>1, <1>5, <2>4, <2>5
  <2>7. TokenEnd(s) = i + 1
    BY <1>1, <2>4, <2>6, QuotedEndIs, TokenEndIs
  <2>8. At(s) # "@"
    BY <2>4, Closers
  <2> QED
    BY <2>2, <2>3, <2>6, <2>7, <2>8, TokenOver
<1> QED
  BY <1>1, <1>2, <1>4, <1>5

LEMMA LineCommentSteps ==
    ASSUME TypeOK, RewriteInv
    PROVE  /\ /\ region = "Sql" /\ At(i) = "-" /\ At(i + 1) = "-"
              /\ Copy(2, "LineComment") /\ i + 1 <= Len(text)
              => Rewrites
           /\ /\ region = "LineComment" /\ At(i) # "newline"
              /\ Copy(1, region) /\ i <= Len(text)
              => Rewrites
           /\ /\ region = "LineComment" /\ At(i) = "newline"
              /\ Copy(1, "Sql") /\ i <= Len(text)
              => Rewrites
<1>1. /\ i \in Nat /\ i > 0 /\ text \in Seq(Characters) /\ Len(text) \in Nat
      /\ i + 1 - 1 = i /\ i + 2 - 1 = i + 1
  BY Typed
<1>2. ASSUME region = "Sql", At(i) = "-", At(i + 1) = "-", Copy(2, "LineComment"),
             i + 1 <= Len(text)
      PROVE  Rewrites
  <2>1. ~IsIdentContinue(At(i)) /\ i' = i + 2
    BY <1>2, NoWord DEF Copy
  <2>2. InLineComment(i, i + 2)
    <3>1. \A j \in i..((i + 2) - 1) : j = i \/ j = i + 1
      BY <1>1
    <3>2. \A j \in i..((i + 2) - 1) : At(j) # "newline"
      BY <1>2, <3>1
    <3> QED
      BY <1>1, <1>2, <3>2 DEF InLineComment
  <2>3. Begun("LineComment", i', depth')
    BY <2>1, <2>2 DEF Begun
  <2>4. i + 2 - 1 <= Len(text)
    BY <1>1, <1>2
  <2> QED
    BY <1>2, <2>1, <2>3, <2>4, Opens
<1>3. ASSUME region = "LineComment"
      PROVE  \E s \in Nat, w \in Seq(Symbols) : Written(s, w, i, out) /\ InLineComment(s, i)
  BY <1>3 DEF RewriteInv, Scanned
<1>4. ASSUME region = "LineComment", At(i) # "newline", Copy(1, region), i <= Len(text)
      PROVE  Rewrites
  <2>1. PICK s \in Nat, w \in Seq(Symbols) : Written(s, w, i, out) /\ InLineComment(s, i)
    BY <1>3, <1>4
  <2>2. Written(s, w, i', out') /\ i' = i + 1 /\ region' = region
    BY <1>1, <1>4, <2>1, CopyWritten, CopyTyped
  <2>3. InLineComment(s, i')
    <3>1. \A j \in s..(i' - 1) : j \in s..(i - 1) \/ j = i
      BY <1>1, <2>2
    <3>2. \A j \in s..(i' - 1) : At(j) # "newline"
      BY <1>4, <2>1, <3>1 DEF InLineComment
    <3>3. s + 2 <= i'
      BY <1>1, <2>1, <2>2 DEF InLineComment
    <3> QED
      BY <2>1, <3>2, <3>3 DEF InLineComment
  <2>4. Scanned(s, i', region', depth', prev')
    BY <1>4, <2>2, <2>3 DEF Scanned
  <2> QED
    BY <2>2, <2>4 DEF Rewrites
<1>5. ASSUME region = "LineComment", At(i) = "newline", Copy(1, "Sql"), i <= Len(text)
      PROVE  Rewrites
  <2>1. PICK s \in Nat, w \in Seq(Symbols) : Written(s, w, i, out) /\ InLineComment(s, i)
    BY <1>3, <1>5
  <2>2. Written(s, w, i', out') /\ i' = i + 1 /\ region' = "Sql" /\ prev' = IsIdentContinue(At(i))
    BY <1>1, <1>5, <2>1, CopyWritten, CopyTyped
  <2>3. ~prev'
    BY <1>5, <2>2, NoWord
  <2>4. /\ s + 2 <= i /\ At(s) = "-" /\ At(s + 1) = "-"
        /\ \A j \in s..(i - 1) : At(j) # "newline"
    BY <2>1 DEF InLineComment
  <2>5. s > 0
    BY <2>1 DEF Written
  <2>6. s \in 1..Len(text) /\ i \in s..Len(text)
    BY <1>1, <1>5, <2>4, <2>5
  <2>7. TokenEnd(s) = i + 1
    BY <1>1, <1>5, <2>4, <2>6, LineEndIs, TokenEndIs
  <2> QED
    BY <2>2, <2>3, <2>4, <2>6, <2>7, TokenOver
<1> QED
  BY <1>1, <1>2, <1>4, <1>5

\* The loop's comments are those of CommentEnd.
LEMMA CommentOn ==
    ASSUME TypeOK, i <= Len(text), NEW d \in Nat, d > 0
    PROVE  /\ At(i) = "/" /\ At(i + 1) = "*" => CommentEnd[i][d] = CommentEnd[i + 2][d + 1]
           /\ At(i) = "*" /\ At(i + 1) = "/" => CommentEnd[i][d] = CommentEnd[i + 2][d - 1]
           /\ ~(At(i) = "/" /\ At(i + 1) = "*") /\ ~(At(i) = "*" /\ At(i + 1) = "/") =>
                 CommentEnd[i][d] = CommentEnd[i + 1][d]
<1>1. /\ i \in Nat /\ i > 0 /\ text \in Seq(Characters) /\ Len(text) \in Nat
      /\ i \in 1..(Len(text) + 1)
  BY Typed
<1>2. CommentEnd[i][d] = CommentAt(CommentEnd, i, d) /\ d # 0
  BY <1>1, CommentEndAt
<1>3. CASE ~(i >= Len(text))
  BY <1>2, <1>3, CommentAtIs
<1>4. CASE i = Len(text)
  <2>1. At(i + 1) = "end"
    BY <1>1, <1>4, TextTyped
  <2>2. i + 1 \in 1..(Len(text) + 1) /\ i >= Len(text) /\ i + 1 >= Len(text)
    BY <1>1, <1>4
  <2>3. CommentEnd[i + 1][d] = CommentAt(CommentEnd, i + 1, d)
    BY <1>1, <2>2, CommentEndAt
  <2>4. CommentEnd[i][d] = Len(text) + 1 /\ CommentEnd[i + 1][d] = Len(text) + 1
    BY <1>2, <2>2, <2>3, CommentAtIs
  <2> QED
    BY <2>1, <2>4
<1> QED
  BY <1>1, <1>3, <1>4

LEMMA BlockCommentSteps ==
    ASSUME TypeOK, RewriteInv
    PROVE  /\ /\ region \in {"Sql", "BlockComment"} /\ At(i) = "/" /\ At(i + 1) = "*"
              /\ Copy(2, "BlockComment") /\ i + 1 <= Len(text) /\ depth' = depth + 1
              => Rewrites
           /\ /\ region = "BlockComment" /\ At(i) = "*" /\ At(i + 1) = "/"
              /\ Copy(2, IF depth = 1 THEN "Sql" ELSE "BlockComment")
              /\ i + 1 <= Len(text) /\ depth' = depth - 1
              => Rewrites
           /\ /\ region = "BlockComment"
              /\ ~(At(i) = "/" /\ At(i + 1) = "*") /\ ~(At(i) = "*" /\ At(i + 1) = "/")
              /\ Copy(1, region) /\ i <= Len(text) /\ depth' = depth
              => Rewrites
<1>1. /\ i \in Nat /\ i > 0 /\ text \in Seq(Characters) /\ Len(text) \in Nat
      /\ i + 1 - 1 = i /\ i + 2 - 1 = i + 1
      /\ depth \in Nat /\ (depth > 0 <=> region = "BlockComment")
  BY Typed
<1>2. ASSUME region = "BlockComment"
      PROVE  /\ depth > 0
             /\ \E s \in Nat, w \in Seq(Symbols) :
                   /\ Written(s, w, i, out)
                   /\ s > 0 /\ s + 2 <= i /\ At(s) = "/" /\ At(s + 1) = "*"
                   /\ CommentEnd[s + 2][1] = CommentEnd[i][depth]
  <2>1. PICK s \in Nat, w \in Seq(Symbols) : Written(s, w, i, out) /\ InBlockComment(s, i, depth)
    BY <1>2 DEF RewriteInv, Scanned
  <2>2. s > 0
    BY <2>1 DEF Written
  <2> QED
    BY <1>1, <1>2, <2>1, <2>2 DEF InBlockComment
<1>3. ASSUME NEW s \in Nat, NEW w \in Seq(Symbols), Written(s, w, i', out'),
             s + 2 <= i, At(s) = "/", At(s + 1) = "*", region' = "BlockComment",
             CommentEnd[s + 2][1] = CommentEnd[i'][depth'], i' \in Nat, i <= i'
      PROVE  Rewrites
  <2>1. s + 2 <= i'
    BY <1>1, <1>3
  <2>2. InBlockComment(s, i', depth')
    BY <1>3, <2>1 DEF InBlockComment
  <2>3. Scanned(s, i', region', depth', prev')
    BY <1>3, <2>2 DEF Scanned
  <2> QED
    BY <1>3, <2>3 DEF Rewrites
<1>4. ASSUME region = "Sql", At(i) = "/", At(i + 1) = "*", Copy(2, "BlockComment"),
             i + 1 <= Len(text), depth' = depth + 1
      PROVE  Rewrites
  <2>1. ~IsIdentContinue(At(i)) /\ i' = i + 2
    BY <1>4, NoWord DEF Copy
  <2>2. depth' = 1
    BY <1>1, <1>4
  <2>3. InBlockComment(i, i + 2, 1)
    BY <1>1, <1>4 DEF InBlockComment
  <2>4. Begun("BlockComment", i', depth')
    BY <2>1, <2>2, <2>3 DEF Begun
  <2>5. i + 2 - 1 <= Len(text)
    BY <1>1, <1>4
  <2> QED
    BY <1>4, <2>1, <2>4, <2>5, Opens
<1>5. ASSUME region = "BlockComment", At(i) = "/", At(i + 1) = "*", Copy(2, "BlockComment"),
             i + 1 <= Len(text), depth' = depth + 1
      PROVE  Rewrites
  <2>1. PICK s \in Nat, w \in Seq(Symbols) :
            /\ Written(s, w, i, out)
            /\ s > 0 /\ s + 2 <= i /\ At(s) = "/" /\ At(s + 1) = "*"
            /\ CommentEnd[s + 2][1] = CommentEnd[i][depth]
    BY <1>2, <1>5
  <2>2. Written(s, w, i', out') /\ i' = i + 2 /\ region' = "BlockComment"
    BY <1>1, <1>5, <2>1, CopyWritten, CopyTyped
  <2>3. depth > 0 /\ i <= Len(text) /\ i <= i' /\ i' \in Nat
    BY <1>1, <1>2, <1>5, <2>2
  <2>4. CommentEnd[i][depth] = CommentEnd[i'][depth']
    BY <1>1, <1>5, <2>2, <2>3, CommentOn
  <2> QED
    BY <1>3, <2>1, <2>2, <2>3, <2>4
<1>6. ASSUME region = "BlockComment", Copy(1, region), i <= Len(text), depth' = depth,
             ~(At(i) = "/" /\ At(i + 1) = "*"), ~(At(i) = "*" /\ At(i + 1) = "/")
      PROVE  Rewrites
  <2>1. PICK s \in Nat, w \in Seq(Symbols) :
            /\ Written(s, w, i, out)
            /\ s > 0 /\ s + 2 <= i /\ At(s) = "/" /\ At(s + 1) = "*"
            /\ CommentEnd[s + 2][1] = CommentEnd[i][depth]
    BY <1>2, <1>6
  <2>2. Written(s, w, i', out') /\ i' = i + 1 /\ region' = "BlockComment"
    BY <1>1, <1>6, <2>1, CopyWritten, CopyTyped
  <2>3. depth > 0 /\ i <= i' /\ i' \in Nat
    BY <1>1, <1>2, <1>6, <2>2
  <2>4. CommentEnd[i][depth] = CommentEnd[i'][depth']
    BY <1>1, <1>6, <2>2, <2>3, CommentOn
  <2> QED
    BY <1>3, <2>1, <2>2, <2>3, <2>4
<1>7. ASSUME region = "BlockComment", At(i) = "*", At(i + 1) = "/",
             Copy(2, IF depth = 1 THEN "Sql" ELSE "BlockComment"),
             i + 1 <= Len(text), depth' = depth - 1
      PROVE  Rewrites
  <2>1. PICK s \in Nat, w \in Seq(Symbols) :
            /\ Written(s, w, i, out)
            /\ s > 0 /\ s + 2 <= i /\ At(s) = "/" /\ At(s + 1) = "*"
            /\ CommentEnd[s + 2][1] = CommentEnd[i][depth]
    BY <1>2, <1>7
  <2>2. /\ Written(s, w, i', out') /\ i' = i + 2
        /\ region' = IF depth = 1 THEN "Sql" ELSE "BlockComment"
        /\ prev' = IsIdentContinue(At(i + 1)) /\ i' \in 1..(Len(text) + 1)
    <3> DEFINE r == IF depth = 1 THEN "Sql" ELSE "BlockComment"
    <3>1. Copy(2, r) /\ i + 2 - 1 <= Len(text)
      BY <1>1, <1>7
    <3> HIDE DEF r
    <3>2. /\ Written(s, w, i', out') /\ i' = i + 2 /\ region' = r
          /\ prev' = IsIdentContinue(At(i' - 1)) /\ i' \in 1..(Len(text) + 1)
      BY <2>1, <3>1, CopyWritten, CopyTyped
    <3> QED
      BY <1>1, <3>2 DEF r
  <2>3. depth > 0 /\ i <= Len(text) /\ i <= i' /\ i' \in Nat
    BY <1>1, <1>2, <1>7, <2>2
  <2>4. CommentEnd[i][depth] = CommentEnd[i'][depth']
    BY <1>1, <1>7, <2>2, <2>3, CommentOn
  <2>5. CASE depth # 1
    BY <1>3, <2>1, <2>2, <2>3, <2>4, <2>5
  <2>6. CASE depth = 1
    <3>1. depth' = 0 /\ region' = "Sql"
      BY <1>7, <2>2, <2>6
    <3>2. CommentEnd[i'][0] = i'
      <4>1. CommentEnd[i'][0] = CommentAt(CommentEnd, i', 0)
        BY <1>1, <2>2, CommentEndAt
      <4> QED
        BY <4>1, CommentAtIs
    <3>3. TokenEnd(s) = i'
      BY <2>1, <2>4, <3>1, <3>2, TokenEndIs
    <3>4. s \in 1..Len(text)
      BY <1>1, <2>1, <2>3
    <3>5. ~prev'
      BY <1>7, <2>2, NoWord
    <3> QED
      BY <2>1, <2>2, <3>1, <3>3, <3>4, <3>5, TokenOver
  <2> QED
    BY <2>5, <2>6
<1> QED
  BY <1>1, <1>4, <1>5, <1>6, <1>7

\* A character that is no part of a region is copied: one of a word, or a
\* token of its own.
LEMMA SqlStep ==
    ASSUME TypeOK, RewriteInv, region = "Sql", Copy(1, region), i <= Len(text),
           At(i) \notin DOMAIN Closer,
           ~(At(i) = "-" /\ At(i + 1) = "-"), ~(At(i) = "/" /\ At(i + 1) = "*"),
           ~AtPlaceholder
    PROVE  Rewrites
<1>1. /\ i \in Nat /\ i > 0 /\ text \in Seq(Characters) /\ Len(text) \in Nat
      /\ i + 1 - 1 = i
  BY Typed
<1>2. PICK s \in Nat, w \in Seq(Symbols) :
          /\ Written(s, w, i, out)
          /\ \/ s = i /\ (prev => ~IsIdentContinue(At(i)))
             \/ prev /\ InWord(s, i) /\ IsIdentContinue(At(i))
  BY AtToken
<1>3. /\ Written(s, w, i', out') /\ i' = i + 1 /\ region' = "Sql"
      /\ prev' = IsIdentContinue(At(i))
  BY <1>1, <1>2, CopyWritten, CopyTyped
<1>4. CASE ~IsIdentContinue(At(i))
  <2>1. s = i /\ i \in 1..Len(text)
    BY <1>1, <1>2, <1>4
  <2>2. TokenEnd(i) = i'
    BY <1>3, <1>4, TokenEndIs
  <2>3. At(i) # "@"
    BY <1>4, AtIsWord
  <2> QED
    BY <1>3, <1>4, <2>1, <2>2, <2>3, TokenOver
<1>5. CASE IsIdentContinue(At(i))
  <2>1. InWord(s, i + 1)
    <3>1. CASE s = i
      <4>1. \A j \in s..((i + 1) - 1) : IsIdentContinue(At(j))
        <5>1. \A j \in s..((i + 1) - 1) : j = i
          BY <1>1, <3>1
        <5> QED
          BY <1>5, <5>1
      <4>2. ~(At(s) = "@" /\ PlaceholderIndex(Ident(s + 1)) # {})
        BY <1>2, <1>5, <3>1 DEF AtPlaceholder, InWord
      <4> QED
        BY <1>1, <3>1, <4>1, <4>2 DEF InWord
    <3>2. CASE InWord(s, i)
      <4>1. \A j \in s..((i + 1) - 1) : j \in s..(i - 1) \/ j = i
        BY <1>1
      <4>2. \A j \in s..((i + 1) - 1) : IsIdentContinue(At(j))
        BY <1>5, <3>2, <4>1 DEF InWord
      <4>3. s < i + 1
        BY <1>1, <3>2 DEF InWord
      <4> QED
        BY <3>2, <4>2, <4>3 DEF InWord
    <3> QED
      BY <1>2, <3>1, <3>2
  <2>2. Scanned(s, i', region', depth', prev')
    BY <1>3, <1>5, <2>1 DEF Scanned
  <2> QED
    BY <1>3, <2>2 DEF Rewrites
<1> QED
  BY <1>4, <1>5

LEMMA CopyOtherIs ==
    ASSUME CopyOther
    PROVE  /\ region = "Sql" =>
                 /\ At(i) \notin DOMAIN Closer
                 /\ ~(At(i) = "-" /\ At(i + 1) = "-") /\ ~(At(i) = "/" /\ At(i + 1) = "*")
                 /\ ~AtPlaceholder
           /\ region = "LineComment" => At(i) # "newline"
           /\ region = "BlockComment" =>
                 ~(At(i) = "/" /\ At(i + 1) = "*") /\ ~(At(i) = "*" /\ At(i + 1) = "/")
           /\ region \in {"'", "quote", "]"} => At(i) # region
<1>1. CASE region = "Sql"
  BY <1>1 DEF CopyOther, Next2
<1>2. CASE region = "LineComment"
  BY <1>2 DEF CopyOther
<1>3. CASE region = "BlockComment"
  BY <1>3 DEF CopyOther, Next2
<1>4. CASE region \notin {"Sql", "LineComment", "BlockComment"}
  BY <1>4 DEF CopyOther
<1> QED
  BY <1>1, <1>2, <1>3, <1>4

\* A placeholder is a token, and its ordinal is its meaning.
LEMMA Before ==
    ASSUME NEW n \in Nat
    PROVE  n \in Int /\ n - 1 \in Int /\ n - 1 < n
OBVIOUS

LEMMA ReplaceStep ==
    ASSUME TypeOK, RewriteInv, Replace
    PROVE  Rewrites
<1>1. /\ i \in Nat /\ i > 0 /\ text \in Seq(Characters) /\ Len(text) \in Nat
  BY Typed
<1>2. /\ region = "Sql" /\ At(i) = "@" /\ ~prev /\ i <= Len(text)
      /\ region' = "Sql" /\ prev' = TRUE
      /\ i' = IdentEnd(i + 1) /\ i' \in (i + 1)..(Len(text) + 1)
  BY ReplaceTyped
<1>3. PICK k \in PlaceholderIndex(Ident(i + 1)) :
          out' = Append(out, Ordinals[k]) /\ Ordinals[k] \in Symbols
  BY ReplaceTyped
<1>4. Written(i, out, i, out)
  <2>1. PICK s \in Nat, w \in Seq(Symbols) : Written(s, w, i, out) /\ s = i
    BY <1>2, AtToken
  <2>2. w = out
    <3>1. SubSeq(text, i, i - 1) = <<>>
      <4>1. i \in Int /\ i - 1 \in Int /\ i - 1 < i
        BY <1>1
      <4> QED
        BY <4>1, SubSeqEmpty
    <3>2. w \o <<>> = w
      BY ConcatEmptySeq
    <3> QED
      BY <2>1, <3>1, <3>2 DEF Written
  <2> QED
    BY <2>1, <2>2
<1>5. i \in 1..Len(text) /\ i + 1 \in 1..(Len(text) + 1) /\ i' \in Nat
  BY <1>1, <1>2
<1>6. /\ ~IsIdentContinue(At(i')) /\ \A j \in (i + 1)..(i' - 1) : IsIdentContinue(At(j))
  BY <1>1, <1>2, <1>5, IdentEndIs
<1>7. TokenEnd(i) = i'
  <2>1. i \in 1..(Len(text) + 1) /\ i' \in i..(Len(text) + 1)
    BY <1>1, <1>2
  <2>2. \A j \in i..(i' - 1) : j = i \/ j \in (i + 1)..(i' - 1)
    BY <1>1, <1>2
  <2>3. IsIdentContinue(At(i))
    BY <1>2, AtIsWord
  <2>4. IdentEnd(i) = i'
    BY <1>1, <1>6, <2>1, <2>2, <2>3, IdentEndAt
  <2> QED
    BY <2>3, <2>4, TokenEndIs
<1>8. Token(i)[1] = "@" /\ Tail(Token(i)) = Ident(i + 1) /\ Token(i) \in Seq(Characters)
  BY <1>1, <1>2, <1>5, <1>7, TokenTyped DEF Ident
<1>9. Meaning(Token(i)) = <<Ordinals[k]>>
  <2>1. Named(Token(i))
    BY <1>3, <1>8 DEF Named
  <2>2. PICK n \in PlaceholderIndex(Ident(i + 1)) : Meaning(Token(i)) = <<Ordinals[n]>>
    BY <1>8, <2>1, MeaningIs
  <2>3. n = k
    BY <1>3, <2>2, IndexTyped
  <2> QED
    BY <2>2, <2>3
<1> DEFINE o == <<Ordinals[k]>>
           rest == RewrittenFrom[i']
<1>10. o \in Seq(Symbols) /\ rest \in Seq(Symbols) /\ out \in Seq(Symbols)
  <2>1. o \in Seq(Symbols)
    <3>1. \A x \in Symbols : <<x>> \in Seq(Symbols)
      OBVIOUS
    <3> QED
      BY <1>3, <3>1
  <2>2. i' \in 1..(Len(text) + 1)
    BY <1>1, <1>2
  <2> QED
    BY <1>1, <2>1, <2>2, RewrittenFromTyped, Typed
<1>11. out' = out \o o
  BY <1>3, <1>10, AppendIsConcat
<1>12. out' \in Seq(Symbols) /\ out' \o rest = out \o (o \o rest)
  <2> HIDE DEF o, rest
  <2> QED
    BY <1>10, <1>11, ConcatProperties, ConcatAssociative
<1>13. RewrittenFrom[i] = o \o rest
  BY <1>1, <1>5, <1>7, <1>9, RewrittenFromToken
<1>14. out' \o RewrittenFrom[i'] = Rewritten
  BY <1>4, <1>12, <1>13 DEF Written
<1>15. out' = out' \o SubSeq(text, i', i' - 1) /\ i' \in 1..i'
  <2>1. i' \in Int /\ i' - 1 \in Int /\ i' - 1 < i'
    <3>1. i' \in Nat
      BY <1>5
    <3> QED
      BY <3>1, Before
  <2>2. SubSeq(text, i', i' - 1) = <<>>
    BY <2>1, SubSeqEmpty
  <2>3. i' \in 1..i'
    BY <1>1, <1>2
  <2> QED
    BY <1>12, <2>2, <2>3, ConcatEmptySeq
<1>16. Written(i', out', i', out')
  BY <1>12, <1>14, <1>15 DEF Written
<1>17. Scanned(i', i', region', depth', prev')
  BY <1>2, <1>6 DEF Scanned
<1> QED
  BY <1>5, <1>12, <1>16, <1>17 DEF Rewrites

LEMMA NextRewrites ==
    ASSUME TypeOK, RewriteInv, [Next]_vars
    PROVE  Rewrites
<1>1. ASSUME CopyOther, Copy(1, region), i <= Len(text), depth' = depth PROVE Rewrites
  <2>1. region \in {"Sql", "LineComment", "BlockComment", "'", "quote", "]"}
    BY Typed
  <2>2. CASE region = "Sql"
    BY <1>1, <2>2, CopyOtherIs, SqlStep
  <2>3. CASE region = "LineComment"
    BY <1>1, <2>3, CopyOtherIs, LineCommentSteps
  <2>4. CASE region = "BlockComment"
    BY <1>1, <2>4, CopyOtherIs, BlockCommentSteps
  <2>5. CASE region \in {"'", "quote", "]"}
    BY <1>1, <2>5, CopyOtherIs, QuotedSteps
  <2> QED
    BY <2>1, <2>2, <2>3, <2>4, <2>5
<1>2. CASE UNCHANGED vars
  BY <1>2 DEF vars, RewriteInv, Rewrites
<1> QED
  BY <1>1, <1>2, StepKinds, QuotedSteps, LineCommentSteps, BlockCommentSteps, ReplaceStep

-----------------------------------------------------------------------------
(* The loop returns what it has to.                                        *)

LEMMA TextKept ==
    ASSUME TypeOK, [Next]_vars
    PROVE  text' = text
<1>1. ASSUME NEW n, NEW r, Copy(n, r) PROVE text' = text
  BY <1>1 DEF Copy
<1>2. ASSUME Replace PROVE text' = text
  BY <1>2 DEF Replace
<1>3. ASSUME UNCHANGED vars PROVE text' = text
  BY <1>3 DEF vars
<1> QED
  BY <1>1, <1>2, <1>3, StepKinds

\* All that is said of the text stays so.
LEMMA SameText ==
    ASSUME text' = text
    PROVE  /\ \A k : (At(k))' = At(k)
           /\ \A k : (Ident(k))' = Ident(k)
           /\ \A k, c, j : (Closes(k, c, j))' <=> Closes(k, c, j)
           /\ CommentEnd' = CommentEnd
           /\ RewrittenFrom' = RewrittenFrom
           /\ Rewritten' = Rewritten
<1>1. ASSUME NEW k PROVE (At(k))' = At(k)
  BY DEF At
<1>2. ASSUME NEW k PROVE (Ident(k))' = Ident(k)
  BY DEF Ident, IdentEnd, At
<1>3. ASSUME NEW k, NEW c, NEW j PROVE (Closes(k, c, j))' <=> Closes(k, c, j)
  BY DEF Closes, At
<1>4. CommentEnd' = CommentEnd
  BY DEF CommentEnd, At
<1>5. ASSUME NEW k PROVE (TokenEnd(k))' = TokenEnd(k)
  BY <1>4 DEF TokenEnd, QuotedEnd, LineEnd, IdentEnd, Closes, At
<1>6. RewrittenFrom' = RewrittenFrom
  BY <1>5 DEF RewrittenFrom
<1>7. Rewritten' = Rewritten
  BY <1>6 DEF Rewritten
<1> QED
  BY <1>1, <1>2, <1>3, <1>4, <1>6, <1>7

LEMMA RewritesNext ==
    ASSUME text' = text, Rewrites
    PROVE  RewriteInv'
<1>1. PICK s \in Nat, w \in Seq(Symbols) :
          Written(s, w, i', out') /\ Scanned(s, i', region', depth', prev')
  BY DEF Rewrites
<1>2. (Written(s, w, i, out))'
  BY <1>1, SameText DEF Written
<1>3. (InWord(s, i))' <=> InWord(s, i')
  BY SameText DEF InWord
<1>4. (InQuoted(s, i, region))' <=> InQuoted(s, i', region')
  <2>1. ({m \in (s + 1)..(i - 1) : At(m) = region})' =
            {m \in (s + 1)..(i' - 1) : At(m) = region'}
    BY SameText
  <2>2. (At(s))' = At(s) /\ \A j : (Closes(s, region, j))' <=> Closes(s, region', j)
    BY SameText DEF Closes, At
  <2> QED
    BY <2>1, <2>2 DEF InQuoted
<1>5. (InLineComment(s, i))' <=> InLineComment(s, i')
  BY SameText DEF InLineComment
<1>6. (InBlockComment(s, i, depth))' <=> InBlockComment(s, i', depth')
  BY SameText DEF InBlockComment
<1>7. (Scanned(s, i, region, depth, prev))'
  BY <1>1, <1>3, <1>4, <1>5, <1>6, SameText DEF Scanned
<1> QED
  BY <1>2, <1>7 DEF RewriteInv


LEMMA WrittenAtEnd ==
    ASSUME TypeOK, Over
    PROVE  /\ i = Len(text) + 1
           /\ text \in Seq(Characters) /\ Len(text) \in Nat
           /\ At(i) = "end"
           /\ \A w : Written(i, w, i, out) => out = Rewritten
<1>1. i = Len(text) + 1 /\ text \in Seq(Characters) /\ Len(text) \in Nat
  BY Typed DEF Over
<1>2. At(i) = "end"
  BY <1>1 DEF At
<1>3. ASSUME NEW w, Written(i, w, i, out) PROVE out = Rewritten
  <2>1. w \in Seq(Symbols) /\ w \o RewrittenFrom[i] = Rewritten /\ out = w \o SubSeq(text, i, i - 1)
    BY <1>3 DEF Written
  <2>2. SubSeq(text, i, i - 1) = <<>>
    <3>1. i \in Nat
      BY <1>1
    <3> QED
      BY <3>1, Before, SubSeqEmpty
  <2>3. RewrittenFrom[i] = <<>>
    BY <1>1, RewrittenFromEnd
  <2> QED
    BY <2>1, <2>2, <2>3
<1> QED
  BY <1>1, <1>2, <1>3

\* What has no end ends with the text.
LEMMA EndsWithText ==
    ASSUME TypeOK, Over, NEW s \in Nat, s > 0,
           \/ InQuoted(s, i, region)
           \/ InLineComment(s, i)
           \/ InBlockComment(s, i, depth) /\ depth # 0
    PROVE  s \in 1..Len(text) /\ TokenEnd(s) = i /\ At(s) # "@"
<1>1. i = Len(text) + 1 /\ text \in Seq(Characters) /\ Len(text) \in Nat
  BY WrittenAtEnd
<1>2. s < i
  BY <1>1 DEF InQuoted, InLineComment, InBlockComment
<1>3. s \in 1..Len(text) /\ i - 1 = Len(text)
  BY <1>1, <1>2
<1>4. CASE InQuoted(s, i, region)
  <2>1. \A j \in (s + 1)..Len(text) : ~Closes(s, region, j)
    BY <1>3, <1>4 DEF InQuoted
  <2>2. At(s) \in DOMAIN Closer /\ Closer[At(s)] = region
    BY <1>4 DEF InQuoted
  <2>3. QuotedEnd(s, region) = i
    BY <1>1, <1>3, <2>1, QuotedEndIs
  <2>4. TokenEnd(s) = i
    BY <2>2, <2>3, TokenEndIs
  <2>5. At(s) # "@"
    BY <2>2, Closers
  <2> QED
    BY <1>3, <2>4, <2>5
<1>5. CASE InLineComment(s, i)
  <2>1. \A j \in s..Len(text) : At(j) # "newline"
    BY <1>3, <1>5 DEF InLineComment
  <2>2. At(s) = "-" /\ At(s + 1) = "-"
    BY <1>5 DEF InLineComment
  <2>3. LineEnd(s) = i
    BY <1>1, <1>3, <2>1, LineEndIs
  <2> QED
    BY <1>3, <2>2, <2>3, TokenEndIs
<1>6. CASE InBlockComment(s, i, depth) /\ depth # 0
  <2>1. At(s) = "/" /\ At(s + 1) = "*" /\ CommentEnd[s + 2][1] = CommentEnd[i][depth]
    BY <1>6 DEF InBlockComment
  <2>2. depth \in Nat /\ i \in 1..(Len(text) + 1) /\ i >= Len(text)
    BY <1>1, Typed
  <2>3. CommentEnd[i][depth] = CommentAt(CommentEnd, i, depth)
    BY <1>1, <2>2, CommentEndAt
  <2>4. CommentAt(CommentEnd, i, depth) = Len(text) + 1
    BY <1>6, <2>2, CommentAtIs
  <2> QED
    BY <1>1, <1>3, <2>1, <2>3, <2>4, TokenEndIs
<1> QED
  BY <1>4, <1>5, <1>6

LEMMA RewriteInvOver ==
    ASSUME TypeOK, RewriteInv
    PROVE  RewritesPlaceholders
<1> SUFFICES ASSUME Over PROVE out = Rewritten
  BY DEF RewritesPlaceholders
<1>1. text \in Seq(Characters) /\ At(i) = "end"
  BY WrittenAtEnd
<1>2. CASE region = "Sql"
  <2>1. PICK s \in Nat, w \in Seq(Symbols) :
            /\ Written(s, w, i, out)
            /\ \/ s = i /\ (prev => ~IsIdentContinue(At(i)))
               \/ prev /\ InWord(s, i) /\ IsIdentContinue(At(i))
    BY <1>2, AtToken
  <2>2. ~IsIdentContinue(At(i))
    BY <1>1, NoWord
  <2>3. s = i
    BY <2>1, <2>2
  <2> QED
    BY <2>1, <2>3, WrittenAtEnd
<1>3. CASE region # "Sql"
  <2>1. PICK s \in Nat, w \in Seq(Symbols) :
            Written(s, w, i, out) /\ Scanned(s, i, region, depth, prev)
    BY DEF RewriteInv
  <2>2. \/ InQuoted(s, i, region)
        \/ InLineComment(s, i)
        \/ region = "BlockComment" /\ InBlockComment(s, i, depth)
    BY <1>3, <2>1 DEF Scanned
  <2>3. region = "BlockComment" => depth # 0
    BY Typed
  <2>4. s > 0
    BY <2>1 DEF Written
  <2>5. s \in 1..Len(text) /\ TokenEnd(s) = i /\ At(s) # "@"
    BY <2>2, <2>3, <2>4, EndsWithText
  <2>6. ~Named(Token(s))
    BY <1>1, <2>5, TokenTyped DEF Named
  <2>7. Written(i, out, i, out)
    BY <1>1, <2>1, <2>5, <2>6, WrittenOut
  <2> QED
    BY <2>7, WrittenAtEnd
<1> QED
  BY <1>2, <1>3

\* The text up to some token has been rewritten as it has to be, and the token
\* the loop is in is written as it stands and can still end as tokens do.
THEOREM PlaceholdersRewriting == Spec => []RewriteInv
<1>1. Init => RewriteInv
  BY InitRewrites
<1>2. TypeOK /\ RewriteInv /\ [Next]_vars => RewriteInv'
  BY NextRewrites, TextKept, RewritesNext
<1> QED
  BY <1>1, <1>2, PlaceholdersTyped, PTL DEF Spec

\* Whatever the text and the names: when the pass of rewrite_placeholders over
\* a text is done, exactly the words of it, outside quotes, brackets and
\* comments, that are "@" and a parameter's name have been replaced by that
\* parameter's position.
THEOREM PlaceholdersRewritten == Spec => []RewritesPlaceholders
<1>1. TypeOK /\ RewriteInv => RewritesPlaceholders
  BY RewriteInvOver
<1> QED
  BY <1>1, PlaceholdersTyped, PlaceholdersRewriting, PTL

=============================================================================
