---------------------------- MODULE Values_proofs ----------------------------
(***************************************************************************)
(* Theorems about Values, for mantissas, scales, ticks and days of every   *)
(* size: 96-bit mantissas and nanoseconds, which TLC cannot look at, too.  *)
(***************************************************************************)
EXTENDS Values, WellFoundedInduction, TLAPS

\* Division rounds down.
LEMMA Division ==
    ASSUME NEW a \in Nat, NEW d \in Nat \ {0}
    PROVE  a \div d \in Nat /\ d * (a \div d) <= a /\ a < d * (a \div d) + d
  BY SMT

\* A trailing zero can be put back.
LEMMA TrailingZero ==
    ASSUME NEW v \in Int, v % 10 = 0
    PROVE  v \div 10 \in Int /\ v = 10 * (v \div 10)
  BY SMT

\* A product with a positive factor keeps the order.
LEMMA Cancel ==
    ASSUME NEW a \in Int, NEW b \in Int, NEW d \in Nat \ {0}, d * a < d * b
    PROVE  a < b
  BY SMT

-----------------------------------------------------------------------------
(* Powers of ten.                                                          *)

\* What is so of some number is so of a least one: induction, as the provers
\* can use it.
LEMMA LeastOf ==
    ASSUME NEW S, S \subseteq Nat, S # {}
    PROVE  \E n \in S : \A m \in S : n <= m
<1>1. PICK n \in S : \A m \in S : <<m, n>> \notin OpToRel(<, Nat)
  BY NatLessThanWellFounded, WFMin
<1>2. \A m \in S : <<m, n>> \in OpToRel(<, Nat) <=> m < n
  BY DEF OpToRel
<1>3. \A m \in S : ~(m < n)
  BY <1>1, <1>2, Zenon
<1> QED
  BY <1>3

\* The powers of ten up to the n-th.
Powers(n) == {p \in [0..n -> Nat] : p[0] = 1 /\ \A k \in 1..n : p[k] = 10 * p[k - 1]}

LEMMA PowersExist ==
    ASSUME NEW n \in Nat
    PROVE  Powers(n) # {}
<1> DEFINE Without == {m \in Nat : Powers(m) = {}}
<1> SUFFICES ASSUME Without # {} PROVE FALSE
  OBVIOUS
<1>1. PICK m \in Without : \A k \in Without : m <= k
  BY LeastOf
<1>2. [k \in 0..0 |-> 1] \in Powers(0)
  BY DEF Powers
<1>3. m # 0
  BY <1>2
<1>4. m - 1 \in Nat /\ m - 1 \notin Without
  BY <1>1, <1>3
<1>5. PICK p : p \in Powers(m - 1)
  BY <1>4
<1> DEFINE q == [k \in 0..m |-> IF k = m THEN 10 * p[m - 1] ELSE p[k]]
<1>6. q \in Powers(m)
  <2>1. p \in [0..(m - 1) -> Nat] /\ p[0] = 1 /\ \A k \in 1..(m - 1) : p[k] = 10 * p[k - 1]
    BY <1>5 DEF Powers
  <2>2. p[m - 1] \in Nat /\ \A k \in 0..m : k # m => k \in 0..(m - 1) /\ p[k] \in Nat
    BY <1>4, <2>1
  <2>3. q \in [0..m -> Nat] /\ q[0] = 1
    BY <1>3, <1>4, <2>1, <2>2
  <2>4. ASSUME NEW k \in 1..m PROVE q[k] = 10 * q[k - 1]
    BY <1>4, <2>1
  <2> QED
    BY <2>3, <2>4 DEF Powers
<1> QED
  BY <1>6

LEMMA PowersAgree ==
    ASSUME NEW n \in Nat, NEW m \in Nat, n <= m, NEW p \in Powers(n), NEW q \in Powers(m)
    PROVE  p[n] = q[n]
<1> DEFINE Apart == {k \in 0..n : p[k] # q[k]}
<1> SUFFICES ASSUME Apart # {} PROVE FALSE
  OBVIOUS
<1>1. PICK k \in Apart : \A j \in Apart : k <= j
  <2>1. Apart \subseteq Nat
    OBVIOUS
  <2> QED
    BY <2>1, LeastOf
<1>2. k # 0
  BY <1>1 DEF Powers
<1>3. k - 1 \in 0..n /\ k - 1 \notin Apart
  BY <1>1, <1>2
<1>4. p[k] = 10 * p[k - 1] /\ q[k] = 10 * q[k - 1]
  BY <1>1, <1>2 DEF Powers
<1> QED
  BY <1>1, <1>3, <1>4

\* The recursive definition has a solution.
LEMMA PowerOfTenIs ==
    /\ PowerOfTen \in [Nat -> Nat]
    /\ PowerOfTen[0] = 1
    /\ \A n \in Nat : PowerOfTen[n + 1] = 10 * PowerOfTen[n]
<1> DEFINE g == [n \in Nat |-> (CHOOSE p \in Powers(n) : TRUE)[n]]
<1>1. ASSUME NEW n \in Nat
      PROVE  g[n] \in Nat /\ \A p \in Powers(n) : g[n] = p[n]
  <2>1. (CHOOSE p \in Powers(n) : TRUE) \in Powers(n)
    BY PowersExist
  <2>2. \A p \in Powers(n) : (CHOOSE q \in Powers(n) : TRUE)[n] = p[n]
    BY <2>1, PowersAgree
  <2>3. \A p \in Powers(n) : p[n] \in Nat
    BY DEF Powers
  <2> QED
    BY <2>1, <2>2, <2>3
<1> HIDE DEF g
<1>2. g[0] = 1
  <2>1. PICK p : p \in Powers(0)
    BY PowersExist
  <2> QED
    BY <1>1, <2>1 DEF Powers
<1>3. ASSUME NEW n \in Nat \ {0} PROVE g[n] = 10 * g[n - 1]
  <2>1. PICK p : p \in Powers(n)
    BY PowersExist
  <2>2. g[n] = p[n] /\ p[n] = 10 * p[n - 1]
    <3>1. n \in 1..n
      OBVIOUS
    <3>2. p[n] = 10 * p[n - 1]
      BY <2>1, <3>1 DEF Powers
    <3> QED
      BY <1>1, <2>1, <3>2
  <2>3. PICK q : q \in Powers(n - 1)
    BY PowersExist
  <2>4. g[n - 1] = q[n - 1] /\ q[n - 1] = p[n - 1]
    BY <1>1, <2>1, <2>3, PowersAgree
  <2> QED
    BY <2>2, <2>4
<1>4. g = [n \in Nat |-> IF n = 0 THEN 1 ELSE 10 * g[n - 1]]
  <2>1. g = [n \in Nat |-> g[n]]
    BY DEF g
  <2> QED
    BY <1>2, <1>3, <2>1
<1>5. PowerOfTen = [n \in Nat |-> IF n = 0 THEN 1 ELSE 10 * PowerOfTen[n - 1]]
  <2> QED
    BY <1>4, Zenon DEF PowerOfTen
<1>6. PowerOfTen[0] = 1 /\ \A n \in Nat : PowerOfTen[n + 1] = 10 * PowerOfTen[n]
  BY <1>5
<1>7. ASSUME NEW n \in Nat PROVE PowerOfTen[n] \in Nat
  <2> DEFINE Bad == {m \in Nat : PowerOfTen[m] \notin Nat}
  <2> SUFFICES ASSUME Bad # {} PROVE FALSE
    OBVIOUS
  <2>1. PICK m \in Bad : \A k \in Bad : m <= k
    BY LeastOf
  <2>2. m # 0
    BY <1>6, <2>1
  <2>3. m - 1 \in Nat /\ PowerOfTen[m - 1] \in Nat
    BY <2>1, <2>2
  <2>4. PowerOfTen[(m - 1) + 1] = 10 * PowerOfTen[m - 1]
    BY <1>6, <2>3
  <2>5. (m - 1) + 1 = m
    BY <2>1
  <2> QED
    BY <2>1, <2>3, <2>4, <2>5
<1> QED
  BY <1>5, <1>6, <1>7

LEMMA PowerIsPositive ==
    ASSUME NEW n \in Nat
    PROVE  PowerOfTen[n] \in Nat \ {0}
<1> DEFINE Bad == {m \in Nat : PowerOfTen[m] \notin Nat \ {0}}
<1> SUFFICES ASSUME Bad # {} PROVE FALSE
  OBVIOUS
<1>1. PICK m \in Bad : \A k \in Bad : m <= k
  BY LeastOf
<1>2. m # 0
  BY <1>1, PowerOfTenIs
<1>3. m - 1 \in Nat /\ PowerOfTen[m - 1] \in Nat \ {0} /\ (m - 1) + 1 = m
  BY <1>1, <1>2
<1>4. PowerOfTen[(m - 1) + 1] = 10 * PowerOfTen[m - 1]
  BY <1>3, PowerOfTenIs
<1> QED
  BY <1>1, <1>3, <1>4

\* A higher power is ten times a multiple of a lower one.
LEMMA HigherPower ==
    ASSUME NEW c \in Nat, NEW n \in Nat, c < n
    PROVE  \E k \in Nat : PowerOfTen[n] = PowerOfTen[c] * (10 * k)
<1> DEFINE Multiple(m) == \E k \in Nat : PowerOfTen[m] = PowerOfTen[c] * (10 * k)
           Bad == {m \in Nat : c < m /\ ~Multiple(m)}
<1> SUFFICES ASSUME Bad # {} PROVE FALSE
  OBVIOUS
<1>1. PICK m \in Bad : \A k \in Bad : m <= k
  <2>1. Bad \subseteq Nat
    OBVIOUS
  <2> HIDE DEF Bad
  <2> QED
    BY <2>1, LeastOf
<1>2. m \in Nat /\ c < m /\ ~Multiple(m) /\ m - 1 \in Nat /\ (m - 1) + 1 = m
  BY <1>1
<1>3. PowerOfTen[m] = 10 * PowerOfTen[m - 1] /\ PowerOfTen[m - 1] \in Nat /\ PowerOfTen[c] \in Nat
  BY <1>2, PowerOfTenIs
<1>4. CASE m - 1 = c
  <2>1. PowerOfTen[m] = PowerOfTen[c] * (10 * 1)
    BY <1>3, <1>4
  <2> QED
    BY <1>2, <2>1
<1>5. CASE m - 1 # c
  <2>1. m - 1 \notin Bad
    BY <1>1, <1>2
  <2>2. PICK k \in Nat : PowerOfTen[m - 1] = PowerOfTen[c] * (10 * k)
    BY <1>2, <1>5, <2>1
  <2>3. PowerOfTen[m] = PowerOfTen[c] * (10 * (10 * k)) /\ 10 * k \in Nat
    BY <1>3, <2>2
  <2> QED
    BY <1>2, <2>3
<1> QED
  BY <1>4, <1>5

LEMMA Factors ==
    ASSUME NEW a \in Int, NEW b \in Int, NEW d \in Nat \ {0}, d * a = d * b
    PROVE  a = b
  BY SMT

LEMMA DivisionInt ==
    ASSUME NEW a \in Int, NEW d \in Nat \ {0}
    PROVE  a \div d \in Int /\ a % d \in 0..(d - 1) /\ a = d * (a \div d) + (a % d)
<1>1. a \div d \in Int /\ a % d \in 0..(d - 1)
  BY SMT
<1>2. a = d * (a \div d) + (a % d)
  BY SMT
<1> QED
  BY <1>1, <1>2

\* What was divided out can be divided out again.
LEMMA DividedOut ==
    ASSUME NEW v \in Int, NEW f \in Nat \ {0}
    PROVE  (v * f) \div f = v
<1> DEFINE q == (v * f) \div f
           r == (v * f) % f
<1>1. v * f \in Int
  OBVIOUS
<1>2. q \in Int /\ r \in 0..(f - 1) /\ v * f = f * q + r
  BY <1>1, DivisionInt
<1> HIDE DEF q, r
<1>3. r = f * (v - q)
  BY <1>2
<1>4. f * (v - q) < f * 1 /\ f * (-1) < f * (v - q)
  BY <1>2, <1>3
<1>5. v - q < 1 /\ -1 < v - q
  BY <1>2, <1>4, Cancel
<1>6. v = q
  BY <1>2, <1>5
<1> QED
  BY <1>6 DEF q

\* A number with no trailing zero left is no multiple of a higher power.
LEMMA NoMoreZeros ==
    ASSUME NEW v \in Int, NEW c \in Nat, NEW n \in Nat, c < n,
           (v * PowerOfTen[c]) % PowerOfTen[n] = 0
    PROVE  v % 10 = 0
<1> DEFINE whole == v * PowerOfTen[c]
           q == whole \div PowerOfTen[n]
<1>1. PowerOfTen[c] \in Nat \ {0} /\ PowerOfTen[n] \in Nat \ {0}
  BY PowerIsPositive
<1>2. whole \in Int
  BY <1>1
<1>3. q \in Int /\ whole = PowerOfTen[n] * q
  <2> HIDE DEF whole
  <2>1. q \in Int /\ whole = PowerOfTen[n] * q + (whole % PowerOfTen[n])
    BY <1>1, <1>2, DivisionInt
  <2>2. whole % PowerOfTen[n] = 0
    BY DEF whole
  <2> HIDE DEF q
  <2>3. PowerOfTen[n] * q \in Int
    BY <1>1, <2>1
  <2> QED
    BY <2>1, <2>2, <2>3
<1>4. PICK k \in Nat : PowerOfTen[n] = PowerOfTen[c] * (10 * k)
  BY HigherPower
<1>5. PowerOfTen[c] * v = PowerOfTen[c] * (10 * (k * q))
  <2> HIDE DEF q
  <2>1. v * PowerOfTen[c] = (PowerOfTen[c] * (10 * k)) * q
    BY <1>3, <1>4
  <2> QED
    BY <1>1, <1>3, <2>1
<1>6. v = 10 * (k * q) /\ k * q \in Int
  <2> HIDE DEF q
  <2>1. k * q \in Int /\ 10 * (k * q) \in Int
    BY <1>3
  <2> QED
    BY <1>1, <1>5, <2>1, Factors
<1> QED
  <2> DEFINE w == k * q
  <2>1. w \in Int /\ v = 10 * w
    BY <1>6
  <2> HIDE DEF w
  <2> QED
    BY <2>1

-----------------------------------------------------------------------------
(* The legacy datetime.                                                    *)

\* The tick chosen is within half a tick of the time.
LEMMA NearestTickIsNear ==
    ASSUME NEW t \in Nat
    PROVE  /\ NearestTick(t) \in Nat
           /\ 2 * (3 * t - NanosPer3 * NearestTick(t)) <= NanosPer3
           /\ 2 * (NanosPer3 * NearestTick(t) - 3 * t) <= NanosPer3
<1> DEFINE half == NanosPer3 \div 2
           x == 3 * t + half
           p == NanosPer3 * NearestTick(t)
<1>1. NanosPer3 \in Nat \ {0}
  BY TickAssumption
<1>2. half \in Nat /\ 2 * half <= NanosPer3 /\ NanosPer3 < 2 * half + 2
  BY <1>1, Division, SMT
<1>3. x \in Nat /\ NearestTick(t) = x \div NanosPer3
  BY <1>2 DEF NearestTick
<1>4. NearestTick(t) \in Nat /\ p <= x /\ x < p + NanosPer3
  <2> HIDE DEF x
  <2> QED
    BY <1>1, <1>3, Division
<1>5. p \in Int
  BY <1>1, <1>4, SMT
<1>6. 2 * (3 * t - p) <= NanosPer3 /\ 2 * (p - 3 * t) <= NanosPer3
  <2> HIDE DEF p, half
  <2> QED
    BY <1>1, <1>2, <1>4, <1>5, SMT
<1> QED
  BY <1>4, <1>6

\* A time of a day, leap second included, as the model's assumption has it.
InADay(t) == t \in Nat /\ 3 * t + NanosPer3 < 2 * (TicksPerDay * NanosPer3)

LEMMA TimesInADay ==
    \A t \in Times \cup {0} : InADay(t)
<1>1. NanosPer3 \in Nat \ {0} /\ TicksPerDay \in Nat \ {0}
  BY TickAssumption
<1>2. NanosPer3 < 2 * (TicksPerDay * NanosPer3)
  <2>1. PICK k \in Nat : TicksPerDay = k + 1
    BY <1>1, SMT
  <2>2. TicksPerDay * NanosPer3 = k * NanosPer3 + NanosPer3 /\ k * NanosPer3 \in Nat
    BY <1>1, <2>1, SMT
  <2> QED
    BY <1>1, <2>2, SMT
<1>3. InADay(0)
  BY <1>1, <1>2, SMT DEF InADay
<1> QED
  BY <1>3, LeapAssumption, TimesAssumption DEF InADay

\* What is bound is a tick of the day or of the next, and stands for the tick
\* chosen.
LEMMA LegacyIsTick ==
    ASSUME NEW t, InADay(t)
    PROVE  /\ LegacyDateTime(t) \in [days : {0, 1}, ticks : 0..(TicksPerDay - 1)]
           /\ TicksPerDay * LegacyDateTime(t).days + LegacyDateTime(t).ticks = NearestTick(t)
<1> DEFINE q == NearestTick(t)
           p == NanosPer3 * q
<1>1. NanosPer3 \in Nat \ {0} /\ TicksPerDay \in Nat \ {0}
  BY TickAssumption
<1>2. t \in Nat /\ 3 * t + NanosPer3 < 2 * (TicksPerDay * NanosPer3)
  BY DEF InADay
<1>3. q \in Nat /\ 2 * (p - 3 * t) <= NanosPer3
  BY <1>2, NearestTickIsNear
<1>4. q < 2 * TicksPerDay
  <2>1. p \in Nat /\ TicksPerDay * NanosPer3 \in Nat
    BY <1>1, <1>3, SMT
  <2>2. p < 2 * (TicksPerDay * NanosPer3)
    <3> DEFINE w == TicksPerDay * NanosPer3
    <3> HIDE DEF p, w
    <3> QED
      BY <1>1, <1>2, <1>3, <2>1, SMT DEF w
  <2>3. NanosPer3 * q < NanosPer3 * (2 * TicksPerDay)
    BY <1>1, <1>3, <2>2, SMT
  <2> HIDE DEF q, p
  <2> QED
    BY <1>1, <1>3, <2>3, Cancel
<1>5. CASE q >= TicksPerDay
  <2>1. LegacyDateTime(t) = [days |-> 1, ticks |-> q - TicksPerDay]
    BY <1>5 DEF LegacyDateTime
  <2>2. LegacyDateTime(t).days = 1 /\ LegacyDateTime(t).ticks = q - TicksPerDay
    BY <2>1
  <2> HIDE DEF q
  <2>3. /\ q - TicksPerDay \in 0..(TicksPerDay - 1)
        /\ TicksPerDay * 1 + (q - TicksPerDay) = q
    BY <1>1, <1>3, <1>4, <1>5, SMT
  <2>4. LegacyDateTime(t) \in [days : {0, 1}, ticks : 0..(TicksPerDay - 1)]
    BY <2>1, <2>3
  <2> QED
    BY <2>2, <2>3, <2>4 DEF q
<1>6. CASE ~(q >= TicksPerDay)
  <2>1. LegacyDateTime(t) = [days |-> 0, ticks |-> q]
    BY <1>6 DEF LegacyDateTime
  <2>2. LegacyDateTime(t).days = 0 /\ LegacyDateTime(t).ticks = q
    BY <2>1
  <2> HIDE DEF q
  <2>3. /\ q \in 0..(TicksPerDay - 1)
        /\ TicksPerDay * 0 + (q) = q
    BY <1>1, <1>3, <1>6, SMT
  <2>4. LegacyDateTime(t) \in [days : {0, 1}, ticks : 0..(TicksPerDay - 1)]
    BY <2>1, <2>3
  <2> QED
    BY <2>2, <2>3, <2>4 DEF q
<1> QED
  BY <1>5, <1>6

-----------------------------------------------------------------------------
(* Invariance.                                                             *)

\* Where each conversion has got to.
BindInv ==
    /\ time \in Times \cup {0}
    /\ doing = "decimal" => time = 0
    /\ time # 0 /\ doing = "done" => legacy = LegacyDateTime(time)

ReadInv ==
    /\ factor \in Nat \ {0}
    /\ numeric.value \in Int
    /\ value \in Int
    /\ value * factor = numeric.value
    /\ decimal = "ok" => Fits(value, scale)
    /\ decimal # "none" => doing = "done"

LEMMA TypeInit ==
    Init => TypeOK
<1> SUFFICES ASSUME Init
             PROVE  TypeOK
  OBVIOUS
<1>1. numeric \in [value : Int, scale : Nat] /\ time \in Nat /\ doing \in {"decimal", "datetime"}
  <2>1. CASE InitRead
    BY <2>1, NumericsAssumption DEF InitRead
  <2>2. CASE InitBind
    BY <2>2, TimesAssumption DEF InitBind
  <2> QED
    BY <2>1, <2>2 DEF Init
<1>2. legacy \in [days : {0, 1}, ticks : 0..(TicksPerDay - 1)]
  BY TickAssumption DEF Init, Nothing
<1> QED
  BY <1>1, <1>2 DEF Init, TypeOK

LEMMA TypeStep ==
    TypeOK /\ BindInv /\ [Next]_vars => TypeOK'
<1> SUFFICES ASSUME TypeOK, BindInv, [Next]_vars
             PROVE  TypeOK'
  OBVIOUS
<1>1. CASE Convert
  BY <1>1 DEF Convert, TypeOK, bindVars
<1>2. CASE Refuse
  BY <1>2 DEF Refuse, TypeOK, bindVars
<1>3. CASE DropZero
  <2>1. value' \in Int /\ scale' \in Nat /\ factor' \in Nat \ {0}
    BY <1>3, TrailingZero, SMT DEF DropZero, TypeOK
  <2> QED
    BY <1>3, <2>1 DEF DropZero, TypeOK, bindVars
<1>4. CASE Bind
  <2>1. legacy' \in [days : {0, 1}, ticks : 0..(TicksPerDay - 1)]
    BY <1>4, TimesInADay, LegacyIsTick DEF Bind, BindInv
  <2> QED
    BY <1>4, <2>1 DEF Bind, TypeOK, readVars
<1>5. CASE UNCHANGED vars
  BY <1>5 DEF TypeOK, vars, readVars, bindVars
<1> QED
  BY <1>1, <1>2, <1>3, <1>4, <1>5 DEF Next, Done

LEMMA BindInit ==
    Init => BindInv
<1> SUFFICES ASSUME Init
             PROVE  BindInv
  OBVIOUS
<1>1. CASE InitRead
  BY <1>1 DEF InitRead, BindInv
<1>2. CASE InitBind
  BY <1>2 DEF InitBind, BindInv
<1> QED
  BY <1>1, <1>2 DEF Init

LEMMA BindStep ==
    BindInv /\ [Next]_vars => BindInv'
<1> SUFFICES ASSUME BindInv, [Next]_vars
             PROVE  BindInv'
  OBVIOUS
<1>1. CASE Convert
  BY <1>1 DEF Convert, BindInv, bindVars
<1>2. CASE Refuse
  BY <1>2 DEF Refuse, BindInv, bindVars
<1>3. CASE DropZero
  BY <1>3 DEF DropZero, BindInv, bindVars
<1>4. CASE Bind
  BY <1>4 DEF Bind, BindInv, LegacyDateTime, NearestTick
<1>5. CASE UNCHANGED vars
  BY <1>5 DEF BindInv, vars, bindVars
<1> QED
  BY <1>1, <1>2, <1>3, <1>4, <1>5 DEF Next, Done

LEMMA ReadInit ==
    Init => ReadInv
<1> SUFFICES ASSUME Init
             PROVE  ReadInv
  OBVIOUS
<1>1. numeric.value \in Int
  BY TypeInit DEF TypeOK
<1> QED
  BY <1>1 DEF Init, ReadInv

LEMMA ReadStep ==
    ReadInv /\ [Next]_vars => ReadInv'
<1> SUFFICES ASSUME ReadInv, [Next]_vars
             PROVE  ReadInv'
  OBVIOUS
<1>1. CASE Convert
  BY <1>1 DEF Convert, ReadInv, Fits
<1>2. CASE Refuse
  BY <1>2 DEF Refuse, ReadInv
<1>3. CASE DropZero
  <2> DEFINE v == value \div 10
  <2>1. v \in Int /\ value = 10 * v /\ value' = v /\ factor' = 10 * factor
    BY <1>3, TrailingZero DEF DropZero, ReadInv
  <2>2. factor' \in Nat \ {0} /\ value' \in Int
    BY <2>1, SMT DEF ReadInv
  <2>3. value' * factor' = numeric.value
    <3> HIDE DEF v
    <3> QED
      BY <2>1, SMT DEF ReadInv
  <2>4. decimal = "none"
    BY <1>3 DEF DropZero, ReadInv
  <2> QED
    BY <1>3, <2>2, <2>3, <2>4 DEF DropZero, ReadInv
<1>4. CASE Bind
  BY <1>4 DEF Bind, ReadInv, readVars, Fits
<1>5. CASE UNCHANGED vars
  BY <1>5 DEF ReadInv, vars, readVars, Fits
<1> QED
  BY <1>1, <1>2, <1>3, <1>4, <1>5 DEF Next, Done

\* Every variable keeps its type; in particular a datetime bound is a tick of
\* its day or of the next, never one past the end of a day.
THEOREM ValuesTyped == Spec => []TypeOK
<1>1. Init => TypeOK /\ BindInv
  BY TypeInit, BindInit
<1>2. TypeOK /\ BindInv /\ [Next]_vars => (TypeOK /\ BindInv)'
  BY TypeStep, BindStep
<1> QED
  BY <1>1, <1>2, PTL DEF Spec

\* A numeric is read to the last digit, whatever the width of either side.
THEOREM DecimalExact == Spec => []DecimalIsExact
<1>1. Init => ReadInv
  BY ReadInit
<1>2. ReadInv /\ [Next]_vars => ReadInv'
  BY ReadStep
<1>3. ReadInv => DecimalIsExact
  BY DEF ReadInv, DecimalIsExact
<1> QED
  BY <1>1, <1>2, <1>3, PTL DEF Spec

-----------------------------------------------------------------------------
(* Refusing.                                                               *)

\* The zeros dropped so far.
Dropped == numeric.scale - scale

\* Without `dropped` of its zeros the number is no Decimal either.
NoDecimal(dropped) ==
    numeric.value % PowerOfTen[dropped] = 0 =>
        ~Fits(numeric.value \div PowerOfTen[dropped], numeric.scale - dropped)

TriedInv ==
    /\ Dropped \in Nat
    /\ factor = PowerOfTen[Dropped]
    /\ \A n \in 0..(Dropped - 1) : NoDecimal(n)
    /\ RefusedHasNoDecimal

LEMMA TriedInit ==
    Init => TriedInv
<1> SUFFICES ASSUME Init
             PROVE  TriedInv
  OBVIOUS
<1>1. scale \in Nat /\ numeric.scale = scale /\ factor = 1 /\ decimal # "error"
  BY TypeInit DEF Init, TypeOK
<1>2. Dropped = 0 /\ PowerOfTen[Dropped] = 1
  BY <1>1, PowerOfTenIs DEF Dropped
<1> QED
  BY <1>1, <1>2 DEF TriedInv, RefusedHasNoDecimal

\* The value tried now is what dropping that many zeros leaves.
LEMMA TriedNow ==
    ASSUME TypeOK, ReadInv, TriedInv, ~Fits(value, scale)
    PROVE  NoDecimal(Dropped)
<1>1. factor \in Nat \ {0} /\ value \in Int /\ numeric.value = value * PowerOfTen[Dropped]
  BY DEF ReadInv, TriedInv
<1>2. numeric.value \div PowerOfTen[Dropped] = value
  BY <1>1, DividedOut DEF TriedInv
<1>3. numeric.scale - Dropped = scale
  BY DEF Dropped, TypeOK
<1> QED
  BY <1>2, <1>3 DEF NoDecimal

LEMMA TriedStep ==
    TypeOK /\ ReadInv /\ TriedInv /\ [Next]_vars => TriedInv'
<1> SUFFICES ASSUME TypeOK, ReadInv, TriedInv, [Next]_vars
             PROVE  TriedInv'
  OBVIOUS
<1>1. ASSUME UNCHANGED <<numeric, scale, factor>>, decimal' = "error" => decimal = "error"
      PROVE  TriedInv'
  BY <1>1 DEF TriedInv, Dropped, NoDecimal, RefusedHasNoDecimal
<1>2. CASE Convert \/ Bind \/ UNCHANGED vars
  BY <1>1, <1>2 DEF Convert, Bind, vars, readVars
<1>3. CASE Refuse
  <2>1. UNCHANGED <<numeric, scale, factor>> /\ ~Fits(value, scale)
        /\ (scale = 0 \/ value % 10 # 0)
    BY <1>3 DEF Refuse
  <2>2. Dropped \in Nat /\ scale \in Nat /\ numeric.scale \in Nat /\ value \in Int
    BY DEF TypeOK, TriedInv
  <2>3. ASSUME NEW n \in 0..numeric.scale
        PROVE  NoDecimal(n)
    <3>1. CASE n < Dropped
      BY <2>2, <3>1 DEF TriedInv
    <3>2. CASE n = Dropped
      BY <2>1, <3>2, TriedNow
    <3>3. CASE n > Dropped
      <4>1. value % 10 # 0
        BY <2>1, <2>2, <3>3 DEF Dropped
      <4>2. numeric.value = value * PowerOfTen[Dropped]
        BY DEF ReadInv, TriedInv
      <4>3. numeric.value % PowerOfTen[n] # 0
        BY <2>2, <3>3, <4>1, <4>2, NoMoreZeros
      <4> QED
        BY <4>3 DEF NoDecimal
    <3> QED
      BY <2>2, <3>1, <3>2, <3>3
  <2>4. RefusedHasNoDecimal'
    BY <2>1, <2>3 DEF RefusedHasNoDecimal, NoDecimal
  <2> QED
    BY <2>1, <2>4 DEF TriedInv, Dropped, NoDecimal
<1>4. CASE DropZero
  <2>1. /\ ~Fits(value, scale) /\ scale' = scale - 1 /\ factor' = 10 * factor
        /\ UNCHANGED <<numeric, decimal>> /\ decimal = "none"
    BY <1>4 DEF DropZero, ReadInv
  <2>2. Dropped \in Nat /\ Dropped' = Dropped + 1
    BY <2>1 DEF TypeOK, TriedInv, Dropped
  <2>3. factor' = PowerOfTen[Dropped']
    BY <2>1, <2>2, PowerOfTenIs DEF TriedInv
  <2>4. \A n \in 0..Dropped : NoDecimal(n)
    BY <2>1, <2>2, TriedNow DEF TriedInv
  <2>5. \A n \in 0..(Dropped' - 1) : NoDecimal(n)'
    BY <2>1, <2>2, <2>4 DEF NoDecimal
  <2>6. RefusedHasNoDecimal'
    BY <2>1 DEF RefusedHasNoDecimal
  <2> QED
    BY <2>2, <2>3, <2>5, <2>6 DEF TriedInv
<1> QED
  BY <1>2, <1>3, <1>4 DEF Next, Done

\* A numeric refused has no representation as a Decimal, whatever number of
\* its zeros is dropped, and whatever the sizes of either.
THEOREM RefusedRightly == Spec => []RefusedHasNoDecimal
<1>1. Init => TypeOK /\ BindInv /\ ReadInv /\ TriedInv
  BY TypeInit, BindInit, ReadInit, TriedInit
<1>2. TypeOK /\ BindInv /\ ReadInv /\ TriedInv /\ [Next]_vars
          => (TypeOK /\ BindInv /\ ReadInv /\ TriedInv)'
  BY TypeStep, BindStep, ReadStep, TriedStep
<1>3. TriedInv => RefusedHasNoDecimal
  BY DEF TriedInv
<1> QED
  BY <1>1, <1>2, <1>3, PTL DEF Spec

\* A time is bound as the datetime nearest to it, whatever the resolution of
\* either and whatever the length of a day.
THEOREM LegacyIsNearest == Spec => []BoundIsNearest
<1>1. Init => BindInv
  BY BindInit
<1>2. BindInv /\ [Next]_vars => BindInv'
  BY BindStep
<1>3. BindInv => BoundIsNearest
  <2> SUFFICES ASSUME BindInv, time # 0, doing = "done"
               PROVE  BoundIsNearest
    BY DEF BoundIsNearest
  <2>1. InADay(time) /\ legacy = LegacyDateTime(time)
    BY TimesInADay DEF BindInv
  <2>2. TicksPerDay * legacy.days + legacy.ticks = NearestTick(time)
    BY <2>1, LegacyIsTick
  <2>3. time \in Nat
    BY <2>1 DEF InADay
  <2> QED
    BY <2>2, <2>3, NearestTickIsNear DEF BoundIsNearest
<1> QED
  BY <1>1, <1>2, <1>3, PTL DEF Spec

=============================================================================
