--------------------------- MODULE RecursionProofs ---------------------------
(***************************************************************************)
(* Induction and recursion over the natural numbers, stated about sets and *)
(* functions instead of operators: the provers can apply these where they  *)
(* cannot instantiate an operator parameter.                               *)
(***************************************************************************)
EXTENDS Integers, WellFoundedInduction, TLAPS

\* Induction: a property is the set of the numbers that have it.
LEMMA SetInduction ==
    ASSUME NEW T, 0 \in T, \A n \in Nat : n \in T => n + 1 \in T
    PROVE  Nat \subseteq T
<1> SUFFICES ASSUME Nat \ T # {} PROVE FALSE
    OBVIOUS
<1> DEFINE R == OpToRel(<, Nat)
<1>1. PICK n \in Nat \ T : \A m \in Nat \ T : ~ (<< m, n >> \in R)
    <2>1. IsWellFoundedOn(R, Nat)
        BY NatLessThanWellFounded
    <2> HIDE DEF R
    <2>2. QED
        BY <2>1, WFMin
<1>2. \A m \in Nat \ T : ~ (m < n)
    BY <1>1 DEF OpToRel
<1> HIDE DEF R
<1>3. n - 1 \in Nat \ T /\ n - 1 < n
    BY <1>1
<1>4. QED
    BY <1>2, <1>3

\* g runs step n times, from x.
Runs(g, S, x, step, n) ==
    /\ g \in [0..n -> S] /\ g[0] = x
    /\ \A i \in 0..n - 1 : g[i + 1] = step[g[i]]

\* f runs step for ever, from x.
Iterates(f, x, step) == f = [n \in Nat |-> IF n = 0 THEN x ELSE step[f[n - 1]]]

\* Runs of any lengths agree as far as both go.
LEMMA RunsAgree ==
    ASSUME NEW S, NEW x \in S, NEW step \in [S -> S]
    PROVE  \A i \in Nat : \A m, n \in Nat : \A g, h :
               i <= m /\ i <= n /\ Runs(g, S, x, step, m) /\ Runs(h, S, x, step, n)
               => g[i] = h[i]
<1> DEFINE Agree == { i \in Nat : \A m, n \in Nat : \A g, h :
               i <= m /\ i <= n /\ Runs(g, S, x, step, m) /\ Runs(h, S, x, step, n)
               => g[i] = h[i] }
<1>1. 0 \in Agree
    BY DEF Runs
<1>2. ASSUME NEW i \in Nat, i \in Agree PROVE i + 1 \in Agree
    <2> SUFFICES ASSUME NEW m \in Nat, NEW n \in Nat, NEW g, NEW h,
                        i + 1 <= m, i + 1 <= n,
                        Runs(g, S, x, step, m), Runs(h, S, x, step, n)
                 PROVE  g[i + 1] = h[i + 1]
        OBVIOUS
    <2>1. g[i] = h[i]
        <3>1. i <= m /\ i <= n
            OBVIOUS
        <3>2. QED
            BY <1>2, <3>1
    <2>2. i \in 0..m - 1 /\ i \in 0..n - 1
        OBVIOUS
    <2>3. QED
        BY <2>1, <2>2 DEF Runs
<1> HIDE DEF Agree
<1>3. Nat \subseteq Agree
    BY <1>1, <1>2, SetInduction
<1>4. QED
    BY <1>3 DEF Agree

\* There is a run of any length.
LEMMA RunsExist ==
    ASSUME NEW S, NEW x \in S, NEW step \in [S -> S]
    PROVE  \A n \in Nat : \E g : Runs(g, S, x, step, n)
<1> DEFINE T == { n \in Nat : \E g : Runs(g, S, x, step, n) }
<1>1. 0 \in T
    <2>1. Runs([i \in 0..0 |-> x], S, x, step, 0)
        BY DEF Runs
    <2>2. QED
        BY <2>1
<1>2. ASSUME NEW n \in Nat, n \in T PROVE n + 1 \in T
    <2>1. PICK g : Runs(g, S, x, step, n)
        BY <1>2
    <2> DEFINE h == [i \in 0..n + 1 |-> IF i = n + 1 THEN step[g[n]] ELSE g[i]]
    <2>2. g[n] \in S /\ step[g[n]] \in S
        BY <2>1 DEF Runs
    <2>3. h \in [0..n + 1 -> S]
        BY <2>1, <2>2 DEF Runs
    <2>4. h[0] = x
        BY <2>1 DEF Runs
    <2>5. ASSUME NEW i \in 0..n PROVE h[i + 1] = step[h[i]]
        <3>1. CASE i = n
            BY <3>1
        <3>2. CASE i # n
            <4>1. i \in 0..n - 1 /\ i + 1 \in 0..n + 1 /\ i \in 0..n + 1 /\ i # n + 1 /\ i + 1 # n + 1
                BY <3>2
            <4>2. g[i + 1] = step[g[i]]
                BY <2>1, <4>1 DEF Runs
            <4>3. QED
                BY <4>1, <4>2
        <3>3. QED
            BY <3>1, <3>2
    <2>6. Runs(h, S, x, step, n + 1)
        <3>1. (n + 1) - 1 = n
            OBVIOUS
        <3>2. QED
            BY <2>3, <2>4, <2>5, <3>1 DEF Runs
    <2>7. QED
        BY <2>6
<1> HIDE DEF T
<1>3. Nat \subseteq T
    BY <1>1, <1>2, SetInduction
<1>4. QED
    BY <1>3 DEF T

\* A function that is defined by recursion, each value from the one before,
\* exists: what its CHOOSE picks satisfies its definition.
LEMMA RecursionIsDefined ==
    ASSUME NEW S, NEW x \in S, NEW step \in [S -> S]
    PROVE  \E f \in [Nat -> S] : Iterates(f, x, step)
<1> DEFINE run(n) == CHOOSE g : Runs(g, S, x, step, n)
           f == [n \in Nat |-> run(n)[n]]
<1>1. \A n \in Nat : Runs(run(n), S, x, step, n)
    BY RunsExist
<1> HIDE DEF run
<1>2. \A n \in Nat : run(n)[n] \in S
    BY <1>1 DEF Runs
<1>3. run(0)[0] = x
    BY <1>1 DEF Runs
<1>4. ASSUME NEW n \in Nat, n # 0 PROVE run(n)[n] = step[run(n - 1)[n - 1]]
    <2>1. n - 1 \in Nat /\ n - 1 \in 0..n - 1 /\ n - 1 <= n /\ n - 1 <= n - 1 /\ (n - 1) + 1 = n
        BY <1>4
    <2>2. run(n)[n] = step[run(n)[n - 1]]
        BY <1>1, <2>1 DEF Runs
    <2>3. Runs(run(n), S, x, step, n) /\ Runs(run(n - 1), S, x, step, n - 1)
        BY <1>1, <2>1
    <2>4. run(n)[n - 1] = run(n - 1)[n - 1]
        BY <2>1, <2>3, RunsAgree
    <2>5. QED
        BY <2>2, <2>4
<1>5. f \in [Nat -> S]
    BY <1>2
<1>6. ASSUME NEW n \in Nat PROVE f[n] = IF n = 0 THEN x ELSE step[f[n - 1]]
    BY <1>3, <1>4
<1>7. f = [n \in Nat |-> IF n = 0 THEN x ELSE step[f[n - 1]]]
    <2>1. f = [n \in Nat |-> f[n]]
        OBVIOUS
    <2> HIDE DEF f
    <2>2. QED
        BY <1>6, <2>1
<1>8. QED
    BY <1>5, <1>7 DEF Iterates

\* The same when the value depends on the number it is reached with.
Counts(f, x, step) == f[0] = x /\ \A n \in Nat : f[n + 1] = step[<< n + 1, f[n] >>]

LEMMA IndexedRecursionIsDefined ==
    ASSUME NEW S, NEW x \in S, NEW step \in [Nat \X S -> S]
    PROVE  \E f \in [Nat -> S] : Counts(f, x, step)
<1> DEFINE P == Nat \X S
           next == [q \in P |-> << q[1] + 1, step[<< q[1] + 1, q[2] >>] >>]
           first == << 0, x >>
<1>1. first \in P /\ next \in [P -> P]
    <2>1. ASSUME NEW q \in P PROVE << q[1] + 1, step[<< q[1] + 1, q[2] >>] >> \in P
        <3>1. q[1] \in Nat /\ q[2] \in S /\ q[1] + 1 \in Nat
            BY <2>1
        <3>2. step[<< q[1] + 1, q[2] >>] \in S
            BY <3>1
        <3>3. QED
            BY <3>1, <3>2
    <2>2. QED
        BY <2>1
<1>2. PICK g \in [Nat -> P] : Iterates(g, first, next)
    <2> HIDE DEF P, next, first
    <2>1. QED
        BY <1>1, RecursionIsDefined, Zenon
<1>3. g[0] = first
    BY <1>2 DEF Iterates
<1>4. ASSUME NEW n \in Nat PROVE g[n + 1] = << g[n][1] + 1, step[<< g[n][1] + 1, g[n][2] >>] >>
    <2>1. g[n] \in P
        BY <1>2
    <2>2. g[n + 1] = next[g[n]]
        <3> HIDE DEF next
        <3>1. n + 1 \in Nat /\ n + 1 # 0 /\ (n + 1) - 1 = n
            OBVIOUS
        <3>2. QED
            BY <1>2, <3>1 DEF Iterates
    <2>3. QED
        BY <2>1, <2>2
<1> HIDE DEF next
<1>5. ASSUME NEW n \in Nat
      PROVE  g[n + 1][1] = g[n][1] + 1 /\ g[n + 1][2] = step[<< g[n][1] + 1, g[n][2] >>]
    <2>1. PICK y, z : y = g[n][1] + 1 /\ z = step[<< g[n][1] + 1, g[n][2] >>]
        OBVIOUS
    <2>2. g[n + 1] = << y, z >>
        BY <1>4, <2>1
    <2>3. g[n + 1][1] = y /\ g[n + 1][2] = z
        BY <2>2
    <2>4. QED
        BY <2>1, <2>3
<1> DEFINE Counted == {n \in Nat : g[n][1] = n}
<1>6. 0 \in Counted
    BY <1>3
<1>7. ASSUME NEW n \in Nat, n \in Counted PROVE n + 1 \in Counted
    <2>1. g[n][1] = n /\ n + 1 \in Nat
        BY <1>7
    <2>2. g[n + 1][1] = g[n][1] + 1
        BY <1>5
    <2>3. QED
        BY <2>1, <2>2
<1>8. Nat \subseteq Counted
    <2> HIDE DEF Counted
    <2>1. QED
        BY <1>6, <1>7, SetInduction
<1> DEFINE f == [n \in Nat |-> g[n][2]]
<1>9. f \in [Nat -> S]
    BY <1>2
<1>10. f[0] = x
    BY <1>3
<1>11. ASSUME NEW n \in Nat PROVE f[n + 1] = step[<< n + 1, f[n] >>]
    <2>1. g[n][1] = n
        BY <1>8
    <2>2. g[n + 1][2] = step[<< g[n][1] + 1, g[n][2] >>]
        BY <1>5
    <2>3. n + 1 \in Nat
        OBVIOUS
    <2>4. QED
        BY <2>1, <2>2, <2>3
<1>12. QED
    BY <1>9, <1>10, <1>11 DEF Counts

\* A set of numbers with a bound has a greatest one.
LEMMA BoundedHasGreatest ==
    ASSUME NEW S \in SUBSET Nat, S # {}, NEW n \in Nat, \A x \in S : x <= n
    PROVE  \E m \in S : \A x \in S : x <= m
<1> DEFINE T == {d \in Nat : \A x \in S : x + d <= n}
<1>1. PICK x \in S : TRUE
    OBVIOUS
<1>2. 0 \in T
    OBVIOUS
<1>3. ~ (Nat \subseteq T)
    <2>1. n + 1 \in Nat /\ ~ (x + (n + 1) <= n)
        BY <1>1
    <2>2. QED
        BY <1>1, <2>1
<1>4. PICK d \in Nat : d \in T /\ d + 1 \notin T
    <2> HIDE DEF T
    <2>1. QED
        BY <1>2, <1>3, SetInduction
<1>5. PICK m \in S : ~ (m + (d + 1) <= n)
    BY <1>4
<1>6. \A y \in S : y <= m
    BY <1>4, <1>5
<1>7. QED
    BY <1>6

\* A set of numbers has a least one.
LEMMA NaturalsHaveLeast ==
    ASSUME NEW S \in SUBSET Nat, S # {}
    PROVE  \E m \in S : \A x \in S : m <= x
<1> DEFINE T == {n \in Nat : \A x \in S : n <= x}
<1>1. PICK x \in S : TRUE
    OBVIOUS
<1>2. 0 \in T
    OBVIOUS
<1>3. ~ (Nat \subseteq T)
    <2>1. x + 1 \in Nat /\ ~ (x + 1 <= x)
        BY <1>1
    <2>2. QED
        BY <1>1, <2>1
<1>4. PICK n \in Nat : n \in T /\ n + 1 \notin T
    <2> HIDE DEF T
    <2>1. QED
        BY <1>2, <1>3, SetInduction
<1>5. PICK m \in S : ~ (n + 1 <= m)
    BY <1>4
<1>6. \A y \in S : m <= y
    <2>1. m = n
        BY <1>4, <1>5
    <2>2. QED
        BY <1>4, <2>1
<1>7. QED
    BY <1>6
=============================================================================
