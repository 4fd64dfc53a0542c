------------------------------- MODULE Lists --------------------------------
(***************************************************************************)
(* Lists filtered by position, which the models use for the comprehensions *)
(* of the code ([x for x in xs if ...]), sums and products.                *)
(***************************************************************************)
EXTENDS Naturals, Sequences, FiniteSets

\* The place of position n among the positions S.
Rank(S, n) == Cardinality({m \in S : m <= n})

\* The elements of q at the positions S, in their order.
Sublist(q, S) == [k \in 1..Cardinality(S) |-> q[CHOOSE n \in S : Rank(S, n) = k]]

\* The sum of the first n elements of f.
Total(f, n) == LET upTo[k \in 0..n] == IF k = 0 THEN 0 ELSE upTo[k - 1] + f[k] IN upTo[n]

\* The product of f over the elements of S.
ProductOf(f, S) ==
    LET times[T \in SUBSET S] ==
            IF T = {} THEN 1 ELSE LET x == CHOOSE x \in T : TRUE IN f[x] * times[T \ {x}]
    IN times[S]

\* The sum of f over the elements of S.
SumOver(f, S) ==
    LET plus[T \in SUBSET S] ==
            IF T = {} THEN 0 ELSE LET x == CHOOSE x \in T : TRUE IN f[x] + plus[T \ {x}]
    IN plus[S]
=============================================================================
