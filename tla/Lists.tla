--------------------------------- MODULE Lists ---------------------------------
(* Lists and numbers, as the modules of the queries use them. *)
EXTENDS Integers, Sequences, FiniteSets, SequencesExt, FiniteSetsExt

Least(a, b) == IF a <= b THEN a ELSE b
Greatest(a, b) == IF a <= b THEN b ELSE a
Magnitude(a) == IF a < 0 THEN -a ELSE a

\* The elements of s, in their order, at the places that are chosen.
ElementsAt(s, chosen) ==
    LET taken[n \in 0 .. Len(s)] ==
            IF n = 0 THEN <<>>
            ELSE IF n \in chosen THEN Append(taken[n - 1], s[n]) ELSE taken[n - 1]
    IN  taken[Len(s)]

\* Those that pass a test.
Selected(s, Test(_)) == ElementsAt(s, { i \in DOMAIN s : Test(s[i]) })

\* How many of 1 .. n come before each, where equals keep their order.
Ranks(n, before) ==
    [i \in 1 .. n |-> Cardinality({ j \in 1 .. n :
        <<j, i>> \in before \/ (j <= i /\ <<i, j>> \notin before) })]

\* The elements of s by their ranks.
ByRank(s, rank) == [n \in 1 .. Len(s) |-> s[CHOOSE i \in 1 .. Len(s) : rank[i] = n]]

\* A stable sort: what Before does not tell apart keeps its order.
StableSort(s, Before(_, _)) ==
    ByRank(s, Ranks(Len(s), { p \in (1 .. Len(s)) \X (1 .. Len(s)) : Before(s[p[1]], s[p[2]]) }))

Places(s) == [i \in DOMAIN s |-> i]
=============================================================================
