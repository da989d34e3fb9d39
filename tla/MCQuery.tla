------------------------------- MODULE MCQuery -------------------------------
(* Query with two small stores. *)
EXTENDS Query

At(hash, t) == [hash |-> hash, t |-> t, f |-> 1]

\* A probe with two prints in one bin, a repeated hash, a gap longer than a
\* region, and prints in the last two bins.
Source ==
    <<At(2, 1), At(5, 2), At(9, 2), At(12, 4), At(2, 5),
      At(9, 13), At(5, 14), At(12, 15), At(2, 16)>>

\* The stored order.
Stored(prints) ==
    StableSort(prints, LAMBDA x, y : x.t < y.t \/ (x.t = y.t /\ x.hash < y.hash))

Moved(prints, shift) == [i \in DOMAIN prints |-> [prints[i] EXCEPT !.t = @ + shift[i]]]

\* Six prints and how a copy played a little slower has them.
Steady == <<At(20, 1), At(23, 2), At(26, 3), At(29, 10), At(32, 11), At(35, 12)>>
Drifted == Moved(Steady, <<0, 0, 0, 1, 1, 1>>)

\* The prints of a bar of the source, some of them, each moved by a shift.
Bar(kept, shift) ==
    LET all == Moved(SubSeq(Source, 2, 5), shift)
    IN  Selected(all, LAMBDA print : print.hash \in kept)

Later == [i \in 1 .. 4 |-> 6]

\* Resource 1 holds the bar twice, six bins apart, so it agrees with the source
\* in several ways, and one more print near one of the later bar.  Resource 2
\* holds other hashes too, and with them come other sizes of hash table.
Library(kept, later, shift) ==
    <<Stored(Bar(kept, shift) \o Bar(later, Later)
             \o IF 12 \in later THEN <<At(13, 10)>> ELSE <<>>),
      Stored(<<At(12, 1), At(5, 3), At(9, 3), At(12, 5)>> \o Drifted)>>

Libraries ==
    { Library(kept, later, shift) :
        kept \in {{2, 5, 9}, {2, 5, 9, 12}}, later \in {{5, 9}, {2, 5, 9, 12}},
        shift \in [1 .. 4 -> 0 .. 1] }

SmallWorlds ==
    { [a |-> <<Source>>, b |-> library, compatible |-> TRUE] : library \in Libraries }
    \cup { [a |-> <<Source>>, b |-> <<Source>>, compatible |-> FALSE] }

Ask(verb, window, targets, k, multi) ==
    [verb |-> verb, prints |-> <<>>, key |-> 1, window |-> window, targets |-> targets,
     k |-> k, multi |-> multi]

Span(window, multi) == Ask("span", window, {1}, 1, multi)
Crosscheck(window, targets, k, multi) == Ask("crosscheck", window, targets, k, multi)
MatchPrints(prints, k, multi) ==
    [Ask("match", None, None, k, multi) EXCEPT !.prints = prints]

Passages(window) == Ask("passages", window, {1}, 1, FALSE)
Discover(window) == Ask("discover", window, None, 1, FALSE)

\* The same question asked in every way, the lines of passages, windows cut at
\* a region, with edges that are rounded and not, and requests that are refused.
SmallScripts ==
    { <<Span(None, FALSE), Span(None, TRUE),
        Crosscheck(None, None, 2, FALSE), Crosscheck(None, {1}, 2, TRUE)>>,
      <<Passages(<<5, 17>>), Discover(<<5, 17>>)>>, <<Passages(None)>>,
      <<Span(<<5, 35>>, TRUE), Span(<<5, 29>>, TRUE), Span(<<29, 35>>, TRUE)>>,
      <<Span(<<7, 35>>, TRUE), Span(<<7, 31>>, TRUE), Span(<<31, 35>>, TRUE)>>,
      <<MatchPrints(Source, 1, TRUE), MatchPrints(SubSeq(Source, 1, 4) \o Steady, 2, FALSE),
        MatchPrints(<<>>, 1, FALSE),
        Crosscheck(<<6, 32>>, None, 1, FALSE), Crosscheck(None, {3}, 1, FALSE),
        Crosscheck(None, None, 0, TRUE), Span(<<9, 9>>, FALSE), Span(<<17, 27>>, FALSE)>> }

\* Windows at the start of the time grid.
EarlyScripts == { <<Span(window, FALSE)>> : window \in { <<0, 2>>, <<0, 3>>, <<0, 9>>, <<2, 9>> } }
=============================================================================
