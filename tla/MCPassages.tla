------------------------------ MODULE MCPassages ------------------------------
(* Passages with few lines.  A tick is half a second, a factor counts in 0.005. *)
EXTENDS Passages

\* A line of n hits, gap ticks apart.
Line(start, offset, n, gap, time) ==
    [hits |-> [i \in 1 .. n |->
         [q |-> start + gap * (i - 1), ref |-> start + offset + gap * (i - 1), hash |-> 1]],
     time |-> time, pitch |-> Unit]

\* A long line and its copy in the next region, lines near its offset and far
\* from it, weak lines in it, beside it and after a hole, a line as strong, and
\* one where b's clock runs back.
Pool ==
    { Line(0, 0, 9, 1, Unit), Line(4, 0, 5, 1, Unit), Line(4, 0, 8, 1, Unit + 8),
      Line(5, 4, 4, 2, Unit + 5), Line(1, 3, 3, 2, Unit), Line(3, 30, 2, 5, Unit),
      Line(4, 30, 2, 5, Unit + 1), Line(7, 30, 2, 3, Unit), Line(15, 0, 2, 2, Unit + 2),
      Line(16, 1, 8, 1, Unit + 3), Line(0, 30, 8, 1, Unit), Line(2, 1, 2, 1, Unit + 1),
      Line(6, 0, 2, 5, Unit) }

Several ==
    { SetToSeq(lines) : lines \in UNION { kSubset(n, Pool) : n \in 0 .. 3 } }
    \cup { <<line, line>> : line \in Pool }

Others == { <<>>, <<Line(0, 0, 9, 1, Unit), Line(3, 30, 2, 2, Unit)>> }

\* Reference 3 is resource a itself.
SmallWorlds ==
    { [key |-> 3, extent |-> 9,
       refs |-> <<[extent |-> 9, segments |-> lines], [extent |-> 12, segments |-> others],
                  [extent |-> 9, segments |-> <<Line(0, 0, 9, 1, Unit)>>]>>] :
      lines \in Several, others \in Others }

Ask1(verb, targets, exclude, evidence) ==
    [verb |-> verb, targets |-> targets, exclude |-> exclude, evidence |-> evidence]

SmallScripts ==
    { <<Ask1("passages", {1}, {}, TRUE), Ask1("passages", {3}, {}, FALSE),
        Ask1("discover", {1, 2, 3}, {}, FALSE), Ask1("discover", {1, 2}, {2}, TRUE)>> }

\* Any order of the supports will do.
SmallDigest(support) ==
    Sum([n \in DOMAIN support |->
        (7 * support[n].start + 13 * support[n].ref_start + 5 * support[n].ref_stop) % 31])
=============================================================================
