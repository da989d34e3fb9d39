------------------------------- MODULE Matcher -------------------------------
(***************************************************************************)
(* The voter of core/src/matcher.rs as operators: the hits of a probe in   *)
(* one resource, the mode of the hits' time differences, the line through  *)
(* two modes, and the hits on that line.                                   *)
(*                                                                         *)
(* Times are bins, and seconds are compared through them: bins_to_seconds  *)
(* is increasing.  The line is exact where the source's is f32.  Two       *)
(* frequencies are near enough for a pitch factor, or they are not.        *)
(***************************************************************************)
EXTENDS Lists

CONSTANTS
    QueryRange,   \* QUERY_RANGE, of hashes and of residuals
    MinHits,      \* MIN_HITS_UNFILTERED
    MinFiltered,  \* MIN_HITS_FILTERED_EXCLUSIVE
    PartMax,      \* HIT_PART_MAX_SIZE
    PartDivider,  \* HIT_PART_DIVIDER
    Second,       \* the bins of a second
    MinDuration,  \* the bins of MIN_MATCH_DURATION_SECONDS
    TableSize     \* the initial capacity of a java.util.HashMap

ASSUME VoterAssumption ==
    /\ {QueryRange, MinFiltered, MinDuration} \subseteq Nat
    /\ {MinHits, PartMax, PartDivider, Second, TableSize} \subseteq Nat \ {0}
    /\ MinHits <= PartMax

-----------------------------------------------------------------------------
(* The order of Java's hash maps, which decides ties.                      *)

\* Doubled until three quarters of it hold the entries.
TableCapacity(entries) ==
    LET capacity[n \in 0 .. entries] == IF n = 0 THEN TableSize ELSE 2 * capacity[n - 1]
    IN  Min({ c \in { capacity[n] : n \in 0 .. entries } : entries <= (c * 3) \div 4 })

\* java_bucket for differences of 16 bits: a negative one folds to its complement.
DeltaBucket(delta, capacity) == (IF delta < 0 THEN -delta - 1 ELSE delta) % capacity

\* java_long_bucket for hashes of 16 bits.
HashBucket(hash, capacity) == hash % capacity

-----------------------------------------------------------------------------
(* The hits.                                                               *)

Hashes(probe) == { probe[i].hash : i \in DOMAIN probe }
Occurrences(probe, hash) == { i \in DOMAIN probe : probe[i].hash = hash }

\* Store::lookup for one resource: the postings near a hash, as positions.
Near(stored, hash) == { i \in DOMAIN stored : Magnitude(stored[i].hash - hash) <= QueryRange }

\* The lookup of a hash in some resources of a store has a hit.
Found(library, refs, hash) == \E r \in refs : Near(library[r], hash) # {}

\* A pair query asks has_match whether the whole store has one.
Present(library, refs, hash) ==
    Found(library, refs, hash) \/ Found(library, DOMAIN library, hash)

\* The hashes of a probe that are present, as the places where they occur
\* first, in the order in which the source queues their hits.
Queued(probe, library, refs) ==
    LET present == { h \in Hashes(probe) : Present(library, refs, h) }
        capacity == TableCapacity(Cardinality(present))
        firsts == { Min(Occurrences(probe, h)) : h \in present }
    IN  StableSort(ElementsAt(Places(probe), firsts), LAMBDA i, j :
            HashBucket(probe[i].hash, capacity) < HashBucket(probe[j].hash, capacity))

\* A print of the probe and a posting.
Hit(print, posting) ==
    [q |-> print.t, ref |-> posting.t, original |-> print.hash, matched |-> posting.hash,
     tune |-> print.f = posting.f]

\* The postings near a hash by their hash; a hash counts as often as it occurs
\* in the probe, with the time and frequency of its last occurrence.
HitsOf(probe, stored, hash) ==
    LET print == probe[Max(Occurrences(probe, hash))]
        copies == Cardinality(Occurrences(probe, hash))
        near == StableSort(ElementsAt(stored, Near(stored, hash)), LAMBDA x, y : x.hash < y.hash)
    IN  FlattenSeq([n \in DOMAIN near |-> [c \in 1 .. copies |-> Hit(print, near[n])]])

\* The hits of resource r in a query that consults refs.
Cloud(probe, library, refs, r) ==
    LET queued == Queued(probe, library, refs)
    IN  FlattenSeq([n \in DOMAIN queued |-> HitsOf(probe, library[r], probe[queued[n]].hash)])

-----------------------------------------------------------------------------
(* The vote.                                                               *)

Delta(hit) == hit.ref - hit.q

ByQueryTime(hits) == StableSort(hits, LAMBDA g, h : g.q < h.q)

\* The most frequent difference; then the first bucket; then the first hit.
ModalDelta(hits) ==
    LET places(d) == { i \in DOMAIN hits : Delta(hits[i]) = d }
        deltas == { Delta(hits[i]) : i \in DOMAIN hits }
        count(d) == Cardinality(places(d))
        bucket(d) == DeltaBucket(d, TableCapacity(Cardinality(deltas)))
    IN  CHOOSE d \in deltas : \A e \in deltas \ {d} :
            \/ count(d) > count(e)
            \/ count(d) = count(e) /\ bucket(d) < bucket(e)
            \/ count(d) = count(e) /\ bucket(d) = bucket(e) /\ Min(places(d)) < Min(places(e))

PartLength(hits) == Least(PartMax, Greatest(MinHits, Len(hits) \div PartDivider))

\* From the first hit with the first part's mode to the last hit with the
\* last part's.
Line(hits) ==
    LET part == PartLength(hits)
        first == SubSeq(hits, 1, part)
        last == SubSeq(hits, Len(hits) - part + 1, Len(hits))
        y1 == ModalDelta(first)
        y2 == ModalDelta(last)
        from == first[SelectInSeq(first, LAMBDA hit : Delta(hit) = y1)]
        to == last[SelectLastInSeq(last, LAMBDA hit : Delta(hit) = y2)]
    IN  [x1 |-> from.q, y1 |-> y1, x2 |-> to.q, y2 |-> y2, tune |-> from.tune]

\* The slope is (y2 - y1) / (x2 - x1), and 0.8 < 1 / (1 - slope) < 1.2.  With
\* x1 = x2 it is not a number or infinite, and refused.
Plausible(line) ==
    LET dx == line.x2 - line.x1
        dy == line.y2 - line.y1
    IN  line.tune /\ -(dx * dx) < 4 * dx * dy /\ 6 * dx * dy < dx * dx

OnLine(hit, line) ==
    LET dx == line.x2 - line.x1
        dy == line.y2 - line.y1
    IN  Magnitude((Delta(hit) - line.y1) * dx - dy * (hit.q - line.x1)) <= QueryRange * Magnitude(dx)

\* The seconds of the reference that have a hit; one before the first hit's
\* is cast to the first.
SecondsWithHits(hits) ==
    { Greatest(0, (hits[i].ref - hits[1].ref) \div Second) : i \in DOMAIN hits }

\* sec_with_match: 1.0 - 0.8 is less than 0.2, so a fifth is not enough.
DenseEnough(hits) ==
    LET span == Last(hits).ref - hits[1].ref
        seconds == (span + Second - 1) \div Second
    IN  seconds > 0 /\ 5 * Cardinality(SecondsWithHits(hits)) > seconds

\* The hits of the accepted line in query order, none when it is refused.
Vote(hits) ==
    LET sorted == ByQueryTime(hits)
        line == Line(sorted)
        kept == Selected(sorted, LAMBDA hit : OnLine(hit, line))
    IN  IF /\ Plausible(line)
           /\ Len(kept) > MinFiltered
           /\ Last(kept).q - kept[1].q >= MinDuration
           /\ DenseEnough(kept)
        THEN kept ELSE <<>>

\* What vote_lines knows a hit by.
Key(hit) == <<hit.q, hit.ref, hit.original, hit.matched>>

\* Mutation: a hit is identified by its hash.
RemainingByHash(hits, line) ==
    Selected(hits, LAMBDA hit : \A i \in DOMAIN line : line[i].original # hit.original)

\* What is left of the hits: of those with one key the first ones are
\* removed, as many as the line has.
Remaining(hits, line) ==
    LET Count(s, n, key) == Cardinality({ i \in 1 .. n : Key(s[i]) = key })
    IN  ElementsAt(hits, { i \in DOMAIN hits :
            Count(hits, i, Key(hits[i])) > Count(line, Len(line), Key(hits[i])) })

\* A MatchRow or Segment without its factors.
Row(ref, line) ==
    [ref |-> ref, start |-> line[1].q, stop |-> Last(line).q,
     ref_start |-> line[1].ref, ref_stop |-> Last(line).ref, score |-> Len(line)]
=============================================================================
