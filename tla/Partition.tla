------------------------------- MODULE Partition -------------------------------
(***************************************************************************)
(* partition_passages (passage.rs): the passages of one pair are looked at *)
(* from the strongest to the weakest, and each becomes a primary, that is  *)
(* a question of its own, or an alternate of a primary that occupies most  *)
(* of its time with far more hits.                                         *)
(***************************************************************************)
EXTENDS Lists

CONSTANTS
    Digest(_),       \* the order of the passage ids, which are digests of the support
    Containment,     \* ALTERNATE_QUERY_CONTAINMENT in percent
    Dominance        \* ALTERNATE_HIT_DOMINANCE

ASSUME PartitionAssumption ==
    /\ Containment \in 1 .. 100
    /\ Dominance \in Nat /\ Dominance > 1

VARIABLES
    passages,    \* the passages of a pair, by their starts
    pending,     \* those that have not been divided
    primaries,   \* those that are questions, strongest first
    alternates   \* of the others, the primary that owns each

partition_vars == <<passages, pending, primaries, alternates>>

\* The order in which passages are divided.
Stronger(m, n) ==
    LET p == passages[m]
        r == passages[n]
    IN  \/ p.hits > r.hits
        \/ p.hits = r.hits
           /\ \/ p.seconds > r.seconds
              \/ p.seconds = r.seconds
                 /\ \/ Digest(p.support) < Digest(r.support)
                    \/ Digest(p.support) = Digest(r.support) /\ m < n

\* What a passage occupies of another's envelope on a's clock.
Overlap(p, r) == Greatest(0, Least(p.stop, r.stop) - Greatest(p.start, r.start))

\* query_containment and the dominance in hits.
Dominates(p, r) ==
    /\ r.start < r.stop
    /\ 100 * Overlap(p, r) >= Containment * (r.stop - r.start)
    /\ p.hits >= Dominance * r.hits

\* Mutation: the first primary that dominates, in the order of strength.
FirstOwner(owners, n) == CHOOSE i \in owners : \A j \in owners : i <= j

\* Of two primaries, the one whose share of the passage is greater, and of
\* those the one with more hits or else the later one.
IsBetterOwner(i, j, n) ==
    LET p == passages[primaries[i]]
        r == passages[primaries[j]]
    IN  \/ Overlap(p, passages[n]) > Overlap(r, passages[n])
        \/ Overlap(p, passages[n]) = Overlap(r, passages[n])
           /\ (p.hits > r.hits \/ (p.hits = r.hits /\ i > j))

BestOwner(owners, n) == CHOOSE i \in owners : \A j \in owners \ {i} : IsBetterOwner(i, j, n)

Owners(n) == { i \in DOMAIN primaries : Dominates(passages[primaries[i]], passages[n]) }

\* Mutation: the order of the starts.
FirstPending(n) == \A m \in pending : n <= m

IsStrongest(n) == \A m \in pending \ {n} : Stronger(n, m)

Divide(n) ==
    /\ n \in pending
    /\ IsStrongest(n)
    /\ pending' = pending \ {n}
    /\ IF Owners(n) = {}
       THEN primaries' = Append(primaries, n) /\ UNCHANGED alternates
       ELSE /\ alternates' = [m \in {n} \cup DOMAIN alternates |->
                   IF m = n THEN primaries[BestOwner(Owners(n), n)] ELSE alternates[m]]
            /\ UNCHANGED primaries
    /\ UNCHANGED passages

\* passage_from_track gives a passage at least one hit.
IsPassage(p) == p.hits \in Nat \ {0} /\ p.start \in Int /\ p.stop \in Int

PartitionInit ==
    /\ Len(passages) \in Nat /\ DOMAIN passages = 1 .. Len(passages)
    /\ \A n \in DOMAIN passages : IsPassage(passages[n])
    /\ pending = DOMAIN passages
    /\ primaries = <<>>
    /\ alternates = <<>>

PartitionSpec == PartitionInit /\ [][\E n \in pending : Divide(n)]_partition_vars

-----------------------------------------------------------------------------
\* No question is asked twice: of two primaries none contains the other with
\* the hits to own it, whatever the order in which they were divided
\* (partition_passages, CONTRACT.md:107).
PrimariesAreUndominated ==
    \A i, j \in DOMAIN primaries :
        i # j => ~Dominates(passages[primaries[i]], passages[primaries[j]])

\* Nothing is rejected and no owner is missing: every passage that has been
\* divided is one primary or one alternate, and an alternate's owner is a
\* primary that dominates it, of all that do one that contains most.
AlternatesAreOwned ==
    /\ ToSet(primaries) \cup DOMAIN alternates = DOMAIN passages \ pending
    /\ ToSet(primaries) \cap DOMAIN alternates = {}
    /\ \A n \in DOMAIN alternates :
           /\ alternates[n] \in ToSet(primaries)
           /\ Dominates(passages[alternates[n]], passages[n])
           /\ \A m \in ToSet(primaries) :
                  Dominates(passages[m], passages[n])
                  => Overlap(passages[m], passages[n])
                         <= Overlap(passages[alternates[n]], passages[n])
=============================================================================
