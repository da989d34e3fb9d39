----------------------------- MODULE PassageProofs -----------------------------
(***************************************************************************)
(* The passage lane for any worlds and any requests.                       *)
(*                                                                         *)
(* First the partition of any passages with hits, under any order of their *)
(* ids: no primary is owned by another, and every other passage is owned   *)
(* by a primary that contains most of it.  The invariant says that what    *)
(* has been divided is no weaker in hits than what is pending.  A passage  *)
(* that is divided later has then too few hits to own an earlier one, so a *)
(* decision is never called into question.                                 *)
(*                                                                         *)
(* Then how the passages come about: the hits of a track are those of its  *)
(* segments, in order and each once; the spans of its support, one hit     *)
(* after the other, count and cover the hits that were seen and leave no   *)
(* hole; and placing segments one by one leaves each at one place of one   *)
(* track.  So a request starts the partition from passages that are right  *)
(* about their hits, and the partition changes none of them.               *)
(*                                                                         *)
(* Last what is worked out of a pair, as a chain of steps that depends on  *)
(* its segments alone.  Two such chains that have ended are the same, so a *)
(* discovery finds of a reference what the request for the pair finds.     *)
(***************************************************************************)
EXTENDS Passages, SharedLemmas

-----------------------------------------------------------------------------
(* The partition.                                                          *)

Hits(n) == passages[n].hits

PassagesAreTyped ==
    /\ Len(passages) \in Nat /\ DOMAIN passages = 1 .. Len(passages)
    /\ \A n \in DOMAIN passages : IsPassage(passages[n])
    /\ pending \subseteq DOMAIN passages
    /\ primaries \in Seq(DOMAIN passages)

\* Nothing that is pending has more hits than anything that is not.
StrongestFirst ==
    /\ \A n \in DOMAIN passages \ pending : \A m \in pending : Hits(n) >= Hits(m)
    /\ \A i, j \in DOMAIN primaries : i <= j => Hits(primaries[i]) >= Hits(primaries[j])

IInv ==
    /\ PassagesAreTyped
    /\ StrongestFirst
    /\ PrimariesAreUndominated
    /\ AlternatesAreOwned

-----------------------------------------------------------------------------
\* An overlap is no longer than either of the passages.
LEMMA OverlapIsBounded ==
    ASSUME NEW p, NEW r, IsPassage(p), IsPassage(r), r.start < r.stop
    PROVE  Overlap(p, r) \in 0 .. r.stop - r.start
BY DEF Overlap, IsPassage, Least, Greatest

\* To own a passage takes more hits than it has.
LEMMA WeakerDoesNotDominate ==
    ASSUME NEW p, NEW r, IsPassage(p), IsPassage(r), p.hits <= r.hits
    PROVE  ~Dominates(p, r)
<1>1. Dominance * r.hits > r.hits
  <2>1. Dominance \in Nat /\ Dominance > 1 /\ r.hits \in Nat /\ r.hits > 0
    BY PartitionAssumption DEF IsPassage
  <2>2. \A d, h \in Nat : d > 1 /\ h > 0 => d * h > h
    OBVIOUS
  <2>3. QED
    BY <2>1, <2>2
<1>2. p.hits \in Nat /\ r.hits \in Nat /\ Dominance * r.hits \in Nat
  BY PartitionAssumption DEF IsPassage
<1>3. QED
  BY <1>1, <1>2 DEF Dominates

\* Of the owners of a passage one is best.
LEMMA BestOwnerExists ==
    ASSUME PassagesAreTyped, StrongestFirst, NEW n \in DOMAIN passages, Owners(n) # {}
    PROVE  /\ BestOwner(Owners(n), n) \in Owners(n)
           /\ \A j \in Owners(n) \ {BestOwner(Owners(n), n)} :
                  IsBetterOwner(BestOwner(Owners(n), n), j, n)
<1> DEFINE O == Owners(n)
           Share(i) == Overlap(passages[primaries[i]], passages[n])
           length == passages[n].stop - passages[n].start
<1>1. /\ O \subseteq 1 .. Len(primaries) /\ Len(primaries) \in Nat
      /\ \A i \in O : primaries[i] \in DOMAIN passages
  BY DEF PassagesAreTyped, Owners
<1>2. /\ \A i \in DOMAIN primaries : IsPassage(passages[primaries[i]])
      /\ IsPassage(passages[n])
  BY DEF PassagesAreTyped
<1>3. \A i \in O : Share(i) \in 0 .. length /\ length \in Nat
  <2> TAKE i \in O
  <2>1. passages[n].start < passages[n].stop /\ IsPassage(passages[primaries[i]])
    BY <1>2 DEF Owners, Dominates
  <2>2. Share(i) \in 0 .. length
    BY <1>2, <2>1, OverlapIsBounded
  <2>3. QED
    BY <1>2, <2>1, <2>2 DEF IsPassage
<1>4. \A i \in O : Hits(primaries[i]) \in Nat
  BY <1>2, <1>1 DEF Hits, IsPassage, Owners
<1> HIDE DEF O, Share, length
<1>5. PICK i1 \in O : \A j \in O : Share(i1) >= Share(j)
  <2>1. { length - Share(i) : i \in O } \in SUBSET Nat /\ { length - Share(i) : i \in O } # {}
    BY <1>3 DEF O
  <2>2. PICK x \in { length - Share(i) : i \in O } : \A y \in { length - Share(i) : i \in O } : x <= y
    BY <2>1, LeastElement
  <2>3. PICK i \in O : x = length - Share(i)
    BY <2>2
  <2>4. \A j \in O : length - Share(i) <= length - Share(j)
    BY <2>2, <2>3
  <2>5. QED
    BY <1>3, <2>4
<1> DEFINE A == { i \in O : Share(i) = Share(i1) }
<1>6. PICK i2 \in A : \A j \in A : Hits(primaries[i2]) >= Hits(primaries[j])
  <2>1. A \in SUBSET Nat /\ A # {}
    <3>1. i1 \in A
      BY <1>5
    <3>2. O \subseteq Nat
      BY <1>1
    <3>3. QED
      BY <3>1, <3>2
  <2>2. PICK i \in A : \A j \in A : i <= j
    BY <2>1, LeastElement
  <2>3. \A j \in A : j \in DOMAIN primaries
    BY DEF O, Owners
  <2>4. QED
    BY <2>2, <2>3 DEF StrongestFirst
<1> DEFINE B == { i \in A : Hits(primaries[i]) = Hits(primaries[i2]) }
<1>7. PICK i3 \in B : \A j \in B : i3 >= j
  <2> DEFINE C == { Len(primaries) - i : i \in B }
  <2>1. C \in SUBSET Nat /\ C # {}
    BY <1>1, <1>6
  <2>2. PICK x \in C : \A y \in C : x <= y
    BY <2>1, LeastElement
  <2>3. PICK i \in B : x = Len(primaries) - i
    BY <2>2
  <2>4. \A j \in B : Len(primaries) - i <= Len(primaries) - j
    BY <2>2, <2>3
  <2>5. \A j \in B : i \in Nat /\ j \in Nat
    BY <1>1
  <2>6. QED
    BY <1>1, <2>4, <2>5
<1>8. \A j \in O \ {i3} : IsBetterOwner(i3, j, n)
  <2> TAKE j \in O \ {i3}
  <2>1. Share(i3) \in Nat /\ Share(j) \in Nat /\ Share(i3) >= Share(j)
    BY <1>3, <1>5
  <2>2. /\ Hits(primaries[i3]) \in Nat /\ Hits(primaries[j]) \in Nat
        /\ i3 \in Nat /\ j \in Nat /\ i3 # j
    BY <1>1, <1>4
  <2>3. CASE Share(i3) > Share(j)
    BY <2>3 DEF Share, IsBetterOwner
  <2>4. CASE Share(i3) = Share(j)
    <3>1. j \in A /\ Hits(primaries[i3]) >= Hits(primaries[j])
      BY <1>6, <2>4
    <3>2. Hits(primaries[i3]) = Hits(primaries[j]) => i3 > j
      BY <1>7, <2>2, <3>1
    <3>3. QED
      BY <2>2, <2>4, <3>1, <3>2 DEF Share, Hits, IsBetterOwner
  <2>5. QED
    BY <2>1, <2>3, <2>4
<1>9. QED
  BY <1>8 DEF BestOwner, O

-----------------------------------------------------------------------------
\* Nothing has been divided.
LEMMA InitIInv == PartitionInit => IInv
<1> SUFFICES ASSUME PartitionInit PROVE IInv
  OBVIOUS
<1>1. /\ primaries = <<>> /\ DOMAIN primaries = {} /\ DOMAIN alternates = {}
      /\ primaries \in Seq(DOMAIN passages)
  BY DEF PartitionInit
<1>2. PassagesAreTyped /\ StrongestFirst /\ PrimariesAreUndominated
  BY <1>1 DEF PartitionInit, PassagesAreTyped, StrongestFirst, PrimariesAreUndominated
<1>3. AlternatesAreOwned
  BY <1>1 DEF PartitionInit, AlternatesAreOwned, ToSet
<1>4. QED
  BY <1>2, <1>3 DEF IInv

\* The strongest of those that are pending has no fewer hits than the others.
LEMMA StrongestHasMostHits ==
    ASSUME PassagesAreTyped, NEW n \in pending, IsStrongest(n)
    PROVE  \A m \in pending : Hits(n) >= Hits(m)
<1> TAKE m \in pending
<1>1. Hits(n) \in Nat /\ Hits(m) \in Nat
  BY DEF PassagesAreTyped, IsPassage, Hits
<1>2. m # n => Hits(n) > Hits(m) \/ Hits(n) = Hits(m)
  BY DEF IsStrongest, Stronger, Hits
<1>3. QED
  BY <1>1, <1>2

\* Dividing the strongest of what is pending keeps the invariant, whether it
\* becomes a primary or an alternate.
LEMMA DivideKeepsIInv ==
    ASSUME IInv, NEW n \in pending, Divide(n)
    PROVE  IInv'
<1>1. /\ PassagesAreTyped /\ StrongestFirst /\ PrimariesAreUndominated /\ AlternatesAreOwned
      /\ pending' = pending \ {n} /\ passages' = passages /\ n \in DOMAIN passages
  BY DEF IInv, Divide, PassagesAreTyped
<1>2. /\ \A m \in pending : Hits(n) >= Hits(m)
      /\ \A m \in DOMAIN passages \ pending : Hits(m) >= Hits(n)
      /\ \A m \in DOMAIN passages : Hits(m) \in Nat /\ Hits(m)' = Hits(m)
  BY <1>1, StrongestHasMostHits DEF Divide, StrongestFirst, PassagesAreTyped, IsPassage, Hits
<1>3. \A m \in DOMAIN passages \ pending' : \A k \in pending' : Hits(m) >= Hits(k)
  BY <1>1, <1>2 DEF StrongestFirst
<1>4. \A i \in DOMAIN primaries : primaries[i] \in DOMAIN passages \ pending
  BY <1>1 DEF AlternatesAreOwned, ToSet
<1>5. \A p, r \in DOMAIN passages : Hits(p) <= Hits(r) => ~Dominates(passages[p], passages[r])
  BY <1>1, WeakerDoesNotDominate DEF PassagesAreTyped, Hits
<1>6. CASE Owners(n) = {}
  <2>1. primaries' = Append(primaries, n) /\ alternates' = alternates
    BY <1>6 DEF Divide
  <2>2. /\ primaries' \in Seq(DOMAIN passages)
        /\ Len(primaries') = Len(primaries) + 1 /\ Len(primaries) \in Nat
        /\ DOMAIN primaries' = 1 .. Len(primaries) + 1 /\ DOMAIN primaries = 1 .. Len(primaries)
        /\ primaries'[Len(primaries) + 1] = n
        /\ \A i \in DOMAIN primaries : primaries'[i] = primaries[i]
    BY <1>1, <2>1, AppendProperties DEF PassagesAreTyped
  <2>3. ToSet(primaries') = ToSet(primaries) \cup {n}
    BY <2>2 DEF ToSet
  <2>4. PassagesAreTyped'
    BY <1>1, <2>2 DEF PassagesAreTyped
  <2>5. StrongestFirst'
    <3>1. ASSUME NEW i \in DOMAIN primaries', NEW j \in DOMAIN primaries', i <= j
          PROVE  Hits(primaries'[i]) >= Hits(primaries'[j])
      <4>1. CASE j = Len(primaries) + 1
        BY <1>2, <1>4, <2>2, <4>1, <3>1
      <4>2. CASE j # Len(primaries) + 1
        BY <1>1, <2>2, <4>2, <3>1 DEF StrongestFirst
      <4>3. QED
        BY <4>1, <4>2
    <3>2. QED
      BY <1>1, <1>3, <3>1 DEF StrongestFirst, Hits
  <2>6. PrimariesAreUndominated'
    <3>1. ASSUME NEW i \in DOMAIN primaries', NEW j \in DOMAIN primaries', i # j
          PROVE  ~Dominates(passages[primaries'[i]], passages[primaries'[j]])
      <4>1. CASE j = Len(primaries) + 1
        BY <1>6, <2>2, <3>1, <4>1 DEF Owners
      <4>2. CASE i = Len(primaries) + 1
        <5>1. j \in DOMAIN primaries /\ primaries'[j] = primaries[j] /\ primaries'[i] = n
          BY <2>2, <3>1, <4>2
        <5>2. Hits(n) <= Hits(primaries[j]) /\ primaries[j] \in DOMAIN passages
          BY <1>2, <1>4, <5>1
        <5>3. QED
          BY <1>1, <1>5, <5>1, <5>2
      <4>3. CASE i # Len(primaries) + 1 /\ j # Len(primaries) + 1
        BY <1>1, <2>2, <3>1, <4>3 DEF PrimariesAreUndominated
      <4>4. QED
        BY <4>1, <4>2, <4>3
    <3>2. QED
      BY <1>1, <3>1 DEF PrimariesAreUndominated, Dominates, Overlap
  <2>7. AlternatesAreOwned'
    <3>1. n \notin DOMAIN alternates
      BY <1>1 DEF AlternatesAreOwned
    <3>2. /\ ToSet(primaries') \cup DOMAIN alternates = DOMAIN passages \ pending'
          /\ ToSet(primaries') \cap DOMAIN alternates = {}
      BY <1>1, <2>3, <3>1 DEF AlternatesAreOwned
    <3>3. \A m \in DOMAIN alternates : ~Dominates(passages[n], passages[m])
      <4> TAKE m \in DOMAIN alternates
      <4>1. m \in DOMAIN passages \ pending
        BY <1>1 DEF AlternatesAreOwned
      <4>2. QED
        BY <1>1, <1>2, <1>5, <4>1
    <3>4. QED
      BY <1>1, <2>1, <2>3, <3>2, <3>3 DEF AlternatesAreOwned, Dominates, Overlap
  <2>8. QED
    BY <2>4, <2>5, <2>6, <2>7 DEF IInv
<1>7. CASE Owners(n) # {}
  <2> DEFINE best == BestOwner(Owners(n), n)
             owner == primaries[best]
  <2>1. /\ best \in Owners(n)
        /\ \A j \in Owners(n) \ {best} : IsBetterOwner(best, j, n)
    BY <1>1, <1>7, BestOwnerExists
  <2>2. /\ primaries' = primaries
        /\ alternates' = [m \in {n} \cup DOMAIN alternates |-> IF m = n THEN owner ELSE alternates[m]]
    BY <1>7 DEF Divide
  <2> HIDE DEF best
  <2>3. PassagesAreTyped' /\ StrongestFirst' /\ PrimariesAreUndominated'
    BY <1>1, <1>3, <2>2 DEF PassagesAreTyped, StrongestFirst, PrimariesAreUndominated, Hits,
       Dominates, Overlap
  <2>4. n \notin DOMAIN alternates /\ n \notin ToSet(primaries)
    BY <1>1 DEF AlternatesAreOwned
  <2>5. /\ owner \in ToSet(primaries) /\ Dominates(passages[owner], passages[n])
    BY <2>1 DEF Owners, ToSet
  <2>6. ASSUME NEW m \in ToSet(primaries), Dominates(passages[m], passages[n])
        PROVE  Overlap(passages[m], passages[n]) <= Overlap(passages[owner], passages[n])
    <3>1. PICK j \in DOMAIN primaries : m = primaries[j]
      BY DEF ToSet
    <3>2. j \in Owners(n)
      BY <2>6, <3>1 DEF Owners
    <3>3. /\ passages[n].start < passages[n].stop
          /\ IsPassage(passages[n]) /\ IsPassage(passages[m]) /\ IsPassage(passages[owner])
      BY <1>1, <1>4, <2>1, <2>6, <3>1 DEF Dominates, Owners, PassagesAreTyped
    <3>4. /\ Overlap(passages[m], passages[n]) \in Int
          /\ Overlap(passages[owner], passages[n]) \in Int
      BY <3>3, OverlapIsBounded DEF IsPassage
    <3>5. QED
      BY <2>1, <3>1, <3>2, <3>4 DEF IsBetterOwner
  <2>7. AlternatesAreOwned'
    <3>1. /\ DOMAIN alternates' = {n} \cup DOMAIN alternates
          /\ alternates'[n] = owner
          /\ \A m \in DOMAIN alternates : alternates'[m] = alternates[m]
      BY <2>2, <2>4
    <3>2. /\ ToSet(primaries') \cup DOMAIN alternates' = DOMAIN passages' \ pending'
          /\ ToSet(primaries') \cap DOMAIN alternates' = {}
      BY <1>1, <2>2, <2>4, <3>1 DEF AlternatesAreOwned
    <3>3. ASSUME NEW m \in DOMAIN alternates'
          PROVE  /\ alternates'[m] \in ToSet(primaries)
                 /\ Dominates(passages[alternates'[m]], passages[m])
                 /\ \A k \in ToSet(primaries) :
                        Dominates(passages[k], passages[m])
                        => Overlap(passages[k], passages[m])
                               <= Overlap(passages[alternates'[m]], passages[m])
      <4>1. CASE m = n
        BY <2>5, <2>6, <3>1, <4>1
      <4>2. CASE m # n
        BY <1>1, <3>1, <3>3, <4>2 DEF AlternatesAreOwned
      <4>3. QED
        BY <4>1, <4>2
    <3>4. \A m \in DOMAIN alternates' :
             /\ alternates'[m] \in ToSet(primaries')
             /\ Dominates(passages'[alternates'[m]], passages'[m])
             /\ \A k \in ToSet(primaries') :
                    Dominates(passages'[k], passages'[m])
                    => Overlap(passages'[k], passages'[m])
                           <= Overlap(passages'[alternates'[m]], passages'[m])
      BY <1>1, <2>2, <3>3
    <3>5. QED
      BY <3>2, <3>4 DEF AlternatesAreOwned, Dominates, Overlap
  <2>8. QED
    BY <2>3, <2>7 DEF IInv
<1>8. QED
  BY <1>6, <1>7

\* The invariant of the partition of any passages with hits
\* (partition_passages).
THEOREM PartitionInvariant == PartitionSpec => []IInv
<1>1. IInv /\ [\E n \in pending : Divide(n)]_partition_vars => IInv'
  <2> SUFFICES ASSUME IInv, [\E n \in pending : Divide(n)]_partition_vars PROVE IInv'
    OBVIOUS
  <2>1. CASE \E n \in pending : Divide(n)
    BY <2>1, DivideKeepsIInv
  <2>2. CASE UNCHANGED partition_vars
    <3>1. /\ passages' = passages /\ pending' = pending
          /\ primaries' = primaries /\ alternates' = alternates
      BY <2>2 DEF partition_vars
    <3>2. PassagesAreTyped' /\ StrongestFirst'
      BY <3>1 DEF IInv, PassagesAreTyped, StrongestFirst, Hits
    <3>3. PrimariesAreUndominated'
      BY <3>1 DEF IInv, PrimariesAreUndominated, Dominates, Overlap
    <3>4. AlternatesAreOwned'
      BY <3>1 DEF IInv, AlternatesAreOwned, Dominates, Overlap
    <3>5. QED
      BY <3>2, <3>3, <3>4 DEF IInv
  <2>3. QED
    BY <2>1, <2>2
<1>2. QED
  BY <1>1, InitIInv, PTL DEF PartitionSpec

-----------------------------------------------------------------------------
\* For any passages with hits, and any order of their ids, partition_passages
\* asks no question that another primary contains and outweighs.
THEOREM PrimariesStayUndominated == PartitionSpec => []PrimariesAreUndominated
BY PartitionInvariant, PTL DEF IInv

\* And nothing is lost: what is no primary has an owner that dominates it, and
\* none that is divided later would own it with a greater share.
THEOREM AlternatesStayOwned == PartitionSpec => []AlternatesAreOwned
BY PartitionInvariant, PTL DEF IInv

-----------------------------------------------------------------------------
(* The hits of a track.                                                    *)

\* Hits have a total order.
LEMMA LessIsTotal ==
    /\ \A g \in Hit : ~Less(g, g)
    /\ \A g, h \in Hit : Less(g, h) \/ Less(h, g) \/ g = h
    /\ \A f, g, h \in Hit : Less(f, g) /\ Less(g, h) => Less(f, h)
    /\ \A f, g, h \in Hit : Less(f, h) => Less(f, g) \/ Less(g, h)
    /\ \A g, h \in Hit : Less(g, h) => g.q <= h.q
<1>1. \A g, h \in Hit : Less(g, h) \/ Less(h, g) \/ g = h
  BY DEF Less, Hit
<1>2. QED
  BY <1>1 DEF Less, Hit

\* A list that is sorted with Less is in order, and has the same hits.
LEMMA SortedHits ==
    ASSUME NEW hits \in Seq(Hit)
    PROVE  /\ StableSort(hits, Less) \in Seq(Hit)
           /\ Len(StableSort(hits, Less)) = Len(hits)
           /\ ToSet(StableSort(hits, Less)) = ToSet(hits)
           /\ \A k, l \in 1 .. Len(hits) :
                  k < l => ~Less(StableSort(hits, Less)[l], StableSort(hits, Less)[k])
<1> DEFINE n == Len(hits)
           before == { p \in (1 .. n) \X (1 .. n) : Less(hits[p[1]], hits[p[2]]) }
           sorted == ByRank(hits, Ranks(n, before))
<1>1. StableSort(hits, Less) = sorted
  BY DEF StableSort
<1>2. n \in Nat /\ \A i \in 1 .. n : hits[i] \in Hit
  BY ElementOfSeq
<1>3. \A i, j \in 1 .. n : <<i, j>> \in before <=> Less(hits[i], hits[j])
  OBVIOUS
<1> HIDE DEF before
<1>4. IsOrder(n, before)
  <2>1. \A i \in 1 .. n : <<i, i>> \notin before
    BY <1>2, <1>3, LessIsTotal
  <2>2. \A i, j, k \in 1 .. n : <<i, j>> \in before /\ <<j, k>> \in before => <<i, k>> \in before
    BY <1>2, <1>3, LessIsTotal
  <2>3. \A i, j, k \in 1 .. n : <<i, k>> \in before => <<i, j>> \in before \/ <<j, k>> \in before
    BY <1>2, <1>3, LessIsTotal
  <2>4. QED
    BY <2>1, <2>2, <2>3 DEF IsOrder
<1>5. /\ sorted \in Seq(Hit) /\ Len(sorted) = n
      /\ \E place : IsSorting(place, n, before) /\ \A k \in 1 .. n : sorted[k] = hits[place[k]]
  BY <1>4, SortingIsPermutation
<1> HIDE DEF sorted
<1>6. PICK place : IsSorting(place, n, before) /\ \A k \in 1 .. n : sorted[k] = hits[place[k]]
  BY <1>5
<1>7. /\ \A k \in 1 .. n : place[k] \in 1 .. n
      /\ \A i \in 1 .. n : \E k \in 1 .. n : place[k] = i
      /\ \A k, l \in 1 .. n : k < l => <<place[l], place[k]>> \notin before
  BY <1>6 DEF IsSorting
<1>8. \A k, l \in 1 .. n : k < l => ~Less(sorted[l], sorted[k])
  BY <1>3, <1>6, <1>7
<1>9. DOMAIN sorted = 1 .. n /\ DOMAIN hits = 1 .. n
  BY <1>5
<1>10. ToSet(sorted) = ToSet(hits)
  <2>1. \A k \in 1 .. n : sorted[k] = hits[place[k]] /\ place[k] \in 1 .. n
    BY <1>6, <1>7
  <2>2. ASSUME NEW i \in 1 .. n PROVE \E k \in 1 .. n : sorted[k] = hits[i]
    <3>1. PICK k \in 1 .. n : place[k] = i
      BY ONLY <1>7
    <3>2. sorted[k] = hits[place[k]]
      BY ONLY <1>6
    <3>3. QED
      BY ONLY <3>1, <3>2
  <2>3. \A k \in 1 .. n : \E i \in 1 .. n : sorted[k] = hits[i]
    BY <2>1
  <2>4. IsTakenFrom(sorted, hits) /\ IsTakenFrom(hits, sorted)
    BY <1>9, <2>2, <2>3 DEF IsTakenFrom
  <2>5. QED
    BY <2>4, SameElements
<1>11. QED
  BY <1>1, <1>5, <1>8, <1>10

\* Without the repeats, each hit comes after the one before it.
LEMMA WithoutRepeats ==
    ASSUME NEW all \in Seq(Hit),
           \A k, l \in 1 .. Len(all) : k < l => ~Less(all[l], all[k]),
           NEW hits, hits = ElementsAt(all, { i \in DOMAIN all : i = 1 \/ all[i] # all[i - 1] })
    PROVE  /\ hits \in Seq(Hit) /\ ToSet(hits) = ToSet(all)
           /\ \A k, l \in 1 .. Len(hits) : k < l => Less(hits[k], hits[l])
<1> DEFINE n == Len(all)
           fresh == { i \in DOMAIN all : i = 1 \/ all[i] # all[i - 1] }
<1>1. /\ n \in Nat /\ DOMAIN all = 1 .. n /\ Len(all) = n
      /\ \A i \in 1 .. n : all[i] \in Hit
      /\ \A i \in 1 .. n : i \in fresh => all[i] \in Hit
  BY ElementOfSeq
<1>2. \A i \in 1 .. n : i \in fresh <=> i = 1 \/ all[i] # all[i - 1]
  BY <1>1
<1>3. \A k, l \in 1 .. n : k < l => ~Less(all[l], all[k])
  OBVIOUS
<1>d. hits = ElementsAt(all, fresh)
  OBVIOUS
<1> HIDE DEF n, fresh
<1>4. hits \in Seq(Hit) /\ \E at : IsSelection(at, n, fresh, all, hits)
  BY <1>1, <1>d, ElementsAtAreElements
<1>5. PICK at : IsSelection(at, n, fresh, all, hits)
  BY <1>4
<1> DEFINE m == Len(hits)
<1>6. m \in Nat /\ DOMAIN hits = 1 .. m /\ Len(hits) = m
  BY <1>4
<1> HIDE DEF m
<1>7. /\ \A k \in 1 .. m : at[k] \in 1 .. n /\ at[k] \in fresh /\ hits[k] = all[at[k]]
      /\ \A k, l \in 1 .. m : k < l => at[k] < at[l]
      /\ \A i \in 1 .. n : i \in fresh => \E k \in 1 .. m : at[k] = i
  BY <1>5 DEF IsSelection, m
<1>8. ASSUME NEW k \in 1 .. m, NEW l \in 1 .. m, k < l
      PROVE  Less(hits[k], hits[l])
  <2> DEFINE i == at[k]
             j == at[l]
  <2>1. i \in 1 .. n /\ j \in 1 .. n /\ i < j /\ j \in fresh /\ j # 1 /\ j - 1 \in 1 .. n
    BY <1>1, <1>7, <1>8
  <2>2. hits[k] = all[i] /\ hits[l] = all[j]
    BY <1>7
  <2> HIDE DEF i, j
  <2>3. all[j] # all[j - 1]
    BY <1>2, <2>1
  <2>4. all[i] \in Hit /\ all[j] \in Hit /\ all[j - 1] \in Hit
    BY <1>1, <2>1
  <2>5. ~Less(all[j], all[j - 1]) /\ ~Less(all[j], all[i])
    BY <1>1, <1>3, <2>1
  <2>6. i = j - 1 \/ i < j - 1
    BY <1>1, <2>1
  <2>7. i = j - 1 \/ ~Less(all[j - 1], all[i])
    BY <1>3, <2>1, <2>6
  <2>8. all[i] # all[j]
    <3>1. CASE i = j - 1
      BY <2>3, <3>1
    <3>2. CASE ~Less(all[j - 1], all[i])
      <4>1. Less(all[j - 1], all[j])
        BY <2>3, <2>4, <2>5, LessIsTotal
      <4>2. QED
        BY <3>2, <4>1
    <3>3. QED
      BY <2>7, <3>1, <3>2
  <2>9. QED
    BY <2>2, <2>4, <2>5, <2>8, LessIsTotal
<1>9. ASSUME NEW i \in 1 .. n PROVE \E k \in 1 .. m : hits[k] = all[i]
  <2> DEFINE same == { j \in 1 .. n : all[j] = all[i] }
  <2>1. same \in SUBSET Nat /\ same # {}
    BY <1>1
  <2>2. PICK j \in same : \A k \in same : j <= k
    BY <2>1, LeastElement
  <2>3. j \in 1 .. n /\ all[j] = all[i]
    OBVIOUS
  <2>4. j # 1 => j - 1 \in 1 .. n /\ ~(j <= j - 1)
    BY <1>1, <2>3
  <2>5. j \in fresh
    BY <1>2, <2>2, <2>3, <2>4
  <2>6. QED
    BY <1>7, <2>3, <2>5
<1>10. ToSet(hits) = ToSet(all)
  <2>1. \A k \in 1 .. m : \E i \in 1 .. n : hits[k] = all[i]
    BY <1>7
  <2>2. DOMAIN hits = 1 .. m /\ DOMAIN all = 1 .. n
    BY <1>1, <1>6
  <2>3. IsTakenFrom(hits, all)
    BY <2>1, <2>2 DEF IsTakenFrom
  <2>4. \A i \in 1 .. n : \E k \in 1 .. m : all[i] = hits[k]
    BY <1>9
  <2>5. IsTakenFrom(all, hits)
    BY <2>2, <2>4 DEF IsTakenFrom
  <2>6. QED
    BY <2>3, <2>5, SameElements
<1>11. QED
  BY <1>4, <1>8, <1>10 DEF m

\* The hits of a track are those of its segments, in order and each once.
LEMMA HitsOfTrack ==
    ASSUME segments \in Seq(Segment), NEW track \in Seq(DOMAIN segments)
    PROVE  /\ HitsOf(track) \in Seq(Hit)
           /\ ToSet(HitsOf(track)) = HitsOfSegments(ToSet(track))
           /\ \A k, l \in 1 .. Len(HitsOf(track)) :
                  k < l => Less(HitsOf(track)[k], HitsOf(track)[l])
<1> DEFINE lists == [n \in DOMAIN track |-> segments[track[n]].hits]
           flat == FlattenSeq(lists)
           all == StableSort(flat, Less)
<1>1. Len(track) \in Nat /\ DOMAIN track = 1 .. Len(track)
  OBVIOUS
<1>2. \A n \in 1 .. Len(track) : track[n] \in DOMAIN segments /\ segments[track[n]] \in Segment
  <2>1. \A s \in DOMAIN segments : segments[s] \in Segment
    BY ElementOfSeq
  <2>2. QED
    BY <2>1, ElementOfSeq
<1>3. lists \in Seq(Seq(Hit)) /\ Len(lists) = Len(track)
  <2>1. \A n \in 1 .. Len(track) : segments[track[n]].hits \in Seq(Hit)
    BY <1>2 DEF Segment
  <2>2. lists \in [1 .. Len(track) -> Seq(Hit)]
    BY <1>1, <2>1
  <2>3. QED
    BY <1>1, <2>2
<1>4. ToSet(flat) = HitsOfSegments(ToSet(track)) /\ flat \in Seq(Hit)
  <2>1. flat \in Seq(Hit) /\ ToSet(flat) = UNION { ToSet(lists[n]) : n \in 1 .. Len(lists) }
    BY <1>3, FlattenedIsList
  <2>2. \A n \in 1 .. Len(lists) : lists[n] = segments[track[n]].hits
    BY <1>1, <1>3
  <2> HIDE DEF lists, flat
  <2>3. \A x : x \in ToSet(flat) <=> \E n \in 1 .. Len(track) : x \in ToSet(segments[track[n]].hits)
    BY <1>3, <2>1, <2>2
  <2>4. \A s : s \in ToSet(track) <=> \E n \in 1 .. Len(track) : s = track[n]
    BY <1>1 DEF ToSet
  <2>5. \A x : x \in HitsOfSegments(ToSet(track))
             <=> \E s \in ToSet(track) : x \in ToSet(segments[s].hits)
    BY DEF HitsOfSegments
  <2>6. \A x : x \in ToSet(flat) <=> x \in HitsOfSegments(ToSet(track))
    BY <2>3, <2>4, <2>5
  <2>7. QED
    BY <2>1, <2>6
<1>5. HitsOf(track) = ElementsAt(all, { i \in DOMAIN all : i = 1 \/ all[i] # all[i - 1] })
  BY DEF HitsOf, HitsWithRepeats
<1> HIDE DEF flat
<1>6. /\ all \in Seq(Hit) /\ ToSet(all) = ToSet(flat)
      /\ \A k, l \in 1 .. Len(all) : k < l => ~Less(all[l], all[k])
  BY <1>4, SortedHits
<1> HIDE DEF all
<1>7. QED
  BY <1>4, <1>5, <1>6, WithoutRepeats

-----------------------------------------------------------------------------
(* Sums.                                                                   *)

IsRunningSum(sum, s, n) ==
    \A i \in 0 .. n : sum[i] = IF i = 0 THEN 0 ELSE sum[i - 1] + s[i]

\* The recursion of Sum has a solution, and its last value is the sum.
LEMMA SumIsRecursion ==
    ASSUME NEW s \in Seq(Nat)
    PROVE  \E sum : /\ IsRunningSum(sum, s, Len(s)) /\ \A i \in 0 .. Len(s) : sum[i] \in Nat
                    /\ Sum(s) = sum[Len(s)]
<1> DEFINE n == Len(s)
           IsIt(t) == t = [i \in 0 .. n |-> IF i = 0 THEN 0 ELSE t[i - 1] + s[i]]
           V == [i \in 0 .. n |-> Nat]
           step == [i \in 1 .. n |-> [v \in Nat |-> v + s[i]]]
<1>1. n \in Nat /\ n \in Int /\ 0 \in Int /\ \A i \in 1 .. n : s[i] \in Nat
  BY ElementOfSeq
<1>2. \A i \in 0 + 1 .. n : i \in 1 .. n /\ i - 1 \in 0 .. n /\ i \in 0 .. n
  BY <1>1
<1>3. \A i \in 0 .. n : V[i] = Nat
  OBVIOUS
<1>4. \A i \in 1 .. n : \A v \in Nat : step[i][v] = v + s[i] /\ v + s[i] \in Nat
  BY <1>1
<1>z. 0 \in 0 .. n /\ n \in 0 .. n
  BY <1>1
<1> HIDE DEF n, V, step
<1>5. 0 \in V[0]
  BY <1>3, <1>z
<1>6. \A i \in 0 + 1 .. n : \A v \in V[i - 1] : step[i][v] \in V[i]
  <2> TAKE i \in 0 + 1 .. n
  <2> TAKE v \in V[i - 1]
  <2>1. i \in 1 .. n /\ i - 1 \in 0 .. n /\ i \in 0 .. n
    BY <1>2
  <2>2. v \in Nat
    BY <1>3, <2>1
  <2>3. step[i][v] \in Nat
    BY <1>4, <2>1, <2>2
  <2>4. QED
    BY <1>3, <2>1, <2>3
<1>7. PICK k : IsRecursion(k, 0, n, 0, step) /\ \A i \in 0 .. n : k[i] \in V[i]
  BY <1>1, <1>5, <1>6, RecursionExists, Zenon
<1>8. IsIt(k)
  <2>1. ASSUME NEW i \in 0 .. n, i # 0 PROVE step[i][k[i - 1]] = k[i - 1] + s[i]
    <3>1. i \in 1 .. n /\ i - 1 \in 0 .. n
      BY <1>1, <2>1
    <3>2. k[i - 1] \in Nat
      BY <1>3, <1>7, <3>1
    <3>3. QED
      BY <1>4, <3>1, <3>2
  <2>2. QED
    BY <1>7, <2>1 DEF IsRecursion
<1> DEFINE sum == CHOOSE t : IsIt(t)
<1>9. IsIt(sum)
  BY <1>8
<1>10. Sum(s) = sum[n]
  BY DEF Sum, n
<1>11. \A i \in 0 .. n : sum[i] = IF i = 0 THEN 0 ELSE sum[i - 1] + s[i]
  BY <1>9
<1> HIDE DEF sum
<1>12. ASSUME NEW i \in 0 + 1 .. n, sum[i - 1] \in V[i - 1] PROVE sum[i] \in V[i]
  <2>1. i \in 1 .. n /\ i - 1 \in 0 .. n /\ i \in 0 .. n /\ i # 0
    BY <1>2
  <2>2. sum[i - 1] \in Nat /\ s[i] \in Nat /\ sum[i] = sum[i - 1] + s[i]
    BY <1>1, <1>3, <1>11, <1>12, <2>1
  <2>3. QED
    BY <1>3, <2>1, <2>2
<1>13. sum[0] \in V[0]
  BY <1>5, <1>11, <1>z
<1>14. \A i \in 0 .. n : sum[i] \in V[i]
  BY <1>1, <1>12, <1>13, RecursionKeeps, Zenon
<1>15. \A i \in 0 .. n : sum[i] \in Nat
  BY <1>3, <1>14
<1>16. IsRunningSum(sum, s, n)
  BY <1>11 DEF IsRunningSum
<1>17. QED
  BY <1>10, <1>15, <1>16 DEF n

AreSame(s, t, n) == \A i \in 1 .. n : s[i] = t[i]

\* Sums of the same numbers are the same.
LEMMA SameSums ==
    ASSUME NEW n \in Nat, NEW s, NEW t, AreSame(s, t, n),
           NEW sum, IsRunningSum(sum, s, n), NEW other, IsRunningSum(other, t, n)
    PROVE  sum[n] = other[n]
<1> DEFINE V == [i \in 0 .. n |-> {other[i]}]
<1>1. n \in Int /\ 0 \in Int /\ 0 \in 0 .. n /\ n \in 0 .. n
  OBVIOUS
<1>2. \A i \in 0 .. n : \A v : v \in V[i] <=> v = other[i]
  OBVIOUS
<1> HIDE DEF V
<1>3. ASSUME NEW i \in 0 + 1 .. n, sum[i - 1] \in V[i - 1] PROVE sum[i] \in V[i]
  <2>1. i \in 1 .. n /\ i - 1 \in 0 .. n /\ i \in 0 .. n /\ i # 0
    OBVIOUS
  <2>2. sum[i] = sum[i - 1] + s[i] /\ other[i] = other[i - 1] + t[i] /\ s[i] = t[i]
    BY <2>1 DEF IsRunningSum, AreSame
  <2>3. QED
    BY <1>2, <1>3, <2>1, <2>2
<1>4. sum[0] \in V[0]
  BY <1>1, <1>2 DEF IsRunningSum
<1>5. \A i \in 0 .. n : sum[i] \in V[i]
  BY <1>1, <1>3, <1>4, RecursionKeeps, Zenon
<1>6. QED
  BY <1>1, <1>2, <1>5

\* A sum grows by what is appended.
LEMMA SumOfAppended ==
    ASSUME NEW s \in Seq(Nat), NEW x \in Nat
    PROVE  Sum(Append(s, x)) = Sum(s) + x /\ Sum(s) \in Nat
<1> DEFINE n == Len(s)
           w == Append(s, x)
<1>1. PICK sum : IsRunningSum(sum, s, n) /\ (\A i \in 0 .. n : sum[i] \in Nat) /\ Sum(s) = sum[n]
  BY SumIsRecursion
<1>2. /\ w \in Seq(Nat) /\ Len(w) = n + 1 /\ w[n + 1] = x /\ n \in Nat
      /\ \A i \in 1 .. n : w[i] = s[i]
  BY Pushed
<1> HIDE DEF w, n
<1>3. PICK more : IsRunningSum(more, w, n + 1) /\ Sum(w) = more[n + 1]
  BY <1>2, SumIsRecursion
<1>4. IsRunningSum(more, w, n)
  BY <1>2, <1>3 DEF IsRunningSum
<1>5. more[n] = sum[n]
  <2>1. AreSame(w, s, n)
    BY <1>2 DEF AreSame
  <2>2. QED
    BY <1>1, <1>2, <1>4, <2>1, SameSums
<1>6. more[n + 1] = more[n] + x
  <2>1. n + 1 \in 0 .. n + 1 /\ n + 1 # 0 /\ (n + 1) - 1 = n
    BY <1>2
  <2>2. more[n + 1] = more[(n + 1) - 1] + w[n + 1]
    BY <1>3, <2>1 DEF IsRunningSum
  <2>3. QED
    BY <1>2, <2>1, <2>2
<1>7. n \in 0 .. n
  BY <1>2
<1>8. QED
  BY <1>1, <1>3, <1>5, <1>6, <1>7 DEF w

\* The sum of nothing.
LEMMA SumOfNothing == Sum(<<>>) = 0
<1> DEFINE s == << >>
<1>1. s \in Seq(Nat) /\ Len(s) = 0
  OBVIOUS
<1> HIDE DEF s
<1>2. PICK sum : IsRunningSum(sum, s, Len(s)) /\ Sum(s) = sum[Len(s)]
  BY <1>1, SumIsRecursion
<1>3. Sum(s) = 0
  BY <1>1, <1>2 DEF IsRunningSum
<1>4. QED
  BY <1>3 DEF s

-----------------------------------------------------------------------------
(* The support of a list of hits.                                          *)

Span == [start : Int, stop : Int, ref_start : Int, ref_stop : Int, hits : Nat \ {0}]

Moments(span, seen) == { hit.q : hit \in Covered(span, seen) }
RefMoments(span, seen) == { hit.ref : hit \in Covered(span, seen) }

\* What a span says of the hits that were seen.
IsSpan(span, seen) ==
    /\ span \in Span
    /\ span.start <= span.stop /\ span.ref_start <= span.ref_stop
    /\ span.start \in Moments(span, seen) /\ span.stop \in Moments(span, seen)
    /\ span.ref_stop \in RefMoments(span, seen)
    /\ IsDense(span.start, span.stop, Moments(span, seen), MaxHitGap)
    /\ IsDenseOnB(span, Covered(span, seen))

SpanHits(spans) == [i \in 1 .. Len(spans) |-> spans[i].hits]

\* What spans say of the n hits that were seen.
IsSupport(spans, seen, n) ==
    /\ spans \in Seq(Span)
    /\ \A i \in 1 .. Len(spans) : IsSpan(spans[i], seen)
    /\ \A hit \in seen : \E i \in 1 .. Len(spans) : Covers(spans[i], hit)
    /\ \A i \in 2 .. Len(spans) : spans[i - 1].stop <= spans[i].start
    /\ Sum(SpanHits(spans)) = n

\* A stretch that is dense stays so when a moment follows closely.
LEMMA DenseGoesOn ==
    ASSUME NEW from \in Int, NEW to \in Int, NEW next \in Int, NEW limit \in Nat \ {0},
           NEW old, NEW new, old \subseteq new, to \in new, next \in new,
           to <= next, next - to <= limit, IsDense(from, to, old, limit)
    PROVE  IsDense(from, next, new, limit)
<1> SUFFICES ASSUME NEW t \in from .. next - limit
             PROVE  \E u \in new : t < u /\ u <= t + limit
  BY DEF IsDense
<1>1. CASE t <= to - limit
  <2>1. t \in from .. to - limit
    BY <1>1
  <2>2. QED
    BY <2>1 DEF IsDense
<1>2. CASE ~(t <= to - limit) /\ t < to
  BY <1>2
<1>3. CASE ~(t < to)
  <2>1. t < next /\ next <= t + limit
    BY <1>3
  <2>2. QED
    BY <2>1
<1>4. QED
  BY <1>1, <1>2, <1>3

\* And when there are more moments.
LEMMA DenseWithMore ==
    ASSUME NEW from, NEW to, NEW limit,
           NEW old, NEW new, old \subseteq new, IsDense(from, to, old, limit)
    PROVE  IsDense(from, to, new, limit)
BY DEF IsDense

\* A span stays one when more hits were seen.
LEMMA SpanStays ==
    ASSUME NEW span, NEW seen, NEW hit, IsSpan(span, seen)
    PROVE  IsSpan(span, seen \cup {hit})
<1>1. /\ Moments(span, seen) \subseteq Moments(span, seen \cup {hit})
      /\ RefMoments(span, seen) \subseteq RefMoments(span, seen \cup {hit})
  BY DEF Moments, RefMoments, Covered
<1>2. IsDense(span.start, span.stop, Moments(span, seen \cup {hit}), MaxHitGap)
  BY <1>1, DenseWithMore DEF IsSpan
<1>3. IsDenseOnB(span, Covered(span, seen \cup {hit}))
  <2>1. PICK first \in Covered(span, seen) :
            /\ first.q = span.start /\ span.ref_start + MaxJump >= first.ref
            /\ IsDense(first.ref, span.ref_stop, RefMoments(span, seen), MaxHitGap)
    BY DEF IsSpan, IsDenseOnB, RefMoments
  <2>2. IsDense(first.ref, span.ref_stop, RefMoments(span, seen \cup {hit}), MaxHitGap)
    BY <1>1, <2>1, DenseWithMore
  <2>3. first \in Covered(span, seen \cup {hit})
    BY DEF Covered
  <2>4. QED
    BY <2>1, <2>2, <2>3 DEF IsDenseOnB, RefMoments
<1>4. QED
  BY <1>1, <1>2, <1>3 DEF IsSpan

\* A span of one hit.
LEMMA SpanOpens ==
    ASSUME NEW hit \in Hit, NEW seen
    PROVE  /\ IsSpan(Opened(hit), seen \cup {hit}) /\ Covers(Opened(hit), hit)
           /\ Opened(hit) \in Span /\ Opened(hit).hits = 1
           /\ Opened(hit).start = hit.q /\ Opened(hit).stop = hit.q
<1> DEFINE span == Opened(hit)
           all == seen \cup {hit}
<1>1. hit.q \in Int /\ hit.ref \in Int
  BY DEF Hit
<1>2. /\ span \in Span /\ span.start = hit.q /\ span.stop = hit.q /\ span.hits = 1
      /\ span.ref_start = hit.ref /\ span.ref_stop = hit.ref
  BY <1>1 DEF Opened, Span
<1>3. Covers(span, hit)
  BY <1>1, <1>2 DEF Covers
<1>4. hit.q \in Moments(span, all) /\ hit.ref \in RefMoments(span, all)
  BY <1>3 DEF Moments, RefMoments, Covered
<1>5. IsDense(span.start, span.stop, Moments(span, all), MaxHitGap)
  <2>1. hit.q .. hit.q - MaxHitGap = {}
    BY <1>1, PassageAssumption
  <2>2. QED
    BY <1>2, <2>1 DEF IsDense
<1>6. IsDenseOnB(span, Covered(span, all))
  <2>1. hit \in Covered(span, all)
    BY <1>3 DEF Covered
  <2>2. hit.ref .. hit.ref - MaxHitGap = {}
    BY <1>1, PassageAssumption
  <2>3. hit.ref + MaxJump >= hit.ref
    BY <1>1, PassageAssumption
  <2> HIDE DEF span, all
  <2>4. QED
    BY <1>2, <2>1, <2>2, <2>3 DEF IsDenseOnB, IsDense
<1> HIDE DEF span, all
<1>7. IsSpan(span, all)
  BY <1>1, <1>2, <1>4, <1>5, <1>6 DEF IsSpan
<1>8. QED
  BY <1>2, <1>3, <1>7 DEF span, all

\* A span that takes a hit which continues it.
LEMMA SpanExtends ==
    ASSUME NEW seen \in SUBSET Hit, NEW span, IsSpan(span, seen), NEW hit \in Hit,
           span.stop <= hit.q, Continues(span, hit)
    PROVE  LET longer == Extended(span, hit)
           IN  /\ IsSpan(longer, seen \cup {hit}) /\ Covers(longer, hit)
               /\ \A other \in Hit : Covers(span, other) => Covers(longer, other)
               /\ longer \in Span /\ longer.hits = span.hits + 1
               /\ longer.start = span.start /\ longer.stop = hit.q
<1> DEFINE longer == Extended(span, hit)
           all == seen \cup {hit}
<1>1. /\ hit.q \in Int /\ hit.ref \in Int
      /\ span \in Span /\ span.start \in Int /\ span.stop \in Int
      /\ span.ref_start \in Int /\ span.ref_stop \in Int /\ span.hits \in Nat \ {0}
      /\ span.start <= span.stop /\ span.ref_start <= span.ref_stop
  BY DEF Hit, IsSpan, Span
<1>2. /\ longer.start = span.start /\ longer.stop = hit.q /\ longer.hits = span.hits + 1
      /\ longer.ref_start = Least(span.ref_start, hit.ref)
      /\ longer.ref_stop = Greatest(span.ref_stop, hit.ref)
      /\ longer \in Span
  <2>1. Least(span.ref_start, hit.ref) \in Int /\ Greatest(span.ref_stop, hit.ref) \in Int
    BY <1>1 DEF Least, Greatest
  <2>2. span.hits + 1 \in Nat \ {0}
    BY <1>1
  <2>3. longer = [start |-> span.start, stop |-> hit.q,
                  ref_start |-> Least(span.ref_start, hit.ref),
                  ref_stop |-> Greatest(span.ref_stop, hit.ref), hits |-> span.hits + 1]
    BY DEF Extended
  <2> HIDE DEF longer
  <2>4. QED
    BY <1>1, <2>1, <2>2, <2>3 DEF Span
<1>3. /\ longer.ref_start <= span.ref_start /\ longer.ref_start <= hit.ref
      /\ span.ref_stop <= longer.ref_stop /\ hit.ref <= longer.ref_stop
      /\ longer.ref_start \in Int /\ longer.ref_stop \in Int
  BY <1>1, <1>2 DEF Least, Greatest
<1>4. /\ hit.q - span.stop <= MaxHitGap /\ hit.ref - span.ref_stop <= MaxHitGap
      /\ hit.ref + MaxJump >= span.ref_stop
  BY DEF Continues
<1>5. Covers(longer, hit)
  BY <1>1, <1>2, <1>3 DEF Covers
<1>6. \A other \in Hit : Covers(span, other) => Covers(longer, other)
  <2> TAKE other \in Hit
  <2>1. other.q \in Int /\ other.ref \in Int
    BY DEF Hit
  <2>2. QED
    BY <1>1, <1>2, <1>3, <2>1 DEF Covers
<1> HIDE DEF longer
<1>7. /\ Moments(span, seen) \subseteq Moments(longer, all)
      /\ RefMoments(span, seen) \subseteq RefMoments(longer, all)
      /\ hit.q \in Moments(longer, all) /\ hit.ref \in RefMoments(longer, all)
  <2>1. Covered(span, seen) \subseteq Covered(longer, all) /\ hit \in Covered(longer, all)
    BY <1>5, <1>6 DEF Covered
  <2>2. QED
    BY <2>1 DEF Moments, RefMoments
<1>8. /\ span.start \in Moments(span, seen) /\ span.stop \in Moments(span, seen)
      /\ span.ref_stop \in RefMoments(span, seen)
      /\ IsDense(span.start, span.stop, Moments(span, seen), MaxHitGap)
  BY DEF IsSpan
<1>9. /\ MaxHitGap \in Nat \ {0} /\ MaxJump \in Nat
      /\ longer.ref_stop \in RefMoments(longer, all)
  BY <1>1, <1>2, <1>7, <1>8, PassageAssumption DEF Greatest
<1>10. IsDense(longer.start, longer.stop, Moments(longer, all), MaxHitGap)
  <2> HIDE DEF all
  <2>1. IsDense(span.start, hit.q, Moments(longer, all), MaxHitGap)
    BY <1>1, <1>4, <1>7, <1>8, <1>9, DenseGoesOn
  <2>2. QED
    BY <1>2, <2>1
<1>11. IsDenseOnB(longer, Covered(longer, all))
  <2>1. PICK first \in Covered(span, seen) :
            /\ first.q = span.start /\ span.ref_start + MaxJump >= first.ref
            /\ IsDense(first.ref, span.ref_stop, RefMoments(span, seen), MaxHitGap)
    BY DEF IsSpan, IsDenseOnB, RefMoments
  <2>2. /\ first.ref \in Int /\ first.ref <= span.ref_stop
        /\ first \in Covered(longer, all)
    BY <1>6 DEF Covered, Covers, Hit
  <2>3. longer.ref_start + MaxJump >= first.ref
    BY <1>1, <1>2, <1>4, <1>9, <2>1, <2>2 DEF Least
  <2> HIDE DEF all
  <2>4. IsDense(first.ref, longer.ref_stop, RefMoments(longer, all), MaxHitGap)
    <3>1. CASE hit.ref > span.ref_stop
      <4>1. longer.ref_stop = hit.ref
        BY <1>1, <1>2, <3>1 DEF Greatest
      <4>2. IsDense(first.ref, hit.ref, RefMoments(longer, all), MaxHitGap)
        BY <1>1, <1>4, <1>7, <1>8, <1>9, <2>1, <2>2, <3>1, DenseGoesOn
      <4>3. QED
        BY <4>1, <4>2
    <3>2. CASE ~(hit.ref > span.ref_stop)
      <4>1. longer.ref_stop = span.ref_stop
        BY <1>1, <1>2, <3>2 DEF Greatest
      <4>2. QED
        BY <1>7, <2>1, <4>1, DenseWithMore
    <3>3. QED
      BY <3>1, <3>2
  <2>5. first.q = longer.start
    BY <1>2, <2>1
  <2>6. QED
    BY <2>2, <2>3, <2>4, <2>5 DEF IsDenseOnB, RefMoments
<1>12. longer.start \in Moments(longer, all) /\ longer.stop \in Moments(longer, all)
  BY <1>2, <1>7, <1>8
<1>13. longer.start <= longer.stop /\ longer.ref_start <= longer.ref_stop
  BY <1>1, <1>2, <1>3
<1>14. IsSpan(longer, all)
  BY <1>2, <1>9, <1>10, <1>11, <1>12, <1>13 DEF IsSpan
<1>15. QED
  BY <1>2, <1>5, <1>6, <1>14 DEF longer, all

\* Spans with one more at their end.
LEMMA SpansGrow ==
    ASSUME NEW seen \in SUBSET Hit, NEW spans \in Seq(Span), NEW span \in Span,
           NEW hit \in Hit, NEW n \in Nat,
           \A i \in 1 .. Len(spans) : IsSpan(spans[i], seen),
           \A other \in seen : \/ \E i \in 1 .. Len(spans) : Covers(spans[i], other)
                               \/ Covers(span, other),
           \A i \in 2 .. Len(spans) : spans[i - 1].stop <= spans[i].start,
           spans # <<>> => spans[Len(spans)].stop <= span.start,
           Sum(SpanHits(spans)) + span.hits = n,
           IsSpan(span, seen \cup {hit}), Covers(span, hit)
    PROVE  /\ IsSupport(Append(spans, span), seen \cup {hit}, n)
           /\ Append(spans, span) # <<>>
           /\ Last(Append(spans, span)) = span
<1> DEFINE m == Len(spans)
           more == Append(spans, span)
<1>1. /\ more \in Seq(Span) /\ Len(more) = m + 1 /\ m \in Nat /\ more[m + 1] = span
      /\ \A i \in 1 .. m : more[i] = spans[i]
  BY Pushed
<1>2. \A i \in 1 .. m : spans[i] \in Span
  BY ElementOfSeq
<1>3. Last(more) = span /\ more # <<>>
  BY <1>1 DEF Last
<1>4. spans = <<>> <=> m = 0
  OBVIOUS
<1> HIDE DEF m, more
<1>5. \A i \in 1 .. m + 1 : i = m + 1 \/ i \in 1 .. m
  BY <1>1
<1>6. ASSUME NEW i \in 1 .. m + 1 PROVE IsSpan(more[i], seen \cup {hit})
  <2>1. CASE i = m + 1
    BY <1>1, <2>1
  <2>2. CASE i \in 1 .. m
    <3>1. IsSpan(spans[i], seen)
      BY <2>2 DEF m
    <3>2. QED
      BY <1>1, <2>2, <3>1, SpanStays
  <2>3. QED
    BY <1>5, <2>1, <2>2
<1>7. ASSUME NEW other \in seen \cup {hit} PROVE \E i \in 1 .. m + 1 : Covers(more[i], other)
  <2>1. m + 1 \in 1 .. m + 1 /\ \A i \in 1 .. m : i \in 1 .. m + 1
    BY <1>1
  <2>2. CASE other = hit
    BY <1>1, <2>1, <2>2
  <2>3. CASE other \in seen
    <3>1. CASE Covers(span, other)
      BY <1>1, <2>1, <3>1
    <3>2. CASE \E i \in 1 .. m : Covers(spans[i], other)
      BY <1>1, <2>1, <3>2
    <3>3. QED
      BY <2>3, <3>1, <3>2 DEF m
  <2>4. QED
    BY <2>2, <2>3
<1>8. ASSUME NEW i \in 2 .. m + 1 PROVE more[i - 1].stop <= more[i].start
  <2>1. CASE i = m + 1
    <3>1. m # 0 /\ i - 1 = m /\ m \in 1 .. m
      BY <1>1, <2>1
    <3>2. spans[m].stop <= span.start
      BY <1>4, <3>1 DEF m
    <3>3. QED
      BY <1>1, <2>1, <3>1, <3>2
  <2>2. CASE i # m + 1
    <3>1. i \in 2 .. m /\ i - 1 \in 1 .. m /\ i \in 1 .. m
      BY <1>1, <2>2
    <3>2. QED
      BY <1>1, <3>1 DEF m
  <2>3. QED
    BY <2>1, <2>2
<1>9. Sum(SpanHits(more)) = n
  <2>1. SpanHits(spans) \in Seq(Nat) /\ span.hits \in Nat
    <3>1. \A i \in 1 .. m : spans[i].hits \in Nat
      BY <1>2 DEF Span
    <3>2. SpanHits(spans) \in [1 .. m -> Nat]
      BY <3>1 DEF SpanHits, m
    <3>3. QED
      BY <1>1, <3>2 DEF Span
  <2>2. SpanHits(more) = Append(SpanHits(spans), span.hits)
    <3>1. /\ Append(SpanHits(spans), span.hits) \in Seq(Nat)
          /\ Len(Append(SpanHits(spans), span.hits)) = m + 1
          /\ Append(SpanHits(spans), span.hits)[m + 1] = span.hits
          /\ \A i \in 1 .. m : Append(SpanHits(spans), span.hits)[i] = spans[i].hits
      <4>1. Len(SpanHits(spans)) = m /\ \A i \in 1 .. m : SpanHits(spans)[i] = spans[i].hits
        BY <1>1 DEF SpanHits, m
      <4>2. QED
        BY <2>1, <4>1, Pushed
    <3> DEFINE w == Append(SpanHits(spans), span.hits)
    <3>2. DOMAIN w = 1 .. m + 1 /\ w = [i \in 1 .. m + 1 |-> w[i]]
      BY <3>1
    <3> HIDE DEF w
    <3>3. \A i \in 1 .. m + 1 : w[i] = more[i].hits
      BY <1>1, <1>5, <3>1 DEF w
    <3>4. w = SpanHits(more)
      BY <1>1, <3>2, <3>3 DEF SpanHits
    <3>5. QED
      BY <3>4 DEF w
  <2>3. QED
    BY <2>1, <2>2, SumOfAppended
<1>10. IsSupport(more, seen \cup {hit}, n)
  BY <1>1, <1>6, <1>7, <1>8, <1>9 DEF IsSupport
<1>11. QED
  BY <1>3, <1>10 DEF more

\* A hit that is no earlier than the others either continues the last span or
\* opens one.
LEMMA TakenKeepsSupport ==
    ASSUME NEW seen \in SUBSET Hit, NEW n \in Nat, NEW spans, IsSupport(spans, seen, n),
           NEW hit \in Hit, spans # <<>> => Last(spans).stop <= hit.q
    PROVE  /\ IsSupport(Taken(spans, hit), seen \cup {hit}, n + 1)
           /\ Taken(spans, hit) # <<>> /\ Last(Taken(spans, hit)).stop = hit.q
<1> DEFINE m == Len(spans)
<1>1. /\ spans \in Seq(Span) /\ m \in Nat
      /\ \A i \in 1 .. m : IsSpan(spans[i], seen) /\ spans[i] \in Span
      /\ \A other \in seen : \E i \in 1 .. m : Covers(spans[i], other)
      /\ \A i \in 2 .. m : spans[i - 1].stop <= spans[i].start
      /\ Sum(SpanHits(spans)) = n
  BY DEF IsSupport, IsSpan
<1>2. Last(spans) = spans[m]
  BY DEF Last
<1>3. CASE spans # <<>> /\ Continues(Last(spans), hit)
  <2> DEFINE fore == Front(spans)
             last == spans[m]
             longer == Extended(last, hit)
  <2>1. /\ fore \in Seq(Span) /\ Len(fore) = m - 1 /\ m \in 1 .. m
        /\ \A i \in 1 .. m - 1 : fore[i] = spans[i]
    BY <1>1, <1>3, Popped
  <2>2. /\ IsSpan(last, seen) /\ last.stop <= hit.q /\ Continues(last, hit)
    BY <1>1, <1>2, <1>3, <2>1
  <2> HIDE DEF last
  <2>3. /\ IsSpan(longer, seen \cup {hit}) /\ Covers(longer, hit)
        /\ \A other \in Hit : Covers(last, other) => Covers(longer, other)
        /\ longer \in Span /\ longer.hits = last.hits + 1
        /\ longer.start = last.start /\ longer.stop = hit.q
    <3>1. last.stop <= hit.q /\ Continues(last, hit) /\ IsSpan(last, seen)
      BY <2>2
    <3>2. seen \in SUBSET Hit /\ hit \in Hit
      OBVIOUS
    <3>3. QED
      BY ONLY <3>1, <3>2, SpanExtends
  <2> USE DEF last
  <2>4. Taken(spans, hit) = Append(fore, longer)
    BY <1>2, <1>3 DEF Taken
  <2> HIDE DEF fore, longer, m
  <2>5. \A i \in 1 .. m - 1 : i \in 1 .. m
    BY <1>1
  <2>6. ASSUME NEW other \in seen
        PROVE  \/ \E i \in 1 .. Len(fore) : Covers(fore[i], other)
               \/ Covers(longer, other)
    <3>1. PICK i \in 1 .. m : Covers(spans[i], other)
      BY <1>1
    <3>2. CASE i = m
      BY <2>3, <3>1, <3>2
    <3>3. CASE i # m
      <4>1. i \in 1 .. m - 1
        BY <1>1, <3>3
      <4>2. QED
        BY <2>1, <3>1, <4>1
    <3>4. QED
      BY <3>2, <3>3
  <2>7. \A i \in 2 .. Len(fore) : fore[i - 1].stop <= fore[i].start
    <3>1. \A i \in 2 .. m - 1 : i \in 2 .. m /\ i \in 1 .. m - 1 /\ i - 1 \in 1 .. m - 1
      BY <1>1
    <3>2. \A i \in 2 .. m : spans[i - 1].stop <= spans[i].start
      BY <1>1
    <3>3. Len(fore) = m - 1 /\ \A i \in 1 .. m - 1 : fore[i] = spans[i]
      BY <2>1
    <3>4. ASSUME NEW i \in 2 .. m - 1 PROVE fore[i - 1].stop <= fore[i].start
      <4>1. fore[i - 1] = spans[i - 1] /\ fore[i] = spans[i]
        BY ONLY <3>1, <3>3
      <4>2. spans[i - 1].stop <= spans[i].start
        BY ONLY <3>1, <3>2
      <4>3. QED
        BY ONLY <4>1, <4>2
    <3>5. QED
      BY <3>3, <3>4
  <2>8. fore # <<>> => fore[Len(fore)].stop <= longer.start
    <3>1. SUFFICES ASSUME fore # <<>> PROVE fore[Len(fore)].stop <= longer.start
      OBVIOUS
    <3>2. Len(fore) # 0 /\ Len(fore) \in Nat
      BY <2>1, <3>1
    <3>3. m - 1 \in 1 .. m - 1 /\ m \in 2 .. m
      BY <1>1, <2>1, <3>2
    <3>4. QED
      BY <1>1, <2>1, <2>3, <3>3
  <2>9. \A i \in 1 .. Len(fore) : IsSpan(fore[i], seen)
    BY <1>1, <2>1, <2>5
  <2>10. Sum(SpanHits(fore)) + longer.hits = n + 1
    <3>1. SpanHits(fore) \in Seq(Nat) /\ last.hits \in Nat
      <4>1. \A i \in 1 .. m - 1 : fore[i].hits \in Nat
        BY <1>1, <2>1, <2>5 DEF Span
      <4>2. SpanHits(fore) \in [1 .. m - 1 -> Nat] /\ m - 1 \in Nat
        BY <2>1, <4>1 DEF SpanHits
      <4>3. SpanHits(fore) \in Seq(Nat)
        BY <4>2
      <4>4. spans[m] \in Span
        BY <1>1, <2>1
      <4>5. QED
        BY <4>3, <4>4 DEF Span
    <3>2. SpanHits(spans) = Append(SpanHits(fore), last.hits)
      <4> DEFINE w == Append(SpanHits(fore), last.hits)
      <4>1. Len(SpanHits(fore)) = m - 1 /\ \A i \in 1 .. m - 1 : SpanHits(fore)[i] = spans[i].hits
        BY <1>1, <2>1 DEF SpanHits
      <4>2. /\ w \in Seq(Nat) /\ Len(w) = m /\ w[m] = last.hits
            /\ \A i \in 1 .. m - 1 : w[i] = spans[i].hits
        BY <1>1, <3>1, <4>1, Pushed
      <4>3. w = [i \in 1 .. m |-> w[i]]
        BY <4>2
      <4> HIDE DEF w
      <4>4. \A i \in 1 .. m : w[i] = spans[i].hits
        <5>1. \A i \in 1 .. m : i = m \/ i \in 1 .. m - 1
          BY <1>1
        <5>2. QED
          BY <4>2, <5>1
      <4>5. w = SpanHits(spans)
        BY <4>3, <4>4 DEF SpanHits, m
      <4>6. QED
        BY <4>5 DEF w
    <3>3. Sum(SpanHits(spans)) = Sum(SpanHits(fore)) + last.hits /\ Sum(SpanHits(fore)) \in Nat
      BY <3>1, <3>2, SumOfAppended
    <3>4. QED
      BY <1>1, <2>3, <3>1, <3>3
  <2>11. /\ IsSupport(Append(fore, longer), seen \cup {hit}, n + 1)
         /\ Append(fore, longer) # <<>> /\ Last(Append(fore, longer)) = longer
    <3>1. n + 1 \in Nat
      OBVIOUS
    <3>2. QED
      BY <2>1, <2>3, <2>6, <2>7, <2>8, <2>9, <2>10, <3>1, SpansGrow
  <2>12. QED
    BY <2>3, <2>4, <2>11
<1>4. CASE ~(spans # <<>> /\ Continues(Last(spans), hit))
  <2> DEFINE opened == Opened(hit)
  <2>1. Taken(spans, hit) = Append(spans, opened)
    BY <1>4 DEF Taken
  <2>2. /\ IsSpan(opened, seen \cup {hit}) /\ Covers(opened, hit)
        /\ opened \in Span /\ opened.hits = 1 /\ opened.start = hit.q /\ opened.stop = hit.q
    BY SpanOpens
  <2> HIDE DEF opened
  <2>3. spans # <<>> => spans[Len(spans)].stop <= opened.start
    BY <1>2, <2>2
  <2>4. Sum(SpanHits(spans)) + opened.hits = n + 1 /\ n + 1 \in Nat
    BY <1>1, <2>2
  <2>5. /\ IsSupport(Append(spans, opened), seen \cup {hit}, n + 1)
        /\ Append(spans, opened) # <<>> /\ Last(Append(spans, opened)) = opened
    BY <1>1, <2>2, <2>3, <2>4, SpansGrow
  <2>6. QED
    BY <2>1, <2>2, <2>5
<1>5. QED
  BY <1>3, <1>4

\* The spans of the first n hits.
IsSupportUpTo(hits, n, spans) ==
    /\ IsSupport(spans, { hits[k] : k \in 1 .. n }, n)
    /\ n = 0 => spans = <<>>
    /\ n # 0 => spans # <<>> /\ Last(spans).stop = hits[n].q

\* The next hit continues the spans of those before it.
LEMMA SupportGoesOn ==
    ASSUME NEW hits \in Seq(Hit), NEW n \in 1 .. Len(hits),
           \A k, l \in 1 .. Len(hits) : k < l => hits[k].q <= hits[l].q,
           NEW spans, IsSupportUpTo(hits, n - 1, spans)
    PROVE  IsSupportUpTo(hits, n, Taken(spans, hits[n]))
<1> DEFINE seen == { hits[k] : k \in 1 .. n - 1 }
           hit == hits[n]
<1>1. /\ Len(hits) \in Nat /\ n \in Nat /\ n - 1 \in Nat /\ n # 0 /\ (n - 1) + 1 = n
      /\ \A k \in 1 .. n - 1 : k \in 1 .. Len(hits)
      /\ \A k \in 1 .. Len(hits) : hits[k] \in Hit
  BY ElementOfSeq
<1>2. seen \in SUBSET Hit /\ hit \in Hit
  BY <1>1
<1>3. IsSupport(spans, seen, n - 1)
  BY DEF IsSupportUpTo
<1>4. ASSUME spans # <<>> PROVE Last(spans).stop <= hit.q
  <2>1. n - 1 # 0 /\ Last(spans).stop = hits[n - 1].q
    BY <1>4 DEF IsSupportUpTo
  <2>2. n - 1 \in 1 .. Len(hits) /\ n - 1 < n
    BY <1>1, <2>1
  <2>3. QED
    BY <2>1, <2>2
<1>5. seen \cup {hit} = { hits[k] : k \in 1 .. n }
  <2>1. \A k \in 1 .. n : k = n \/ k \in 1 .. n - 1
    BY <1>1
  <2>2. \A k \in 1 .. n - 1 : k \in 1 .. n
    BY <1>1
  <2>3. n \in 1 .. n
    BY <1>1
  <2>4. QED
    BY <2>1, <2>2, <2>3
<1> HIDE DEF seen, hit
<1>6. /\ IsSupport(Taken(spans, hit), seen \cup {hit}, n)
      /\ Taken(spans, hit) # <<>> /\ Last(Taken(spans, hit)).stop = hit.q
  <2> DEFINE p == n - 1
  <2>1. p \in Nat /\ p + 1 = n /\ IsSupport(spans, seen, p)
    BY <1>1, <1>3
  <2> HIDE DEF p
  <2>2. IsSupport(Taken(spans, hit), seen \cup {hit}, p + 1)
        /\ Taken(spans, hit) # <<>> /\ Last(Taken(spans, hit)).stop = hit.q
    BY <1>2, <1>4, <2>1, TakenKeepsSupport
  <2>3. QED
    BY <2>1, <2>2
<1>7. QED
  BY <1>1, <1>5, <1>6 DEF IsSupportUpTo, hit

\* Without hits there are no spans.
LEMMA NoSupport == ASSUME NEW hits PROVE IsSupportUpTo(hits, 0, << >>)
<1> DEFINE s == << >>
<1>1. s \in Seq(Span) /\ Len(s) = 0 /\ 1 .. 0 = {} /\ 2 .. 0 = {}
  OBVIOUS
<1>2. SpanHits(s) = << >>
  BY <1>1 DEF SpanHits
<1>3. Sum(SpanHits(s)) = 0
  BY <1>2, SumOfNothing
<1> HIDE DEF s
<1>4. IsSupport(s, { hits[k] : k \in 1 .. 0 }, 0)
  BY <1>1, <1>3 DEF IsSupport
<1>5. QED
  BY <1>4 DEF IsSupportUpTo, s

\* The support of hits counts and covers them, and has no holes.
LEMMA SupportOfHits ==
    ASSUME NEW hits \in Seq(Hit), hits # <<>>,
           \A k, l \in 1 .. Len(hits) : k < l => hits[k].q <= hits[l].q
    PROVE  IsSupport(Support(hits), ToSet(hits), Len(hits)) /\ Support(hits) # <<>>
<1> DEFINE n == Len(hits)
           IsIt(t) == t = [i \in 0 .. n |-> IF i = 0 THEN <<>> ELSE Taken(t[i - 1], hits[i])]
           V == [i \in 0 .. n |-> { spans \in Seq(Span) : IsSupportUpTo(hits, i, spans) }]
           step == [i \in 1 .. n |-> [v \in Seq(Span) |-> Taken(v, hits[i])]]
<1>1. n \in Nat /\ n \in Int /\ 0 \in Int /\ n # 0 /\ DOMAIN hits = 1 .. n
  OBVIOUS
<1>2. \A i \in 0 + 1 .. n : i \in 1 .. n /\ i - 1 \in 0 .. n /\ i \in 0 .. n /\ i # 0
  BY <1>1
<1>3. \A i \in 0 .. n : \A v : v \in V[i] <=> v \in Seq(Span) /\ IsSupportUpTo(hits, i, v)
  OBVIOUS
<1>4. \A i \in 1 .. n : \A v \in Seq(Span) : step[i][v] = Taken(v, hits[i])
  OBVIOUS
<1>z. 0 \in 0 .. n /\ n \in 0 .. n
  BY <1>1
<1>o. \A i \in 1 .. n : \A v :
          IsSupportUpTo(hits, i - 1, v) => IsSupportUpTo(hits, i, Taken(v, hits[i]))
  BY SupportGoesOn
<1>l. \A i : \A v : IsSupportUpTo(hits, i, v) => v \in Seq(Span)
  BY DEF IsSupportUpTo, IsSupport
<1>h. \A k, l \in 1 .. n : k < l => hits[k].q <= hits[l].q
  OBVIOUS
<1> HIDE DEF n, V, step
<1>5. << >> \in V[0]
  BY <1>3, <1>z, <1>l, NoSupport
<1>6. \A i \in 0 + 1 .. n : \A v \in V[i - 1] : step[i][v] \in V[i]
  <2> TAKE i \in 0 + 1 .. n
  <2> TAKE v \in V[i - 1]
  <2>1. i \in 1 .. n /\ i - 1 \in 0 .. n /\ i \in 0 .. n
    BY <1>2
  <2>2. v \in Seq(Span) /\ IsSupportUpTo(hits, i - 1, v)
    BY <1>3, <2>1
  <2>3. IsSupportUpTo(hits, i, Taken(v, hits[i]))
    BY <1>o, <2>1, <2>2
  <2>4. step[i][v] = Taken(v, hits[i])
    BY <1>4, <2>1, <2>2
  <2>5. QED
    BY <1>3, <1>l, <2>1, <2>3, <2>4
<1>7. PICK k : IsRecursion(k, 0, n, << >>, step) /\ \A i \in 0 .. n : k[i] \in V[i]
  BY <1>1, <1>5, <1>6, RecursionExists, Zenon
<1>8. IsIt(k)
  <2>1. ASSUME NEW i \in 0 .. n, i # 0 PROVE step[i][k[i - 1]] = Taken(k[i - 1], hits[i])
    <3>1. i \in 1 .. n /\ i - 1 \in 0 .. n
      BY <1>1, <2>1
    <3>2. k[i - 1] \in Seq(Span)
      BY <1>3, <1>7, <3>1
    <3>3. QED
      BY <1>4, <3>1, <3>2
  <2>2. QED
    BY <1>7, <2>1 DEF IsRecursion
<1> DEFINE spans == CHOOSE t : IsIt(t)
<1>9. IsIt(spans)
  BY <1>8
<1>10. Support(hits) = spans[n]
  BY DEF Support, n
<1>11. \A i \in 0 .. n : spans[i] = IF i = 0 THEN <<>> ELSE Taken(spans[i - 1], hits[i])
  BY <1>9
<1> HIDE DEF spans
<1>12. ASSUME NEW i \in 0 + 1 .. n, spans[i - 1] \in V[i - 1] PROVE spans[i] \in V[i]
  <2>1. i \in 1 .. n /\ i - 1 \in 0 .. n /\ i \in 0 .. n /\ i # 0
    BY <1>2
  <2>2. IsSupportUpTo(hits, i - 1, spans[i - 1])
    BY <1>3, <1>12, <2>1
  <2>3. spans[i] = Taken(spans[i - 1], hits[i])
    BY <1>11, <2>1
  <2>4. IsSupportUpTo(hits, i, spans[i])
    BY <1>o, <2>1, <2>2, <2>3
  <2>5. QED
    BY <1>3, <1>l, <2>1, <2>4
<1>13. spans[0] \in V[0]
  BY <1>5, <1>11, <1>z
<1>14. \A i \in 0 .. n : spans[i] \in V[i]
  BY <1>1, <1>12, <1>13, RecursionKeeps, Zenon
<1>15. IsSupportUpTo(hits, n, spans[n])
  BY <1>3, <1>14, <1>z
<1>16. { hits[k1] : k1 \in 1 .. n } = ToSet(hits)
  BY <1>1 DEF ToSet
<1>17. QED
  BY <1>1, <1>10, <1>15, <1>16 DEF IsSupportUpTo, n

-----------------------------------------------------------------------------
(* The passage of a track.                                                 *)

\* A passage whose keys are numbers.
IsNumbered(p) == IsPassage(p) /\ p.ref_start \in Int /\ p.seconds \in Nat

\* A track of segments with hits makes a passage that counts them once and
\* reports no hole.
LEMMA PassageOfTrack ==
    ASSUME segments \in Seq(Segment), NEW track \in Seq(DOMAIN segments), track # <<>>
    PROVE  /\ IsNumbered(PassageOf(track))
           /\ PassageOf(track).segments = track
           /\ CountsItsHits(PassageOf(track)) /\ HasNoHoles(PassageOf(track))
<1> DEFINE hits == HitsOf(track)
           support == Support(hits)
           all == HitsOfSegments(ToSet(track))
           p == PassageOf(track)
           n == Len(support)
<1>1. /\ p.support = support /\ p.start = support[1].start /\ p.stop = Last(support).stop
      /\ p.ref_start = Min({ support[i].ref_start : i \in DOMAIN support })
      /\ p.hits = Len(hits) /\ p.segments = track /\ p.seconds = Seconds(support)
  BY DEF PassageOf
<1>2. /\ hits \in Seq(Hit) /\ ToSet(hits) = all
      /\ \A k, l \in 1 .. Len(hits) : k < l => Less(hits[k], hits[l])
  BY HitsOfTrack
<1> HIDE DEF p, hits
<1>3. /\ Len(hits) \in Nat /\ DOMAIN hits = 1 .. Len(hits)
      /\ \A k \in 1 .. Len(hits) : hits[k] \in Hit
  BY <1>2, ElementOfSeq
<1>4. \A k, l \in 1 .. Len(hits) : k < l => hits[k] # hits[l] /\ hits[k].q <= hits[l].q
  BY <1>2, <1>3, LessIsTotal
<1>5. Cardinality(all) = Len(hits)
  BY <1>2, <1>4, LengthOfDistinct
<1>6. hits # <<>> /\ Len(hits) # 0
  <2>1. track[1] \in DOMAIN segments /\ track[1] \in ToSet(track)
    <3>1. 1 \in DOMAIN track /\ DOMAIN track = 1 .. Len(track)
      OBVIOUS
    <3>2. QED
      BY <3>1, ElementOfSeq DEF ToSet
  <2>2. segments[track[1]] \in Segment
    BY <2>1, ElementOfSeq
  <2>3. segments[track[1]].hits \in Seq(Hit) /\ segments[track[1]].hits # <<>>
    BY <2>2 DEF Segment
  <2>4. segments[track[1]].hits[1] \in ToSet(segments[track[1]].hits)
    BY <2>3 DEF ToSet
  <2>5. segments[track[1]].hits[1] \in all
    BY <2>1, <2>4 DEF HitsOfSegments
  <2>6. PICK k \in 1 .. Len(hits) : TRUE
    BY <1>2, <1>3, <2>5 DEF ToSet
  <2>7. Len(hits) # 0
    BY <1>3, <2>6
  <2>8. QED
    BY <2>7
<1>7. IsSupport(support, all, Len(hits)) /\ support # <<>>
  BY <1>2, <1>4, <1>6, SupportOfHits
<1> HIDE DEF support, all
<1>8. /\ support \in Seq(Span) /\ n \in Nat \ {0} /\ DOMAIN support = 1 .. n
      /\ \A i \in 1 .. n : IsSpan(support[i], all) /\ support[i] \in Span
      /\ \A hit \in all : \E i \in 1 .. n : Covers(support[i], hit)
      /\ \A i \in 2 .. n : support[i - 1].stop <= support[i].start
      /\ Sum(SpanHits(support)) = Len(hits)
  BY <1>7 DEF IsSupport, IsSpan
<1> HIDE DEF n
<1>9. IsPassage(p)
  <2>1. 1 \in 1 .. n /\ n \in 1 .. n /\ Last(support) = support[n]
    BY <1>8 DEF Last, n
  <2>2. support[1].start \in Int /\ support[n].stop \in Int
    BY <1>8, <2>1 DEF Span
  <2>3. QED
    BY <1>1, <1>3, <1>6, <2>1, <2>2 DEF IsPassage
<1>10. p.ref_start \in Int
  <2> DEFINE f == [i \in 1 .. n |-> support[i].ref_start]
             T == { support[i].ref_start : i \in DOMAIN support }
  <2>1. \A i \in 1 .. n : f[i] \in Int /\ f[i] = support[i].ref_start
    BY <1>8 DEF Span
  <2> HIDE DEF f
  <2>2. PICK i \in 1 .. n : \A j \in 1 .. n : f[i] <= f[j]
    BY <1>8, <2>1, LeastOfList
  <2>3. f[i] \in T /\ \A y \in T : f[i] <= y
    BY <1>8, <2>1, <2>2
  <2>4. Min(T) \in T
    BY <2>3 DEF Min
  <2>5. QED
    BY <1>1, <1>8, <2>1, <2>4
<1>11. CountsItsHits(p)
  <2>1. [i \in DOMAIN p.support |-> p.support[i].hits] = SpanHits(support)
    BY <1>1, <1>8 DEF SpanHits, n
  <2>2. ASSUME NEW i \in 1 .. n
        PROVE  {support[i].start, support[i].stop} \subseteq { hit.q : hit \in all }
    BY <1>8 DEF IsSpan, Moments, Covered
  <2>3. HitsOfSegments(ToSet(p.segments)) = all
    BY <1>1 DEF all
  <2>4. Sum([i \in DOMAIN p.support |-> p.support[i].hits]) = p.hits
    BY <1>1, <1>8, <2>1
  <2>5. QED
    BY <1>1, <1>5, <1>8, <2>2, <2>3, <2>4 DEF CountsItsHits
<1>12. HasNoHoles(p)
  <2>1. HitsOfSegments(ToSet(p.segments)) = all
    BY <1>1 DEF all
  <2>2. ASSUME NEW i \in 1 .. n
        PROVE  /\ IsDense(support[i].start, support[i].stop,
                          { hit.q : hit \in Covered(support[i], all) }, MaxHitGap)
               /\ IsDenseOnB(support[i], Covered(support[i], all))
    BY <1>8 DEF IsSpan, Moments
  <2>3. QED
    BY <1>1, <1>8, <2>1, <2>2 DEF HasNoHoles, n
<1>13. p.seconds \in Nat
  <2> DEFINE lengths == [i \in 1 .. n |-> support[i].stop - support[i].start]
  <2>1. lengths \in [1 .. n -> Nat]
    <3>1. ASSUME NEW i \in 1 .. n PROVE support[i].stop - support[i].start \in Nat
      <4>1. support[i].start <= support[i].stop /\ support[i] \in Span
        BY <1>8 DEF IsSpan
      <4>2. QED
        BY <4>1 DEF Span
    <3>2. QED
      BY <3>1
  <2>2. Seconds(support) = Sum(lengths)
    BY <1>8 DEF Seconds
  <2> HIDE DEF lengths
  <2>3. lengths \in Seq(Nat)
    <3>1. n \in Nat
      BY <1>8
    <3>2. QED
      BY <2>1, <3>1
  <2>4. PICK sum : /\ \A i \in 0 .. Len(lengths) : sum[i] \in Nat
                   /\ Sum(lengths) = sum[Len(lengths)]
    BY <2>3, SumIsRecursion
  <2>5. Len(lengths) \in 0 .. Len(lengths)
    BY <2>3
  <2>6. QED
    BY <1>1, <2>2, <2>4, <2>5
<1>14. QED
  BY <1>1, <1>9, <1>10, <1>11, <1>12, <1>13 DEF p, IsNumbered

-----------------------------------------------------------------------------
(* Tracks.                                                                 *)

\* Each segment of S is either one of the rest or at one place of one track.
AreTracks(ts, S, rest) ==
    /\ ts \in Seq(Seq(S) \ {<<>>}) /\ rest \subseteq S
    /\ \A s \in S \ rest : \E n \in 1 .. Len(ts) : \E i \in 1 .. Len(ts[n]) : ts[n][i] = s
    /\ \A m, n \in 1 .. Len(ts) : \A i \in 1 .. Len(ts[m]) : \A j \in 1 .. Len(ts[n]) :
           ts[m][i] = ts[n][j] => m = n /\ i = j
    /\ \A n \in 1 .. Len(ts) : \A i \in 1 .. Len(ts[n]) : ts[n][i] \notin rest

\* The tracks with n replaced by one that ends with s.
LEMMA TracksGrow ==
    ASSUME NEW S, NEW rest, NEW ts, AreTracks(ts, S, rest), NEW s \in rest,
           NEW size \in Nat, NEW n \in 1 .. size, NEW new \in Seq(Seq(S) \ {<<>>}), Len(new) = size,
           \/ size = Len(ts) /\ new[n] = Append(ts[n], s)
           \/ size = Len(ts) + 1 /\ n = size /\ new[n] = <<s>>,
           \A m \in 1 .. size : m # n => new[m] = ts[m]
    PROVE  AreTracks(new, S, rest \ {s})
<1> DEFINE size0 == Len(ts)
           old == IF n = size0 + 1 THEN 0 ELSE Len(ts[n])
<1>1. /\ ts \in Seq(Seq(S) \ {<<>>}) /\ rest \subseteq S /\ s \in S /\ size0 \in Nat
      /\ \A m \in 1 .. size0 : ts[m] \in Seq(S) /\ Len(ts[m]) \in Nat
  <2>1. ts \in Seq(Seq(S) \ {<<>>}) /\ rest \subseteq S
    BY DEF AreTracks
  <2>2. \A m \in 1 .. size0 : ts[m] \in Seq(S)
    BY <2>1, ElementOfSeq
  <2>3. QED
    BY <2>1, <2>2
<1>2. /\ old \in Nat /\ Len(new[n]) = old + 1 /\ new[n][old + 1] = s
      /\ n \in 1 .. size0 => \A i \in 1 .. Len(ts[n]) : i \in 1 .. old /\ new[n][i] = ts[n][i]
      /\ \A i \in 1 .. old : n \in 1 .. size0 /\ i \in 1 .. Len(ts[n]) /\ new[n][i] = ts[n][i]
  <2>1. CASE size = size0 /\ new[n] = Append(ts[n], s)
    <3>1. n \in 1 .. size0 /\ n # size0 + 1 /\ old = Len(ts[n])
      BY <1>1, <2>1
    <3>2. /\ Len(new[n]) = Len(ts[n]) + 1 /\ new[n][Len(ts[n]) + 1] = s
          /\ \A i \in 1 .. Len(ts[n]) : new[n][i] = ts[n][i]
      BY <1>1, <2>1, <3>1, Pushed
    <3> HIDE DEF old
    <3>3. QED
      BY <1>1, <3>1, <3>2
  <2>2. CASE size = size0 + 1 /\ n = size /\ new[n] = <<s>>
    <3>1. n = size0 + 1 /\ n \notin 1 .. size0 /\ old = 0
      BY <1>1, <2>2
    <3>2. Len(new[n]) = 1 /\ new[n][1] = s
      BY <2>2
    <3>3. QED
      BY <3>1, <3>2
  <2>3. QED
    BY <2>1, <2>2
<1> HIDE DEF old
<1>3. \A m \in 1 .. size : m # n => m \in 1 .. size0 /\ new[m] = ts[m]
  BY <1>1
<1>4. \A m \in 1 .. size0 : m \in 1 .. size
  BY <1>1
<1>5. \A i \in 1 .. Len(new[n]) : i = old + 1 \/ i \in 1 .. old
  BY <1>2
<1>6. /\ \A t \in S \ rest : \E m \in 1 .. size0 : \E i \in 1 .. Len(ts[m]) : ts[m][i] = t
      /\ \A l, m \in 1 .. size0 : \A i \in 1 .. Len(ts[l]) : \A j \in 1 .. Len(ts[m]) :
             ts[l][i] = ts[m][j] => l = m /\ i = j
      /\ \A m \in 1 .. size0 : \A i \in 1 .. Len(ts[m]) : ts[m][i] \notin rest
  BY DEF AreTracks
<1> HIDE DEF size0
\* Where an element of the new tracks comes from.
<1>7. ASSUME NEW m \in 1 .. size, NEW i \in 1 .. Len(new[m])
      PROVE  \/ m = n /\ i = old + 1 /\ new[m][i] = s
             \/ m \in 1 .. size0 /\ i \in 1 .. Len(ts[m]) /\ new[m][i] = ts[m][i]
  BY <1>2, <1>3, <1>5, <1>7
<1>8. ASSUME NEW t \in S \ (rest \ {s})
      PROVE  \E m \in 1 .. size : \E i \in 1 .. Len(new[m]) : new[m][i] = t
  <2>1. CASE t = s
    <3>1. old + 1 \in 1 .. Len(new[n])
      BY <1>2
    <3>2. QED
      BY <1>2, <2>1, <3>1
  <2>2. CASE t # s
    <3>1. PICK m \in 1 .. size0 : \E i \in 1 .. Len(ts[m]) : ts[m][i] = t
      BY <1>6, <1>8, <2>2
    <3>2. PICK i \in 1 .. Len(ts[m]) : ts[m][i] = t
      BY <3>1
    <3>3. m \in 1 .. size
      BY <1>4
    <3>4. CASE m # n
      BY <1>3, <3>2, <3>3, <3>4
    <3>5. CASE m = n
      <4>1. i \in 1 .. old /\ new[n][i] = t
        BY <1>2, <3>2, <3>5
      <4>2. i \in 1 .. Len(new[n])
        BY <1>2, <4>1
      <4>3. QED
        BY <4>1, <4>2
    <3>6. QED
      BY <3>4, <3>5
  <2>3. QED
    BY <2>1, <2>2
<1>9. ASSUME NEW l \in 1 .. size, NEW m \in 1 .. size,
             NEW i \in 1 .. Len(new[l]), NEW j \in 1 .. Len(new[m]), new[l][i] = new[m][j]
      PROVE  l = m /\ i = j
  <2>1. \A k \in 1 .. size0 : \A h \in 1 .. Len(ts[k]) : ts[k][h] # s
    <3>1. s \in rest
      OBVIOUS
    <3>2. \A k \in 1 .. size0 : \A h \in 1 .. Len(ts[k]) : ts[k][h] \notin rest
      BY <1>6
    <3>3. QED
      BY ONLY <3>1, <3>2
  <2>2. \/ l = n /\ i = old + 1 /\ new[l][i] = s
        \/ l \in 1 .. size0 /\ i \in 1 .. Len(ts[l]) /\ new[l][i] = ts[l][i]
    BY <1>7
  <2>3. \/ m = n /\ j = old + 1 /\ new[m][j] = s
        \/ m \in 1 .. size0 /\ j \in 1 .. Len(ts[m]) /\ new[m][j] = ts[m][j]
    BY <1>7
  <2>4. CASE l = n /\ i = old + 1 /\ new[l][i] = s
    <3>1. ~(m \in 1 .. size0 /\ j \in 1 .. Len(ts[m]) /\ new[m][j] = ts[m][j])
      BY ONLY <1>9, <2>1, <2>4
    <3>2. QED
      BY ONLY <2>3, <2>4, <3>1
  <2>5. CASE l \in 1 .. size0 /\ i \in 1 .. Len(ts[l]) /\ new[l][i] = ts[l][i]
    <3>1. m \in 1 .. size0 /\ j \in 1 .. Len(ts[m]) /\ new[m][j] = ts[m][j]
      BY ONLY <1>9, <2>1, <2>3, <2>5
    <3>2. ts[l][i] = ts[m][j]
      BY ONLY <1>9, <2>5, <3>1
    <3>3. \A x, y \in 1 .. size0 : \A a \in 1 .. Len(ts[x]) : \A b \in 1 .. Len(ts[y]) :
             ts[x][a] = ts[y][b] => x = y /\ a = b
      BY ONLY <1>6
    <3>4. \A a \in 1 .. Len(ts[l]) : \A b \in 1 .. Len(ts[m]) :
             ts[l][a] = ts[m][b] => l = m /\ a = b
      BY ONLY <2>5, <3>1, <3>3
    <3>5. QED
      BY ONLY <2>5, <3>1, <3>2, <3>4
  <2>6. QED
    BY ONLY <2>2, <2>4, <2>5
<1>10. ASSUME NEW m \in 1 .. size, NEW i \in 1 .. Len(new[m])
       PROVE  new[m][i] \notin rest \ {s}
  BY <1>6, <1>7
<1>11. new \in Seq(Seq(S) \ {<<>>}) /\ rest \ {s} \subseteq S /\ Len(new) = size
  BY <1>1
<1>12. QED
  BY ONLY <1>8, <1>9, <1>10, <1>11 DEF AreTracks

\* A segment that opens a track.
LEMMA TrackOpens ==
    ASSUME NEW S, NEW rest, NEW ts, AreTracks(ts, S, rest), NEW s \in rest
    PROVE  AreTracks(Append(ts, <<s>>), S, rest \ {s})
<1> DEFINE size == Len(ts) + 1
           new == Append(ts, <<s>>)
<1>1. ts \in Seq(Seq(S) \ {<<>>}) /\ <<s>> \in Seq(S) \ {<<>>} /\ Len(ts) \in Nat
  BY DEF AreTracks
<1>2. /\ new \in Seq(Seq(S) \ {<<>>}) /\ Len(new) = size /\ new[size] = <<s>>
      /\ \A m \in 1 .. Len(ts) : new[m] = ts[m]
  BY <1>1, Pushed
<1>3. size \in Nat /\ size \in 1 .. size /\ \A m \in 1 .. size : m # size => m \in 1 .. Len(ts)
  BY <1>1
<1>4. size = Len(ts) + 1
  OBVIOUS
<1> HIDE DEF size, new
<1>5. AreTracks(new, S, rest \ {s})
  BY <1>2, <1>3, <1>4, TracksGrow
<1>6. QED
  BY <1>5 DEF new

\* A segment that continues one.
LEMMA TrackGoesOn ==
    ASSUME NEW S, NEW rest, NEW ts, AreTracks(ts, S, rest), NEW s \in rest, NEW n \in DOMAIN ts
    PROVE  AreTracks([ts EXCEPT ![n] = Append(@, s)], S, rest \ {s})
<1> DEFINE size == Len(ts)
           new == [ts EXCEPT ![n] = Append(@, s)]
<1>1. /\ ts \in Seq(Seq(S) \ {<<>>}) /\ size \in Nat /\ n \in 1 .. size /\ s \in S
      /\ DOMAIN ts = 1 .. size
  BY DEF AreTracks
<1>2. ts[n] \in Seq(S)
  BY <1>1, ElementOfSeq
<1>3. Append(ts[n], s) \in Seq(S) \ {<<>>}
  <2>1. Append(ts[n], s) \in Seq(S) /\ Len(Append(ts[n], s)) = Len(ts[n]) + 1 /\ Len(ts[n]) \in Nat
    BY <1>1, <1>2, Pushed
  <2>2. Len(Append(ts[n], s)) # 0
    BY <2>1
  <2>3. QED
    BY <2>1, <2>2
<1>4. /\ new \in Seq(Seq(S) \ {<<>>}) /\ Len(new) = size /\ new[n] = Append(ts[n], s)
      /\ \A m \in 1 .. size : m # n => new[m] = ts[m]
  <2>1. ts \in [1 .. size -> Seq(S) \ {<<>>}]
    BY <1>1
  <2>2. /\ new \in [1 .. size -> Seq(S) \ {<<>>}] /\ new[n] = Append(ts[n], s)
        /\ \A m \in 1 .. size : m # n => new[m] = ts[m]
    BY <1>1, <1>3, <2>1
  <2> HIDE DEF new
  <2> DEFINE R == Seq(S) \ {<<>>}
  <2>r. new \in [1 .. size -> R]
    BY <2>2
  <2> HIDE DEF R
  <2>s. new \in Seq(R) /\ Len(new) = size
    BY <1>1, <2>r
  <2>3. new \in Seq(Seq(S) \ {<<>>}) /\ Len(new) = size
    BY <2>s DEF R
  <2>4. QED
    BY <2>2, <2>3
<1>5. size = Len(ts)
  OBVIOUS
<1> HIDE DEF new, size
<1>6. AreTracks(new, S, rest \ {s})
  BY <1>1, <1>4, <1>5, TracksGrow
<1>7. QED
  BY <1>6 DEF new

-----------------------------------------------------------------------------
(* The nearest track.                                                      *)

\* The ends of a segment are numbers, for it has hits.
LEMMA SegmentsHaveEnds ==
    ASSUME NEW x \in Segment
    PROVE  Start(x) \in Int /\ Stop(x) \in Int /\ RefStart(x) \in Int /\ RefStop(x) \in Int
<1>1. x.hits \in Seq(Hit) /\ x.hits # <<>>
  BY DEF Segment
<1>2. Len(x.hits) \in Nat \ {0} /\ Last(x.hits) = x.hits[Len(x.hits)]
  BY <1>1 DEF Last
<1>3. x.hits[1] \in Hit /\ x.hits[Len(x.hits)] \in Hit
  BY <1>1, <1>2, ElementOfSeq
<1>4. QED
  BY <1>2, <1>3 DEF Start, Stop, RefStart, RefStop, Hit

\* Of the tracks that a segment continues one is nearest.
LEMMA NearestFits ==
    ASSUME segments \in Seq(Segment), tracks \in Seq(Seq(DOMAIN segments) \ {<<>>}),
           NEW s \in DOMAIN segments, Fits(s) # {}
    PROVE  Nearest(s) \in Fits(s)
<1> DEFINE F == Fits(s)
           Jump(n) == OffsetJump(segments[Last(tracks[n])], segments[s])
<1>1. F \subseteq DOMAIN tracks /\ F \subseteq Nat
  <2>1. F \subseteq DOMAIN tracks
    BY ONLY DEF Fits
  <2>2. DOMAIN tracks \subseteq Nat
    <3>1. \A T : \A ts \in Seq(T) : DOMAIN ts \subseteq Nat
      OBVIOUS
    <3>2. QED
      BY ONLY <3>1, tracks \in Seq(Seq(DOMAIN segments) \ {<<>>})
  <2>3. QED
    BY ONLY <2>1, <2>2
<1>2. ASSUME NEW n \in F PROVE Jump(n) \in Nat
  <2>1. tracks[n] \in Seq(DOMAIN segments) \ {<<>>}
    BY <1>1, ElementOfSeq
  <2>2. Len(tracks[n]) \in 1 .. Len(tracks[n]) /\ Last(tracks[n]) = tracks[n][Len(tracks[n])]
    BY <2>1 DEF Last
  <2>3. Last(tracks[n]) \in DOMAIN segments
    BY <2>1, <2>2, ElementOfSeq
  <2>4. segments[Last(tracks[n])] \in Segment /\ segments[s] \in Segment
    BY <2>3, ElementOfSeq
  <2> DEFINE a == segments[Last(tracks[n])]
             b == segments[s]
  <2>5. /\ RefStart(b) \in Int /\ Start(b) \in Int /\ RefStop(a) \in Int /\ Stop(a) \in Int
    BY <2>4, SegmentsHaveEnds
  <2> HIDE DEF a, b
  <2>6. OffsetJump(a, b) \in Nat
    <3>1. \A x, y \in Int : Magnitude(x - y) \in Nat
      BY ONLY DEF Magnitude
    <3>2. RefStart(b) - Start(b) \in Int /\ RefStop(a) - Stop(a) \in Int
      BY ONLY <2>5
    <3>3. QED
      BY ONLY <3>1, <3>2 DEF OffsetJump
  <2>7. QED
    BY <2>6 DEF a, b
<1> DEFINE jumps == [n \in F |-> Jump(n)]
<1>3. \A n \in F : jumps[n] = Jump(n) /\ jumps[n] \in Nat
  BY <1>2
<1>4. F # {}
  OBVIOUS
<1>5. Nearest(s) = CHOOSE n \in F : \A m \in F \ {n} :
                       jumps[n] < jumps[m] \/ (jumps[n] = jumps[m] /\ n < m)
  BY DEF Nearest
<1> HIDE DEF F, jumps, Jump
<1>6. PICK k \in F : \A m \in F : jumps[k] <= jumps[m]
  <2> DEFINE T == { jumps[n] : n \in F }
  <2>1. T \in SUBSET Nat /\ T # {}
    BY <1>3, <1>4
  <2>2. PICK x \in T : \A y \in T : x <= y
    BY <2>1, LeastElement
  <2>3. QED
    BY <2>2
<1>7. PICK n \in F : jumps[n] = jumps[k] /\ \A m \in F : jumps[m] = jumps[k] => n <= m
  <2> DEFINE T == { m \in F : jumps[m] = jumps[k] }
  <2>1. T \in SUBSET Nat /\ T # {}
    BY <1>1, <1>6
  <2>2. PICK x \in T : \A y \in T : x <= y
    BY <2>1, LeastElement
  <2>3. QED
    BY <2>2
<1>8. \A m \in F \ {n} : jumps[n] < jumps[m] \/ (jumps[n] = jumps[m] /\ n < m)
  <2> TAKE m \in F \ {n}
  <2>1. jumps[n] \in Nat /\ jumps[m] \in Nat /\ n \in Nat /\ m \in Nat /\ jumps[n] <= jumps[m]
    BY <1>1, <1>3, <1>6, <1>7
  <2>2. jumps[m] = jumps[n] => n <= m
    BY <1>7
  <2>3. QED
    BY <2>1, <2>2
<1>9. QED
  BY <1>5, <1>8 DEF F

-----------------------------------------------------------------------------
(* The passages of a pair.                                                 *)

\* The ids of passages are ordered: they are digests of the support, which are
\* compared as numbers.
DigestsAreNumbers == \A support : Digest(support) \in Int

\* passage_order tells passages apart but for their ids.
LEMMA BeforeIsOrder ==
    ASSUME DigestsAreNumbers, NEW T, \A p \in T : p.start \in Int /\ p.ref_start \in Int
    PROVE  /\ \A p \in T : ~Before(p, p)
           /\ \A p, r, x \in T : Before(p, r) /\ Before(r, x) => Before(p, x)
           /\ \A p, r, x \in T : Before(p, x) => Before(p, r) \/ Before(r, x)
<1>1. \A p \in T : Digest(p.support) \in Int
  BY DEF DigestsAreNumbers
<1>2. ASSUME NEW p \in T PROVE ~Before(p, p)
  BY <1>1 DEF Before
<1>3. ASSUME NEW p \in T, NEW r \in T, NEW x \in T, Before(p, r), Before(r, x) PROVE Before(p, x)
  BY <1>1, <1>3 DEF Before
<1>4. ASSUME NEW p \in T, NEW r \in T, NEW x \in T, Before(p, x) PROVE Before(p, r) \/ Before(r, x)
  BY <1>1, <1>4 DEF Before
<1>5. QED
  BY <1>2, <1>3, <1>4

\* Where a segment is found in passages.
PlacesOf(built, s) ==
    { p \in (DOMAIN built) \X (DOMAIN segments) :
          p[2] \in DOMAIN built[p[1]].segments /\ built[p[1]].segments[p[2]] = s }

\* A passage that is right about its hits.
IsTrue(p) == IsNumbered(p) /\ CountsItsHits(p) /\ HasNoHoles(p)

\* The passages that Build makes of tracks are right about their hits, and each
\* segment is in one of them.
LEMMA BuiltPassages ==
    ASSUME DigestsAreNumbers, segments \in Seq(Segment), AreTracks(tracks, DOMAIN segments, {}),
           NEW built, built = StableSort([n \in DOMAIN tracks |-> PassageOf(tracks[n])], Before)
    PROVE  /\ Len(built) = Len(tracks) /\ Len(tracks) \in Nat
           /\ DOMAIN built = 1 .. Len(tracks) /\ DOMAIN tracks = 1 .. Len(tracks)
           /\ \A n \in DOMAIN built : IsTrue(built[n])
           /\ \A s \in DOMAIN segments : Cardinality(PlacesOf(built, s)) = 1
<1> DEFINE n == Len(tracks)
           made == [k \in DOMAIN tracks |-> PassageOf(tracks[k])]
           T == { PassageOf(tracks[k]) : k \in 1 .. n }
           before == { p \in (1 .. n) \X (1 .. n) : Before(made[p[1]], made[p[2]]) }
<1>1. /\ tracks \in Seq(Seq(DOMAIN segments) \ {<<>>}) /\ n \in Nat /\ DOMAIN tracks = 1 .. n
      /\ \A s \in DOMAIN segments : \E k \in 1 .. n : \E i \in 1 .. Len(tracks[k]) : tracks[k][i] = s
      /\ \A l, k \in 1 .. n : \A i \in 1 .. Len(tracks[l]) : \A j \in 1 .. Len(tracks[k]) :
             tracks[l][i] = tracks[k][j] => l = k /\ i = j
  <2> DEFINE S == DOMAIN segments
  <2>0. AreTracks(tracks, S, {})
    OBVIOUS
  <2> HIDE DEF S
  <2>1. tracks \in Seq(Seq(S) \ {<<>>})
    BY <2>0 DEF AreTracks
  <2>2. n \in Nat /\ DOMAIN tracks = 1 .. n
    BY <2>1
  <2>3. \A s \in S : \E k \in 1 .. n : \E i \in 1 .. Len(tracks[k]) : tracks[k][i] = s
    BY <2>0 DEF AreTracks
  <2>4. \A l, k \in 1 .. n : \A i \in 1 .. Len(tracks[l]) : \A j \in 1 .. Len(tracks[k]) :
             tracks[l][i] = tracks[k][j] => l = k /\ i = j
    BY <2>0 DEF AreTracks
  <2>5. QED
    BY <2>1, <2>2, <2>3, <2>4 DEF S
<1>2. \A k \in 1 .. n : tracks[k] \in Seq(DOMAIN segments) /\ tracks[k] # <<>>
  <2> TAKE k \in 1 .. n
  <2>1. tracks[k] \in Seq(DOMAIN segments) \ {<<>>}
    BY <1>1, ElementOfSeq
  <2>2. QED
    BY <2>1
<1>3. \A k \in 1 .. n :
          IsTrue(PassageOf(tracks[k])) /\ PassageOf(tracks[k]).segments = tracks[k]
  BY <1>2, PassageOfTrack DEF IsTrue
<1>4. /\ made \in Seq(T) /\ Len(made) = n
      /\ \A k \in 1 .. n : made[k] = PassageOf(tracks[k]) /\ made[k] \in T
  <2>1. made \in [1 .. n -> T]
    BY <1>1
  <2>2. \A k \in 1 .. n : made[k] = PassageOf(tracks[k]) /\ made[k] \in T
    BY <1>1
  <2> HIDE DEF made, T, n
  <2>3. made \in Seq(T) /\ Len(made) = n
    BY <1>1, <2>1
  <2>4. QED
    BY <2>2, <2>3
<1>5. \A p \in T : p.start \in Int /\ p.ref_start \in Int
  BY <1>3 DEF IsTrue, IsNumbered, IsPassage
<1>6. \A k, l \in 1 .. n : <<k, l>> \in before <=> Before(made[k], made[l])
  OBVIOUS
<1>7. built = ByRank(made, Ranks(n, before))
  <2>1. built = ByRank(made, Ranks(Len(made),
            { p \in (1 .. Len(made)) \X (1 .. Len(made)) : Before(made[p[1]], made[p[2]]) }))
    BY DEF StableSort
  <2>2. Len(made) = n
    BY <1>4
  <2> HIDE DEF made, n
  <2>3. QED
    BY <2>1, <2>2
<1> HIDE DEF made, T, before, n
<1>8. IsOrder(n, before)
  <2>1. /\ \A p \in T : ~Before(p, p)
        /\ \A p, r, x \in T : Before(p, r) /\ Before(r, x) => Before(p, x)
        /\ \A p, r, x \in T : Before(p, x) => Before(p, r) \/ Before(r, x)
    BY <1>5, BeforeIsOrder
  <2>2. \A i \in 1 .. n : <<i, i>> \notin before
    BY <1>4, <1>6, <2>1
  <2>3. \A i, j, k \in 1 .. n : <<i, j>> \in before /\ <<j, k>> \in before => <<i, k>> \in before
    BY <1>4, <1>6, <2>1
  <2>4. \A i, j, k \in 1 .. n : <<i, k>> \in before => <<i, j>> \in before \/ <<j, k>> \in before
    BY <1>4, <1>6, <2>1
  <2>5. QED
    BY <2>2, <2>3, <2>4 DEF IsOrder
<1>9. /\ built \in Seq(T) /\ Len(built) = n
      /\ \E place : IsSorting(place, n, before) /\ \A k \in 1 .. n : built[k] = made[place[k]]
  <2>1. IsOrder(Len(made), before)
    BY <1>4, <1>8
  <2>2. /\ built \in Seq(T) /\ Len(built) = Len(made)
        /\ \E place : /\ IsSorting(place, Len(made), before)
                      /\ \A k \in 1 .. Len(made) : built[k] = made[place[k]]
    <3>1. built = ByRank(made, Ranks(Len(made), before))
      BY <1>4, <1>7
    <3>2. made \in Seq(T)
      BY <1>4
    <3> DEFINE sorted == ByRank(made, Ranks(Len(made), before))
    <3>3. /\ sorted \in Seq(T) /\ Len(sorted) = Len(made)
          /\ \E place : /\ IsSorting(place, Len(made), before)
                        /\ \A k \in 1 .. Len(made) : sorted[k] = made[place[k]]
      BY <2>1, <3>2, SortingIsPermutation
    <3> HIDE DEF sorted
    <3>4. QED
      BY <3>1, <3>3 DEF sorted
  <2>3. QED
    BY <1>4, <2>2, Zenon
<1>10. PICK place : IsSorting(place, n, before) /\ \A k \in 1 .. n : built[k] = made[place[k]]
  BY <1>9
<1>11. /\ \A k \in 1 .. n : place[k] \in 1 .. n
       /\ \A k, l \in 1 .. n : place[k] = place[l] => k = l
       /\ \A i \in 1 .. n : \E k \in 1 .. n : place[k] = i
  BY <1>10 DEF IsSorting
<1>12. DOMAIN built = 1 .. n
  BY <1>9
<1>13. \A k \in 1 .. n : IsTrue(built[k]) /\ built[k].segments = tracks[place[k]]
  <2> TAKE k \in 1 .. n
  <2>1. place[k] \in 1 .. n /\ built[k] = made[place[k]]
    BY <1>10, <1>11
  <2>2. built[k] = PassageOf(tracks[place[k]])
    BY <1>4, <2>1
  <2>3. QED
    BY <1>3, <2>1, <2>2
<1>14. ASSUME NEW s \in DOMAIN segments PROVE Cardinality(PlacesOf(built, s)) = 1
  <2>1. PICK k \in 1 .. n : \E i \in 1 .. Len(tracks[k]) : tracks[k][i] = s
    BY <1>1
  <2>2. PICK i \in 1 .. Len(tracks[k]) : tracks[k][i] = s
    BY <2>1
  <2>3. PICK l \in 1 .. n : place[l] = k
    BY <1>11
  <2>4. i \in DOMAIN segments
    <3> DEFINE m == Len(segments)
    <3>1. m \in Nat /\ DOMAIN segments = 1 .. m /\ tracks[k] \in Seq(1 .. m)
      BY <1>2
    <3>2. HasNoRepeats(tracks[k])
      BY <1>1 DEF HasNoRepeats
    <3> HIDE DEF m
    <3>3. Len(tracks[k]) <= m /\ Len(tracks[k]) \in Nat
      BY <3>1, <3>2, DistinctIsShort
    <3>4. QED
      BY <3>1, <3>3
  <2>5. /\ DOMAIN tracks[k] = 1 .. Len(tracks[k])
        /\ \A h \in 1 .. n : DOMAIN tracks[h] = 1 .. Len(tracks[h])
    BY <1>2
  <2>6. <<l, i>> \in PlacesOf(built, s)
    BY <1>12, <1>13, <2>2, <2>3, <2>4, <2>5 DEF PlacesOf
  <2>7. ASSUME NEW p \in PlacesOf(built, s) PROVE p = <<l, i>>
    <3> DEFINE h == p[1]
               j == p[2]
    <3>1. /\ p = <<h, j>> /\ h \in 1 .. n /\ j \in DOMAIN built[h].segments
          /\ built[h].segments[j] = s
      BY <1>12 DEF PlacesOf
    <3> HIDE DEF h, j
    <3>2. j \in 1 .. Len(tracks[place[h]]) /\ tracks[place[h]][j] = s /\ place[h] \in 1 .. n
      <4>1. place[h] \in 1 .. n /\ built[h].segments = tracks[place[h]]
        BY <1>11, <1>13, <3>1
      <4>2. DOMAIN tracks[place[h]] = 1 .. Len(tracks[place[h]])
        BY <2>5, <4>1
      <4>3. QED
        BY <3>1, <4>1, <4>2
    <3>3. place[h] = k /\ j = i
      <4>1. tracks[place[h]][j] = tracks[k][i]
        BY <2>2, <3>2
      <4>2. n = Len(tracks) /\ k \in 1 .. n /\ i \in 1 .. Len(tracks[k])
        BY DEF n
      <4>3. PICK S, rest : AreTracks(tracks, S, rest)
        BY <1>1
      <4>4. QED
        <5>1. \A x, y \in 1 .. Len(tracks) : \A a \in 1 .. Len(tracks[x]) : \A b \in 1 .. Len(tracks[y]) :
                 tracks[x][a] = tracks[y][b] => x = y /\ a = b
          BY ONLY <4>3 DEF AreTracks
        <5>2. place[h] \in 1 .. Len(tracks) /\ k \in 1 .. Len(tracks)
          BY ONLY <3>2, <4>2
        <5>3. \A a \in 1 .. Len(tracks[place[h]]) : \A b \in 1 .. Len(tracks[k]) :
                 tracks[place[h]][a] = tracks[k][b] => place[h] = k /\ a = b
          BY ONLY <5>1, <5>2
        <5>4. QED
          BY ONLY <3>2, <4>1, <4>2, <5>3
    <3>4. QED
      BY <1>11, <2>3, <3>1, <3>3
  <2>8. PlacesOf(built, s) = {<<l, i>>}
    BY <2>6, <2>7
  <2>9. QED
    BY <2>8, FS_Singleton
<1>15. QED
  BY <1>1, <1>9, <1>12, <1>13, <1>14 DEF n

-----------------------------------------------------------------------------
(* The invariant of the requests.                                          *)

ControlIsTyped ==
    /\ world \in Worlds /\ script \in Seq(RequestsOf(world))
    /\ pc \in {"idle", "next", "stitch", "partition"}
    /\ pc # "idle" => script # <<>>
    /\ todo \subseteq DOMAIN world.refs
    /\ ref \in DOMAIN world.refs \cup {None}
    /\ pc \in {"stitch", "partition"} => ref # None

TracksAreWhole ==
    /\ ref = None => tracks = <<>> /\ waiting = {}
    /\ ref # None => AreTracks(tracks, DOMAIN segments, waiting)

NothingIsBuilt ==
    pc = "stitch" => passages = <<>> /\ pending = {} /\ primaries = <<>> /\ alternates = <<>>

PassageInv ==
    /\ DigestsAreNumbers
    /\ ControlIsTyped
    /\ TracksAreWhole
    /\ NothingIsBuilt
    /\ IInv
    /\ HitsCountOnce
    /\ SupportHasNoHoles

\* The references of a world are known, and so are their segments.
LEMMA WorldFacts ==
    ASSUME ControlIsTyped
    PROVE  /\ None \notin DOMAIN world.refs
           /\ \A r \in DOMAIN world.refs : world.refs[r].segments \in Seq(Segment)
           /\ ref # None => segments \in Seq(Segment)
BY WorldsAssumption DEF ControlIsTyped, segments

\* No passages are in order.
LEMMA EmptyPartition ==
    ASSUME passages' = <<>>, pending' = {}, primaries' = <<>>, alternates' = <<>>
    PROVE  IInv'
<1>1. /\ primaries' \in Seq(DOMAIN passages') /\ DOMAIN primaries' = {} /\ DOMAIN alternates' = {}
      /\ ToSet(primaries') = {} /\ DOMAIN passages' = {} /\ Len(passages') = 0
  BY DEF ToSet
<1>2. PassagesAreTyped'
  BY <1>1 DEF PassagesAreTyped
<1>3. StrongestFirst' /\ PrimariesAreUndominated'
  BY <1>1 DEF StrongestFirst, PrimariesAreUndominated
<1>4. AlternatesAreOwned'
  BY <1>1 DEF AlternatesAreOwned
<1>5. QED
  BY <1>2, <1>3, <1>4 DEF IInv

\* Nothing has been asked.
LEMMA PassageInit ==
    ASSUME DigestsAreNumbers, Init PROVE PassageInv
<1>1. /\ world \in Worlds /\ script \in Scripts /\ pc = "idle" /\ todo = {} /\ ref = None
      /\ waiting = {} /\ tracks = <<>> /\ passages = <<>>
      /\ pending = {} /\ primaries = <<>> /\ alternates = <<>>
  BY DEF Init
<1>2. ControlIsTyped
  <2>1. script \in Seq(RequestsOf(world))
    BY <1>1, ScriptsAssumption
  <2>2. QED
    BY <1>1, <2>1 DEF ControlIsTyped
<1>3. TracksAreWhole /\ NothingIsBuilt /\ HitsCountOnce /\ SupportHasNoHoles
  BY <1>1 DEF TracksAreWhole, NothingIsBuilt, HitsCountOnce, SupportHasNoHoles
<1>4. IInv
  <2>1. DOMAIN passages = {} /\ Len(passages) = 0 /\ 1 .. 0 = {}
    BY <1>1
  <2>2. PartitionInit
    BY <1>1, <2>1 DEF PartitionInit
  <2>3. QED
    BY <2>2, InitIInv
<1>5. QED
  BY <1>2, <1>3, <1>4 DEF PassageInv


\* What is said of tracks and of the partition depends on the pair only.
LEMMA PairStays ==
    ASSUME TracksAreWhole, IInv, UNCHANGED <<world, ref, pair>>
    PROVE  TracksAreWhole' /\ IInv'
<1>1. /\ world' = world /\ ref' = ref /\ waiting' = waiting /\ tracks' = tracks
      /\ passages' = passages /\ pending' = pending
      /\ primaries' = primaries /\ alternates' = alternates
  BY DEF pair, partition_vars
<1>2. TracksAreWhole'
  <2>1. segments' = segments
    BY ONLY <1>1 DEF segments
  <2>2. TracksAreWhole
    OBVIOUS
  <2>3. QED
    BY ONLY <1>1, <2>1, <2>2 DEF TracksAreWhole, AreTracks
<1>3. PassagesAreTyped' /\ StrongestFirst'
  BY <1>1 DEF IInv, PassagesAreTyped, StrongestFirst, Hits
<1>4. PrimariesAreUndominated'
  BY <1>1 DEF IInv, PrimariesAreUndominated, Dominates, Overlap
<1>5. AlternatesAreOwned'
  BY <1>1 DEF IInv, AlternatesAreOwned, Dominates, Overlap
<1>6. QED
  BY <1>2, <1>3, <1>4, <1>5 DEF IInv

\* And what is said of the passages on them only.
LEMMA ReportStays ==
    ASSUME pc = "partition", HitsCountOnce, SupportHasNoHoles,
           UNCHANGED <<world, ref, passages>>
    PROVE  HitsCountOnce' /\ SupportHasNoHoles'
<1>1. world' = world /\ ref' = ref /\ passages' = passages /\ segments' = segments
  BY DEF segments
<1>2. \A n \in DOMAIN passages : CountsItsHits(passages[n])' /\ HasNoHoles(passages[n])'
  <2> TAKE n \in DOMAIN passages
  <2>1. CountsItsHits(passages[n]) /\ HasNoHoles(passages[n])
    BY DEF HitsCountOnce, SupportHasNoHoles
  <2>2. CountsItsHits(passages[n])'
    BY <1>1, <2>1 DEF CountsItsHits, HitsOfSegments, segments
  <2>3. HasNoHoles(passages[n])'
    BY <1>1, <2>1 DEF HasNoHoles, HitsOfSegments, segments
  <2>4. QED
    BY <2>2, <2>3
<1>3. HitsCountOnce'
  BY <1>1, <1>2 DEF HitsCountOnce
<1>4. SupportHasNoHoles'
  BY <1>1, <1>2 DEF SupportHasNoHoles
<1>5. QED
  BY <1>3, <1>4

\* What is reported of a pair is said only while it is divided.
LEMMA NothingReported ==
    ASSUME pc' # "partition" PROVE HitsCountOnce' /\ SupportHasNoHoles'
BY DEF HitsCountOnce, SupportHasNoHoles

-----------------------------------------------------------------------------
(* The steps.                                                              *)

\* A request names references of the world.
LEMMA AskKeeps ==
    ASSUME PassageInv, Ask PROVE PassageInv'
<1>1. /\ pc = "idle" /\ script # <<>> /\ pc' = "next" /\ UNCHANGED <<world, ref, pair>>
      /\ world' = world /\ script' = script /\ ref' = ref /\ DigestsAreNumbers
      /\ ControlIsTyped /\ TracksAreWhole /\ IInv
  BY DEF Ask, PassageInv
<1>2. request \in RequestsOf(world)
  <2>1. script \in Seq(RequestsOf(world))
    BY <1>1 DEF ControlIsTyped
  <2>2. Head(script) \in RequestsOf(world)
    BY <1>1, <2>1
  <2>3. QED
    BY <2>2 DEF request
<1>3. todo' \subseteq DOMAIN world.refs
  <2>1. request.targets \subseteq DOMAIN world.refs
    BY <1>2 DEF RequestsOf
  <2>2. QED
    BY <2>1 DEF Ask
<1>4. ControlIsTyped'
  BY <1>1, <1>3 DEF ControlIsTyped
<1>5. TracksAreWhole' /\ IInv'
  BY <1>1, PairStays
<1>6. HitsCountOnce' /\ SupportHasNoHoles'
  BY <1>1, NothingReported
<1>7. QED
  BY <1>1, <1>4, <1>5, <1>6 DEF PassageInv, NothingIsBuilt

\* A reference is opened with all its segments waiting.
LEMMA OpenKeeps ==
    ASSUME PassageInv, NEW r \in todo, Open(r) PROVE PassageInv'
<1>1. /\ pc = "next" /\ pc' = "stitch" /\ ref' = r /\ todo' = todo \ {r}
      /\ world' = world /\ script' = script /\ waiting' = DOMAIN world.refs[r].segments
      /\ tracks' = <<>> /\ passages' = <<>> /\ pending' = {} /\ primaries' = <<>>
      /\ alternates' = <<>> /\ DigestsAreNumbers /\ ControlIsTyped
  BY DEF Open, PassageInv
<1>2. r \in DOMAIN world.refs /\ r # None
  BY <1>1, WorldFacts DEF ControlIsTyped
<1>3. ControlIsTyped'
  BY <1>1, <1>2 DEF ControlIsTyped
<1>4. TracksAreWhole'
  <2>1. segments' = world.refs[r].segments
    BY <1>1 DEF segments
  <2>2. AreTracks(<<>>, DOMAIN segments', DOMAIN segments')
    BY DEF AreTracks
  <2>3. AreTracks(tracks', DOMAIN segments', waiting')
    BY <1>1, <2>1, <2>2
  <2>4. QED
    BY <1>1, <1>2, <2>3 DEF TracksAreWhole
<1>5. IInv'
  BY <1>1, EmptyPartition
<1>6. HitsCountOnce' /\ SupportHasNoHoles'
  BY <1>1, NothingReported
<1>7. QED
  BY <1>1, <1>3, <1>4, <1>5, <1>6 DEF PassageInv, NothingIsBuilt

\* A segment is placed on one track.
LEMMA PlaceKeeps ==
    ASSUME PassageInv, NEW s \in waiting, Place(s) PROVE PassageInv'
<1>1. /\ pc = "stitch" /\ waiting' = waiting \ {s}
      /\ pc' = pc /\ ref' = ref /\ world' = world /\ script' = script /\ todo' = todo
      /\ partition_vars' = partition_vars
      /\ tracks' = IF Fits(s) = {} THEN Append(tracks, <<s>>) ELSE Placed(s)
      /\ DigestsAreNumbers /\ ControlIsTyped /\ TracksAreWhole /\ NothingIsBuilt
  BY DEF Place, PassageInv
<1>2. /\ passages' = <<>> /\ pending' = {} /\ primaries' = <<>> /\ alternates' = <<>>
  BY <1>1 DEF NothingIsBuilt, partition_vars
<1>3. ref # None /\ segments' = segments /\ AreTracks(tracks, DOMAIN segments, waiting)
  BY <1>1 DEF ControlIsTyped, TracksAreWhole, segments
<1>4. AreTracks(tracks', DOMAIN segments, waiting \ {s})
  <2>1. CASE Fits(s) = {}
    BY <1>1, <1>3, <2>1, TrackOpens
  <2>2. CASE Fits(s) # {}
    <3>1. segments \in Seq(Segment) /\ s \in DOMAIN segments
          /\ tracks \in Seq(Seq(DOMAIN segments) \ {<<>>})
      BY <1>1, <1>3, WorldFacts DEF AreTracks
    <3>2. Nearest(s) \in DOMAIN tracks
      BY <2>2, <3>1, NearestFits DEF Fits
    <3>3. tracks' = [tracks EXCEPT ![Nearest(s)] = Append(@, s)]
      BY <1>1, <2>2 DEF Placed
    <3>4. QED
      BY <1>3, <3>2, <3>3, TrackGoesOn
  <2>3. QED
    BY <2>1, <2>2
<1>5. TracksAreWhole'
  <2>1. AreTracks(tracks', DOMAIN segments', waiting')
    BY <1>1, <1>3, <1>4
  <2>2. QED
    BY <1>1, <1>3, <2>1 DEF TracksAreWhole
<1>6. ControlIsTyped'
  BY <1>1 DEF ControlIsTyped
<1>7. IInv'
  BY <1>2, EmptyPartition
<1>8. HitsCountOnce' /\ SupportHasNoHoles'
  BY <1>1, NothingReported
<1>9. QED
  BY <1>1, <1>2, <1>5, <1>6, <1>7, <1>8 DEF PassageInv, NothingIsBuilt

\* The passages that are built are right, and the partition begins.
LEMMA BuildKeeps ==
    ASSUME PassageInv, Build PROVE PassageInv'
<1> DEFINE built == StableSort([n \in DOMAIN tracks |-> PassageOf(tracks[n])], Before)
<1>1. /\ pc = "stitch" /\ waiting = {} /\ pc' = "partition"
      /\ pending' = DOMAIN tracks
      /\ world' = world /\ script' = script /\ todo' = todo /\ ref' = ref
      /\ waiting' = waiting /\ tracks' = tracks
      /\ primaries' = primaries /\ alternates' = alternates
      /\ DigestsAreNumbers /\ ControlIsTyped /\ TracksAreWhole /\ NothingIsBuilt
  BY DEF Build, Candidates, PassageInv
<1>2. passages' = built
  BY DEF Build
<1>3. /\ ref # None /\ segments' = segments /\ segments \in Seq(Segment)
      /\ AreTracks(tracks, DOMAIN segments, {})
  BY <1>1, WorldFacts DEF ControlIsTyped, TracksAreWhole, segments
<1>4. /\ Len(built) = Len(tracks) /\ Len(tracks) \in Nat
      /\ DOMAIN built = 1 .. Len(tracks) /\ DOMAIN tracks = 1 .. Len(tracks)
      /\ \A n \in DOMAIN built : IsTrue(built[n])
      /\ \A s \in DOMAIN segments : Cardinality(PlacesOf(built, s)) = 1
  BY <1>1, <1>3, BuiltPassages
<1> HIDE DEF built
<1>5. primaries' = <<>> /\ alternates' = <<>>
  BY <1>1 DEF NothingIsBuilt
<1>6. IInv'
  <2>1. PartitionInit'
    BY <1>1, <1>2, <1>4, <1>5 DEF PartitionInit, IsTrue, IsNumbered
  <2>2. QED
    BY <2>1, InitIInv, PTL
<1>p. PICK b : b = passages'
  OBVIOUS
<1>t. /\ \A n \in DOMAIN b : IsTrue(b[n])
      /\ \A s \in DOMAIN segments : Cardinality(PlacesOf(b, s)) = 1
  BY <1>2, <1>4, <1>p
<1>s. world' = world /\ ref' = ref
  BY <1>1
<1>7. HitsCountOnce'
  <2>1. ASSUME NEW n \in DOMAIN b PROVE CountsItsHits(passages[n])'
    <3>1. CountsItsHits(b[n])
      BY <1>t DEF IsTrue
    <3>2. passages'[n] = b[n]
      BY <1>p
    <3>3. HitsOfSegments(ToSet(passages[n].segments))' = HitsOfSegments(ToSet(b[n].segments))
      BY <3>2, <1>s DEF HitsOfSegments, segments
    <3>4. QED
      BY <3>1, <3>2, <3>3 DEF CountsItsHits
  <2>2. \A s \in DOMAIN segments' : Cardinality({ p \in (DOMAIN b) \X (DOMAIN segments') :
            p[2] \in DOMAIN b[p[1]].segments /\ b[p[1]].segments[p[2]] = s }) = 1
    BY <1>3, <1>t DEF PlacesOf
  <2>3. QED
    BY <1>p, <2>1, <2>2 DEF HitsCountOnce
<1>8. SupportHasNoHoles'
  <2>1. ASSUME NEW n \in DOMAIN b PROVE HasNoHoles(passages[n])'
    <3>1. HasNoHoles(b[n])
      BY <1>t DEF IsTrue
    <3>2. QED
      BY <1>p, <1>s, <3>1 DEF HasNoHoles, HitsOfSegments, segments
  <2>2. QED
    BY <1>p, <2>1 DEF SupportHasNoHoles
<1>9. ControlIsTyped'
  BY <1>1, <1>3 DEF ControlIsTyped
<1>10. TracksAreWhole'
  BY <1>1, <1>3 DEF TracksAreWhole
<1>11. QED
  BY <1>1, <1>6, <1>7, <1>8, <1>9, <1>10 DEF PassageInv, NothingIsBuilt

\* A passage is divided, and none changes.
LEMMA PartitionKeeps ==
    ASSUME PassageInv, PartitionPassages PROVE PassageInv'
<1>1. /\ pc = "partition" /\ pc' = pc /\ world' = world /\ script' = script /\ todo' = todo
      /\ ref' = ref /\ waiting' = waiting /\ tracks' = tracks
      /\ DigestsAreNumbers /\ ControlIsTyped /\ TracksAreWhole /\ IInv
      /\ HitsCountOnce /\ SupportHasNoHoles
  BY DEF PartitionPassages, PassageInv
<1>2. PICK n \in pending : Divide(n)
  BY DEF PartitionPassages
<1>3. IInv'
  BY <1>1, <1>2, DivideKeepsIInv
<1>4. passages' = passages
  BY <1>2 DEF Divide
<1>5. HitsCountOnce' /\ SupportHasNoHoles'
  BY <1>1, <1>4, ReportStays
<1>6. ControlIsTyped'
  BY <1>1 DEF ControlIsTyped
<1>7. TracksAreWhole'
  BY <1>1 DEF TracksAreWhole, AreTracks, segments
<1>8. QED
  BY <1>1, <1>3, <1>5, <1>6, <1>7 DEF PassageInv, NothingIsBuilt

\* A match is recorded.
LEMMA CloseKeeps ==
    ASSUME PassageInv, Close PROVE PassageInv'
<1>1. /\ pc = "partition" /\ pc' = "next" /\ world' = world /\ script' = script /\ todo' = todo
      /\ ref' = ref /\ UNCHANGED <<world, ref, pair>>
      /\ DigestsAreNumbers /\ ControlIsTyped /\ TracksAreWhole /\ IInv
  BY DEF Close, PassageInv
<1>2. ControlIsTyped'
  BY <1>1 DEF ControlIsTyped
<1>3. TracksAreWhole' /\ IInv'
  BY <1>1, PairStays
<1>4. HitsCountOnce' /\ SupportHasNoHoles'
  BY <1>1, NothingReported
<1>5. QED
  BY <1>1, <1>2, <1>3, <1>4 DEF PassageInv, NothingIsBuilt

\* A request is answered.
LEMMA AnswerKeeps ==
    ASSUME PassageInv, Answer PROVE PassageInv'
<1>1. /\ pc = "next" /\ pc' = "idle" /\ world' = world /\ script' = Tail(script) /\ todo' = todo
      /\ ref' = ref /\ UNCHANGED <<world, ref, pair>>
      /\ DigestsAreNumbers /\ ControlIsTyped /\ TracksAreWhole /\ IInv
  BY DEF Answer, PassageInv
<1>2. ControlIsTyped'
  <2>1. script \in Seq(RequestsOf(world)) /\ script # <<>>
    BY <1>1 DEF ControlIsTyped
  <2>2. Tail(script) \in Seq(RequestsOf(world))
    BY <2>1
  <2>3. QED
    BY <1>1, <2>2 DEF ControlIsTyped
<1>3. TracksAreWhole' /\ IInv'
  BY <1>1, PairStays
<1>4. HitsCountOnce' /\ SupportHasNoHoles'
  BY <1>1, NothingReported
<1>5. QED
  BY <1>1, <1>2, <1>3, <1>4 DEF PassageInv, NothingIsBuilt

\* Nothing changes.
LEMMA PassagesStay ==
    ASSUME PassageInv, UNCHANGED vars PROVE PassageInv'
<1>1. /\ world' = world /\ script' = script /\ pc' = pc /\ todo' = todo /\ ref' = ref
      /\ UNCHANGED <<world, ref, pair>> /\ passages' = passages
      /\ DigestsAreNumbers /\ ControlIsTyped /\ TracksAreWhole /\ NothingIsBuilt /\ IInv
      /\ HitsCountOnce /\ SupportHasNoHoles
      /\ pending' = pending /\ primaries' = primaries /\ alternates' = alternates
  BY DEF vars, pair, partition_vars, PassageInv
<1>2. ControlIsTyped' /\ NothingIsBuilt'
  BY <1>1 DEF ControlIsTyped, NothingIsBuilt
<1>3. TracksAreWhole' /\ IInv'
  BY <1>1, PairStays
<1>4. HitsCountOnce' /\ SupportHasNoHoles'
  <2>1. CASE pc = "partition"
    BY <1>1, <2>1, ReportStays
  <2>2. CASE pc # "partition"
    BY <1>1, <2>2, NothingReported
  <2>3. QED
    BY <2>1, <2>2
<1>5. QED
  BY <1>1, <1>2, <1>3, <1>4 DEF PassageInv

\* The invariant of every request, for ids of any order.
THEOREM PassageInvariant == DigestsAreNumbers /\ Spec => []PassageInv
<1>1. DigestsAreNumbers /\ Init => PassageInv
  BY PassageInit
<1>2. PassageInv /\ [Next]_vars => PassageInv'
  <2> SUFFICES ASSUME PassageInv, [Next]_vars PROVE PassageInv'
    OBVIOUS
  <2>1. CASE Ask
    BY <2>1, AskKeeps
  <2>2. CASE \E r \in todo : Open(r)
    BY <2>2, OpenKeeps
  <2>3. CASE \E s \in waiting : Place(s)
    BY <2>3, PlaceKeeps
  <2>4. CASE Build
    BY <2>4, BuildKeeps
  <2>5. CASE PartitionPassages
    BY <2>5, PartitionKeeps
  <2>6. CASE Close
    BY <2>6, CloseKeeps
  <2>7. CASE Answer
    BY <2>7, AnswerKeeps
  <2>8. CASE Done \/ UNCHANGED vars
    BY <2>8, PassagesStay DEF Done
  <2>9. QED
    BY <2>1, <2>2, <2>3, <2>4, <2>5, <2>6, <2>7, <2>8 DEF Next
<1>3. QED
  BY <1>1, <1>2, PTL DEF Spec

\* Types.
LEMMA PassageInvIsTyped == PassageInv => TypeOK
<1> SUFFICES ASSUME PassageInv PROVE TypeOK
  OBVIOUS
<1>1. ControlIsTyped /\ TracksAreWhole /\ IInv
  BY DEF PassageInv
<1>2. /\ \A n \in DOMAIN passages : IsPassage(passages[n])
      /\ pending \subseteq DOMAIN passages /\ DOMAIN alternates \subseteq DOMAIN passages
      /\ ToSet(primaries) \subseteq DOMAIN passages
  BY <1>1 DEF IInv, PassagesAreTyped, AlternatesAreOwned
<1>3. ASSUME NEW n \in DOMAIN tracks
      PROVE  tracks[n] # <<>> /\ ToSet(tracks[n]) \subseteq DOMAIN segments
  <2>1. tracks \in Seq(Seq(DOMAIN segments) \ {<<>>})
    BY <1>1, <1>3 DEF TracksAreWhole, AreTracks
  <2>2. tracks[n] \in Seq(DOMAIN segments) \ {<<>>}
    BY <1>3, <2>1, ElementOfSeq
  <2>3. QED
    BY <2>2 DEF ToSet
<1>4. pc \in {"stitch", "partition"} => ref # None /\ waiting \subseteq DOMAIN segments
  BY <1>1 DEF ControlIsTyped, TracksAreWhole, AreTracks
<1>5. QED
  BY <1>1, <1>2, <1>3, <1>4 DEF ControlIsTyped, TypeOK

-----------------------------------------------------------------------------
\* Every variable of the passage lane has its type.
THEOREM PassagesAreWellTyped == DigestsAreNumbers /\ Spec => []TypeOK
BY PassageInvariant, PassageInvIsTyped, PTL

\* Whatever lines overlap, every line is in exactly one passage, and a passage
\* counts each of its distinct hits once and covers them all
\* (passage_from_track, support_from_hits).
THEOREM HitsAreCountedOnce == DigestsAreNumbers /\ Spec => []HitsCountOnce
BY PassageInvariant, PTL DEF PassageInv

\* And its support has no hole longer than the limit while both clocks move
\* forward: none on a's clock, and on b's none but where it runs back before the
\* span's beginning, by a jump at most (support_from_hits).
THEOREM SupportStaysWithoutHoles == DigestsAreNumbers /\ Spec => []SupportHasNoHoles
BY PassageInvariant, PTL DEF PassageInv

\* The passages that a request builds are divided as any others: no primary is
\* owned by another, and every alternate is owned (partition_passages).
THEOREM RequestsAreDivided ==
    DigestsAreNumbers /\ Spec => []PrimariesAreUndominated /\ []AlternatesAreOwned
BY PassageInvariant, PTL DEF PassageInv, IInv

-----------------------------------------------------------------------------
(* A pair by itself.  What follows are the operators of the passage lane   *)
(* for the segments of any reference of any world, so that what two        *)
(* requests make of one reference can be compared.                         *)

SoonerIn(segs, x, y) ==
    LET s == segs[x]
        t == segs[y]
    IN  \/ Start(s) < Start(t)
        \/ Start(s) = Start(t)
           /\ \/ RefStart(s) < RefStart(t)
              \/ RefStart(s) = RefStart(t)
                 /\ (Score(s) > Score(t) \/ (Score(s) = Score(t) /\ x < y))

FitsIn(segs, ts, s) == { n \in DOMAIN ts : Compatible(segs[Last(ts[n])], segs[s]) }

NearestIn(segs, ts, s) ==
    LET jump(n) == OffsetJump(segs[Last(ts[n])], segs[s])
    IN  CHOOSE n \in FitsIn(segs, ts, s) : \A m \in FitsIn(segs, ts, s) \ {n} :
            jump(n) < jump(m) \/ (jump(n) = jump(m) /\ n < m)

HitsIn(segs, track) ==
    LET all == StableSort(FlattenSeq([n \in DOMAIN track |-> segs[track[n]].hits]), Less)
    IN  ElementsAt(all, { i \in DOMAIN all : i = 1 \/ all[i] # all[i - 1] })

PassageIn(segs, track) ==
    LET hits == HitsIn(segs, track)
        support == Support(hits)
        times == { segs[track[n]].time : n \in DOMAIN track }
        pitches == { segs[track[n]].pitch : n \in DOMAIN track }
    IN  [support |-> support,
         start |-> support[1].start,
         stop |-> Last(support).stop,
         ref_start |-> Min({ support[n].ref_start : n \in DOMAIN support }),
         ref_stop |-> Max({ support[n].ref_stop : n \in DOMAIN support }),
         hits |-> Len(hits),
         seconds |-> Seconds(support),
         gap |-> Max({0} \cup { support[n].start - support[n - 1].stop : n \in 2 .. Len(support) }),
         score |-> Max({ Score(segs[track[n]]) : n \in DOMAIN track }),
         time |-> <<Min(times), Max(times)>>,
         pitch |-> <<Min(pitches), Max(pitches)>>,
         segments |-> track]

BuiltOf(segs, ts) == StableSort([n \in DOMAIN ts |-> PassageIn(segs, ts[n])], Before)

StrongerIn(ps, m, n) ==
    LET p == ps[m]
        r == ps[n]
    IN  \/ p.hits > r.hits
        \/ p.hits = r.hits
           /\ \/ p.seconds > r.seconds
              \/ p.seconds = r.seconds
                 /\ \/ Digest(p.support) < Digest(r.support)
                    \/ Digest(p.support) = Digest(r.support) /\ m < n

IsBetterIn(ps, firsts, i, j, n) ==
    LET p == ps[firsts[i]]
        r == ps[firsts[j]]
    IN  \/ Overlap(p, ps[n]) > Overlap(r, ps[n])
        \/ Overlap(p, ps[n]) = Overlap(r, ps[n])
           /\ (p.hits > r.hits \/ (p.hits = r.hits /\ i > j))

OwnersIn(ps, firsts, n) == { i \in DOMAIN firsts : Dominates(ps[firsts[i]], ps[n]) }

BestIn(ps, firsts, n) ==
    CHOOSE i \in OwnersIn(ps, firsts, n) :
        \A j \in OwnersIn(ps, firsts, n) \ {i} : IsBetterIn(ps, firsts, i, j, n)

\* What is worked out of a pair, a step at a time: a segment is placed, the
\* passages are built, or one of them is divided.
Begun(segs) ==
    [pc |-> "stitch", waiting |-> DOMAIN segs, tracks |-> <<>>, passages |-> <<>>,
     pending |-> {}, primaries |-> <<>>, alternates |-> <<>>]

SoonestIn(segs, W) == CHOOSE s \in W : \A t \in W \ {s} : SoonerIn(segs, s, t)

PlacedIn(segs, ts, s) ==
    IF FitsIn(segs, ts, s) = {} THEN Append(ts, <<s>>)
    ELSE [ts EXCEPT ![NearestIn(segs, ts, s)] = Append(@, s)]

WithPlaced(segs, y) ==
    LET s == SoonestIn(segs, y.waiting)
    IN  [pc |-> "stitch", waiting |-> y.waiting \ {s}, tracks |-> PlacedIn(segs, y.tracks, s),
         passages |-> y.passages, pending |-> y.pending, primaries |-> y.primaries,
         alternates |-> y.alternates]

WithBuilt(segs, y) ==
    [pc |-> "partition", waiting |-> y.waiting, tracks |-> y.tracks,
     passages |-> BuiltOf(segs, y.tracks), pending |-> DOMAIN y.tracks,
     primaries |-> y.primaries, alternates |-> y.alternates]

StrongestIn(ps, W) == CHOOSE n \in W : \A m \in W \ {n} : StrongerIn(ps, n, m)

WithDivided(y) ==
    LET n == StrongestIn(y.passages, y.pending)
        isFirst == OwnersIn(y.passages, y.primaries, n) = {}
        owner == y.primaries[BestIn(y.passages, y.primaries, n)]
    IN  [pc |-> "partition", waiting |-> y.waiting, tracks |-> y.tracks,
         passages |-> y.passages, pending |-> y.pending \ {n},
         primaries |-> IF isFirst THEN Append(y.primaries, n) ELSE y.primaries,
         alternates |-> IF isFirst THEN y.alternates
                        ELSE [m \in {n} \cup DOMAIN y.alternates |->
                                 IF m = n THEN owner ELSE y.alternates[m]]]

StepOf(segs, y) ==
    IF y.pc = "partition" THEN WithDivided(y)
    ELSE IF y.waiting # {} THEN WithPlaced(segs, y) ELSE WithBuilt(segs, y)

IsOver(y) == y.pc = "partition" /\ y.pending = {}

IsWork(segs, chain, n) ==
    /\ chain[0] = Begun(segs)
    /\ \A k \in Nat : k < n => ~IsOver(chain[k]) /\ chain[k + 1] = StepOf(segs, chain[k])

ComesOf(segs, y) == \E n \in Nat : \E chain : chain[n] = y /\ IsWork(segs, chain, n)

\* What the request has worked out of its reference.
Present ==
    [pc |-> pc, waiting |-> waiting, tracks |-> tracks, passages |-> passages,
     pending |-> pending, primaries |-> primaries, alternates |-> alternates]

-----------------------------------------------------------------------------
\* The work on a pair begins,
LEMMA WorkBegins ==
    ASSUME NEW segs
    PROVE  ComesOf(segs, Begun(segs))
<1> DEFINE chain == [k \in {0} |-> Begun(segs)]
<1>1. chain[0] = Begun(segs)
  OBVIOUS
<1> HIDE DEF chain
<1>2. IsWork(segs, chain, 0)
  BY <1>1 DEF IsWork
<1>3. QED
  BY <1>1, <1>2 DEF ComesOf

\* goes on step by step,
LEMMA WorkGoesOn ==
    ASSUME NEW segs, NEW y, ComesOf(segs, y), ~IsOver(y)
    PROVE  ComesOf(segs, StepOf(segs, y))
<1>1. PICK n \in Nat : \E chain : chain[n] = y /\ IsWork(segs, chain, n)
  BY DEF ComesOf
<1>2. PICK chain : chain[n] = y /\ IsWork(segs, chain, n)
  BY <1>1
<1> DEFINE next == StepOf(segs, y)
           new == [k \in 0 .. n + 1 |-> IF k = n + 1 THEN next ELSE chain[k]]
<1>3. /\ \A k \in Nat : k <= n => new[k] = chain[k]
      /\ new[n + 1] = next
  OBVIOUS
<1> HIDE DEF new, next
<1>4. new[0] = Begun(segs)
  BY <1>2, <1>3 DEF IsWork
<1>5. ASSUME NEW k \in Nat, k < n + 1
      PROVE  ~IsOver(new[k]) /\ new[k + 1] = StepOf(segs, new[k])
  <2>1. k <= n /\ new[k] = chain[k]
    BY <1>3, <1>5
  <2>2. CASE k = n
    BY <1>2, <1>3, <2>1, <2>2 DEF next
  <2>3. CASE k # n
    <3>1. k < n /\ k + 1 \in Nat /\ k + 1 <= n
      BY <2>1, <2>3
    <3>2. ~IsOver(chain[k]) /\ chain[k + 1] = StepOf(segs, chain[k])
      BY <1>2, <3>1 DEF IsWork
    <3>3. new[k + 1] = chain[k + 1]
      BY <1>3, <3>1
    <3>4. QED
      BY <2>1, <3>2, <3>3
  <2>4. QED
    BY <2>2, <2>3
<1>6. IsWork(segs, new, n + 1)
  BY <1>4, <1>5 DEF IsWork
<1>7. n + 1 \in Nat
  OBVIOUS
<1>8. QED
  BY <1>3, <1>6, <1>7 DEF ComesOf, next

\* and always ends alike.
LEMMA WorkIsUnique ==
    ASSUME NEW segs, NEW x, NEW y, ComesOf(segs, x), ComesOf(segs, y), IsOver(x), IsOver(y)
    PROVE  x = y
<1>1. PICK m \in Nat : \E f : f[m] = x /\ IsWork(segs, f, m)
  BY DEF ComesOf
<1>2. PICK f : f[m] = x /\ IsWork(segs, f, m)
  BY <1>1
<1>3. PICK n \in Nat : \E g : g[n] = y /\ IsWork(segs, g, n)
  BY DEF ComesOf
<1>4. PICK g : g[n] = y /\ IsWork(segs, g, n)
  BY <1>3
<1>5. f[0] = g[0]
  BY <1>2, <1>4 DEF IsWork
<1>6. \A k \in Nat : k < m => ~IsOver(f[k]) /\ f[k + 1] = StepOf(segs, f[k])
  BY <1>2 DEF IsWork
<1>7. \A k \in Nat : k < n => ~IsOver(g[k]) /\ g[k + 1] = StepOf(segs, g[k])
  BY <1>4 DEF IsWork
<1>8. \A k \in Nat : (k < m /\ k < n /\ f[k] = g[k]) => f[k + 1] = g[k + 1]
  BY <1>6, <1>7
<1>9. \A k \in Nat : (k <= m /\ k <= n /\ f[k] = g[k]) => (k = m <=> k = n)
  BY <1>2, <1>4, <1>6, <1>7
<1>10. RunAlike(f, m, g, n)
  BY <1>5, <1>8, <1>9 DEF RunAlike
<1>11. f[m] = g[n]
  BY <1>10, RunsAreTheSame
<1>12. QED
  BY <1>2, <1>4, <1>11

\* Of a reference without segments nothing comes.
LEMMA NothingOfNothing ==
    ASSUME NEW y, ComesOf(<<>>, y), IsOver(y)
    PROVE  y.primaries = <<>>
<1> DEFINE b == Begun(<<>>)
           d == WithBuilt(<<>>, b)
<1>1. b.pc = "stitch" /\ b.waiting = {} /\ b.tracks = <<>> /\ b.primaries = <<>>
  BY DEF Begun
<1>2. ComesOf(<<>>, b) /\ ~IsOver(b) /\ StepOf(<<>>, b) = d
  BY <1>1, WorkBegins DEF IsOver, StepOf
<1>3. ComesOf(<<>>, d)
  BY <1>2, WorkGoesOn
<1>4. d.pc = "partition" /\ d.pending = {} /\ d.primaries = <<>>
  BY <1>1 DEF WithBuilt, Begun
<1>5. IsOver(d)
  BY <1>4 DEF IsOver
<1>6. y = d
  BY <1>3, <1>5, WorkIsUnique
<1>7. QED
  BY <1>4, <1>6


-----------------------------------------------------------------------------
(* The steps of a request are the steps of the work on its pair.           *)

\* No two segments are each to be placed before the other.
LEMMA SoonestIsChosen ==
    ASSUME segments \in Seq(Segment), NEW W \in SUBSET DOMAIN segments, NEW s \in W,
           \A t \in W \ {s} : Sooner(s, t)
    PROVE  SoonestIn(segments, W) = s
<1>1. \A x, y \in W : SoonerIn(segments, x, y) <=> Sooner(x, y)
  BY DEF SoonerIn, Sooner
<1>2. ASSUME NEW x \in W, NEW y \in W, Sooner(x, y), Sooner(y, x) PROVE FALSE
  <2> DEFINE u == segments[x]
             v == segments[y]
  <2>1. u \in Segment /\ v \in Segment /\ x \in Nat /\ y \in Nat
    BY ElementOfSeq
  <2>2. /\ Start(u) \in Int /\ RefStart(u) \in Int /\ Start(v) \in Int /\ RefStart(v) \in Int
    BY <2>1, SegmentsHaveEnds
  <2>3. Score(u) \in Nat /\ Score(v) \in Nat
    <3>1. \A w \in Segment : Score(w) \in Nat
      <4> SUFFICES ASSUME NEW w \in Segment PROVE Score(w) \in Nat
        OBVIOUS
      <4>1. w.hits \in Seq(Hit)
        BY DEF Segment
      <4>2. Len(w.hits) \in Nat
        BY <4>1, LenProperties
      <4>3. QED
        BY <4>2 DEF Score
    <3> HIDE DEF u, v
    <3>2. QED
      BY <2>1, <3>1
  <2>4. /\ \/ Start(u) < Start(v)
           \/ Start(u) = Start(v)
              /\ \/ RefStart(u) < RefStart(v)
                 \/ RefStart(u) = RefStart(v)
                    /\ (Score(u) > Score(v) \/ (Score(u) = Score(v) /\ x < y))
        /\ \/ Start(v) < Start(u)
           \/ Start(v) = Start(u)
              /\ \/ RefStart(v) < RefStart(u)
                 \/ RefStart(v) = RefStart(u)
                    /\ (Score(v) > Score(u) \/ (Score(v) = Score(u) /\ y < x))
    BY <1>2 DEF Sooner
  <2> HIDE DEF u, v
  <2>5. QED
    BY <2>1, <2>2, <2>3, <2>4
<1> DEFINE c == SoonestIn(segments, W)
<1>3. c \in W /\ \A t \in W \ {c} : SoonerIn(segments, c, t)
  <2>1. \A t \in W \ {s} : SoonerIn(segments, s, t)
    BY <1>1
  <2>2. QED
    BY <2>1 DEF SoonestIn
<1> HIDE DEF c
<1>4. c = s
  BY <1>1, <1>2, <1>3
<1>5. QED
  BY <1>4 DEF c

\* A segment is placed.
LEMMA PlaceIsWork ==
    ASSUME PassageInv, NEW s \in waiting, Place(s), ComesOf(segments, Present)
    PROVE  ComesOf(segments, Present)'
<1>1. /\ pc = "stitch" /\ pc' = pc /\ ref' = ref /\ world' = world
      /\ waiting' = waiting \ {s}
      /\ tracks' = IF Fits(s) = {} THEN Append(tracks, <<s>>) ELSE Placed(s)
      /\ passages' = passages /\ pending' = pending
      /\ primaries' = primaries /\ alternates' = alternates
      /\ \A t \in waiting \ {s} : Sooner(s, t)
      /\ ControlIsTyped /\ TracksAreWhole
  BY DEF Place, PassageInv, partition_vars
<1>2. segments \in Seq(Segment) /\ waiting \subseteq DOMAIN segments
  BY <1>1, WorldFacts DEF ControlIsTyped, TracksAreWhole, AreTracks
<1>3. SoonestIn(segments, waiting) = s
  BY <1>1, <1>2, SoonestIsChosen
<1>4. FitsIn(segments, tracks, s) = Fits(s)
  BY DEF FitsIn, Fits
<1>5. NearestIn(segments, tracks, s) = Nearest(s)
  BY <1>4 DEF NearestIn, Nearest
<1>6. PlacedIn(segments, tracks, s) = tracks'
  BY <1>1, <1>4, <1>5 DEF PlacedIn, Placed
<1>7. WithPlaced(segments, Present) = Present'
  BY <1>1, <1>3, <1>6 DEF WithPlaced, Present
<1>8. Present.pc = "stitch" /\ Present.waiting = waiting /\ waiting # {}
  BY <1>1 DEF Present
<1>9. ~IsOver(Present) /\ StepOf(segments, Present) = Present'
  BY <1>7, <1>8 DEF IsOver, StepOf
<1>10. ComesOf(segments, StepOf(segments, Present))
  BY <1>9, WorkGoesOn
<1>11. segments' = segments
  BY <1>1 DEF segments
<1>12. ComesOf(segments', Present')
  BY <1>9, <1>10, <1>11
<1>13. QED
  BY <1>12 DEF ComesOf, IsWork

\* The passages are built.
LEMMA BuildIsWork ==
    ASSUME PassageInv, Build, ComesOf(segments, Present)
    PROVE  ComesOf(segments, Present)'
<1>1. /\ pc = "stitch" /\ waiting = {} /\ pc' = "partition" /\ pending' = DOMAIN tracks
      /\ passages' = StableSort([n \in DOMAIN tracks |-> PassageOf(tracks[n])], Before)
      /\ world' = world /\ ref' = ref /\ waiting' = waiting /\ tracks' = tracks
      /\ primaries' = primaries /\ alternates' = alternates
  BY DEF Build, Candidates
<1>2. BuiltOf(segments, tracks) = passages'
  <2>1. \A track : PassageIn(segments, track) = PassageOf(track)
    BY DEF PassageIn, PassageOf, HitsIn, HitsOf, HitsWithRepeats
  <2>2. [n \in DOMAIN tracks |-> PassageIn(segments, tracks[n])]
        = [n \in DOMAIN tracks |-> PassageOf(tracks[n])]
    BY <2>1
  <2>3. QED
    BY <1>1, <2>2 DEF BuiltOf
<1>3. WithBuilt(segments, Present) = Present'
  BY <1>1, <1>2 DEF WithBuilt, Present
<1>4. Present.pc = "stitch" /\ Present.waiting = {}
  BY <1>1 DEF Present
<1>5. ~IsOver(Present) /\ StepOf(segments, Present) = Present'
  BY <1>3, <1>4 DEF IsOver, StepOf
<1>6. ComesOf(segments, StepOf(segments, Present))
  BY <1>5, WorkGoesOn
<1>7. segments' = segments
  BY <1>1 DEF segments
<1>8. ComesOf(segments', Present')
  BY <1>5, <1>6, <1>7
<1>9. QED
  BY <1>8 DEF ComesOf, IsWork

\* No two passages are each stronger than the other.
LEMMA StrongestIsChosen ==
    ASSUME DigestsAreNumbers, NEW W, NEW n \in W, W \subseteq Int,
           \A m \in W : passages[m].hits \in Int /\ passages[m].seconds \in Int,
           \A m \in W \ {n} : Stronger(n, m)
    PROVE  StrongestIn(passages, W) = n
<1>1. \A k, m \in W : StrongerIn(passages, k, m) <=> Stronger(k, m)
  BY DEF StrongerIn, Stronger
<1>2. ASSUME NEW k \in W, NEW m \in W, Stronger(k, m), Stronger(m, k) PROVE FALSE
  <2>1. Digest(passages[k].support) \in Int /\ Digest(passages[m].support) \in Int
    BY DEF DigestsAreNumbers
  <2>2. QED
    BY <1>2, <2>1 DEF Stronger
<1> DEFINE c == StrongestIn(passages, W)
<1>3. c \in W /\ \A m \in W \ {c} : StrongerIn(passages, c, m)
  <2>1. \A m \in W \ {n} : StrongerIn(passages, n, m)
    BY <1>1
  <2>2. QED
    BY <2>1 DEF StrongestIn
<1> HIDE DEF c
<1>4. c = n
  BY <1>1, <1>2, <1>3
<1>5. QED
  BY <1>4 DEF c

\* A passage is divided.
LEMMA DivisionIsWork ==
    ASSUME PassageInv, PartitionPassages, \A n \in DOMAIN passages : IsNumbered(passages[n]),
           ComesOf(segments, Present)
    PROVE  ComesOf(segments, Present)'
<1>1. /\ pc = "partition" /\ pc' = pc /\ world' = world /\ ref' = ref /\ waiting' = waiting
      /\ tracks' = tracks /\ DigestsAreNumbers /\ IInv
  BY DEF PartitionPassages, PassageInv
<1>2. PICK n \in pending : Divide(n)
  BY DEF PartitionPassages
<1>3. /\ IsStrongest(n) /\ pending' = pending \ {n} /\ passages' = passages
      /\ IF Owners(n) = {}
         THEN primaries' = Append(primaries, n) /\ alternates' = alternates
         ELSE /\ alternates' = [m \in {n} \cup DOMAIN alternates |->
                     IF m = n THEN primaries[BestOwner(Owners(n), n)] ELSE alternates[m]]
              /\ primaries' = primaries
  BY <1>2 DEF Divide
<1>4. StrongestIn(passages, pending) = n
  <2>1. pending \subseteq DOMAIN passages /\ DOMAIN passages \subseteq Int
    BY <1>1 DEF IInv, PassagesAreTyped
  <2>2. \A m \in pending : passages[m].hits \in Int /\ passages[m].seconds \in Int
    BY <2>1 DEF IsNumbered, IsPassage
  <2>3. \A m \in pending \ {n} : Stronger(n, m)
    BY <1>3 DEF IsStrongest
  <2>4. QED
    BY <1>1, <2>1, <2>2, <2>3, StrongestIsChosen
<1>5. OwnersIn(passages, primaries, n) = Owners(n)
  BY DEF OwnersIn, Owners
<1>6. BestIn(passages, primaries, n) = BestOwner(Owners(n), n)
  <2>1. \A i, j : IsBetterIn(passages, primaries, i, j, n) = IsBetterOwner(i, j, n)
    BY DEF IsBetterIn, IsBetterOwner
  <2>2. QED
    BY <1>5, <2>1 DEF BestIn, BestOwner
<1>7. WithDivided(Present) = Present'
  BY <1>1, <1>3, <1>4, <1>5, <1>6 DEF WithDivided, Present
<1>8. Present.pc = "partition" /\ Present.pending # {}
  BY <1>1 DEF Present
<1>9. ~IsOver(Present) /\ StepOf(segments, Present) = Present'
  BY <1>7, <1>8 DEF IsOver, StepOf
<1>10. ComesOf(segments, StepOf(segments, Present))
  BY <1>9, WorkGoesOn
<1>11. segments' = segments
  BY <1>1 DEF segments
<1>12. ComesOf(segments', Present')
  BY <1>9, <1>10, <1>11
<1>13. QED
  BY <1>12 DEF ComesOf, IsWork


-----------------------------------------------------------------------------
(* The match of a pair.                                                    *)

IsSameAudioOf(w, r, p) ==
    LET a_extent == w.extent
        b_extent == w.refs[r].extent
    IN  /\ a_extent > 0 /\ b_extent > 0
        /\ 100 * p.seconds >= Coverage * a_extent
        /\ 100 * p.seconds >= Coverage * b_extent
        /\ Magnitude(p.ref_start - p.start) <= MaxEdgeDelta
        /\ Magnitude(p.ref_stop - p.stop) <= MaxEdgeDelta
        /\ \A i \in 1 .. 2 : /\ Magnitude(p.time[i] - Unit) <= MaxUnitDelta
                             /\ Magnitude(p.pitch[i] - Unit) <= MaxUnitDelta

SameAudioOf(w, r, ordered) ==
    LET covers(i) == Least(ordered[i].seconds, Greatest(w.extent, w.refs[r].extent))
        candidates == { i \in DOMAIN ordered : IsSameAudioOf(w, r, ordered[i]) }
    IN  IF candidates = {} THEN None
        ELSE ordered[CHOOSE i \in candidates : \A j \in candidates \ {i} :
                         covers(i) > covers(j) \/ (covers(i) = covers(j) /\ i > j)].support

ShownAs(evidence, p) == IF evidence THEN p ELSE Bare(p)

OrderedOf(y) == StableSort([n \in DOMAIN y.primaries |-> y.passages[y.primaries[n]]], Before)

OwnedOf(y) == SelectSeq(Places(y.passages), LAMBDA n : n \in DOMAIN y.alternates)

\* The match that the work on reference r ends with.
MatchFrom(w, r, evidence, y) ==
    LET ordered == OrderedOf(y)
        owned == OwnedOf(y)
    IN  [ref |-> r,
         passages |-> [n \in DOMAIN ordered |-> ShownAs(evidence, ordered[n])],
         alternates |-> [n \in DOMAIN owned |->
             [primary |-> y.passages[y.alternates[owned[n]]].support,
              passage |-> ShownAs(evidence, y.passages[owned[n]])]],
         same |-> SameAudioOf(w, r, ordered),
         hits |-> Sum([n \in DOMAIN ordered |-> ordered[n].hits]),
         seconds |-> Sum([n \in DOMAIN ordered |-> ordered[n].seconds])]

\* A match is that of the work on its reference.
LEMMA MatchIsFromWork ==
    MatchOf = MatchFrom(world, ref, request.evidence, Present)
<1>1. \A p : Shown(p) = ShownAs(request.evidence, p)
  BY DEF Shown, ShownAs, Bare
<1>2. \A p : IsSameAudio(p) <=> IsSameAudioOf(world, ref, p)
  BY DEF IsSameAudio, IsSameAudioOf
<1>3. \A ordered : SameAudio(ordered) = SameAudioOf(world, ref, ordered)
  <2> TAKE ordered
  <2> DEFINE covers(i) == Least(ordered[i].seconds, Greatest(world.extent, world.refs[ref].extent))
             A == { i \in DOMAIN ordered : IsSameAudio(ordered[i]) }
             B == { i \in DOMAIN ordered : IsSameAudioOf(world, ref, ordered[i]) }
             id(X) == IF X = {} THEN None
                      ELSE ordered[CHOOSE i \in X : \A j \in X \ {i} :
                               covers(i) > covers(j) \/ (covers(i) = covers(j) /\ i > j)].support
  <2>1. A = B
    BY <1>2
  <2>2. SameAudio(ordered) = id(A)
    BY DEF SameAudio
  <2>3. SameAudioOf(world, ref, ordered) = id(B)
    BY DEF SameAudioOf
  <2>4. QED
    BY <2>1, <2>2, <2>3
<1>4. /\ Present.passages = passages /\ Present.primaries = primaries
      /\ Present.alternates = alternates
  BY DEF Present
<1>5. /\ OrderedOf(Present)
             = StableSort([n \in DOMAIN primaries |-> passages[primaries[n]]], Before)
      /\ OwnedOf(Present) = SelectSeq(Places(passages), LAMBDA n : n \in DOMAIN alternates)
  BY <1>4 DEF OrderedOf, OwnedOf
<1>6. QED
  BY <1>1, <1>3, <1>4, <1>5 DEF MatchOf, MatchFrom

\* What it says besides segments does not depend on the request.
LEMMA PlainlyTheSame ==
    ASSUME NEW w, NEW r, NEW y, NEW e, NEW d
    PROVE  Plain(MatchFrom(w, r, e, y)) = Plain(MatchFrom(w, r, d, y))
<1> DEFINE ordered == OrderedOf(y)
           owned == OwnedOf(y)
           seen(x) == [n \in DOMAIN ordered |-> ShownAs(x, ordered[n])]
           other(x) == [n \in DOMAIN owned |->
               [primary |-> y.passages[y.alternates[owned[n]]].support,
                passage |-> ShownAs(x, y.passages[owned[n]])]]
           m(x) == MatchFrom(w, r, x, y)
<1>1. \A x : \A p : Bare(ShownAs(x, p)) = Bare(p)
  BY DEF Bare, ShownAs
<1>2. \A x : /\ m(x).ref = r /\ m(x).passages = seen(x) /\ m(x).alternates = other(x)
             /\ m(x).same = SameAudioOf(w, r, ordered)
             /\ m(x).hits = Sum([n \in DOMAIN ordered |-> ordered[n].hits])
             /\ m(x).seconds = Sum([n \in DOMAIN ordered |-> ordered[n].seconds])
  BY DEF MatchFrom
<1>3. \A x : [n \in DOMAIN seen(x) |-> Bare(seen(x)[n])]
             = [n \in DOMAIN ordered |-> Bare(ordered[n])]
  BY <1>1
<1>4. \A x : [n \in DOMAIN other(x) |-> BareAlternate(other(x)[n])]
             = [n \in DOMAIN owned |->
                   [primary |-> y.passages[y.alternates[owned[n]]].support,
                    passage |-> Bare(y.passages[owned[n]])]]
  <2> TAKE x
  <2>1. DOMAIN other(x) = DOMAIN owned
    OBVIOUS
  <2>2. ASSUME NEW n \in DOMAIN owned
        PROVE  BareAlternate(other(x)[n])
               = [primary |-> y.passages[y.alternates[owned[n]]].support,
                  passage |-> Bare(y.passages[owned[n]])]
    <3>1. other(x)[n] = [primary |-> y.passages[y.alternates[owned[n]]].support,
                         passage |-> ShownAs(x, y.passages[owned[n]])]
      OBVIOUS
    <3>2. /\ other(x)[n].primary = y.passages[y.alternates[owned[n]]].support
          /\ Bare(other(x)[n].passage) = Bare(y.passages[owned[n]])
      BY <1>1, <3>1
    <3>3. QED
      BY <3>2 DEF BareAlternate
  <2> HIDE DEF other
  <2>3. QED
    BY <2>1, <2>2
<1> HIDE DEF m, seen, other
<1>5. \A x : Plain(m(x)) =
          [ref |-> r,
           passages |-> [n \in DOMAIN ordered |-> Bare(ordered[n])],
           alternates |-> [n \in DOMAIN owned |->
                   [primary |-> y.passages[y.alternates[owned[n]]].support,
                    passage |-> Bare(y.passages[owned[n]])]],
           same |-> SameAudioOf(w, r, ordered),
           hits |-> Sum([n \in DOMAIN ordered |-> ordered[n].hits]),
           seconds |-> Sum([n \in DOMAIN ordered |-> ordered[n].seconds])]
  BY <1>2, <1>3, <1>4 DEF Plain
<1>6. Plain(m(e)) = Plain(m(d))
  BY <1>5
<1>7. QED
  BY <1>6 DEF m

\* It has no passages when there are no primaries.
LEMMA NoPrimaries ==
    ASSUME NEW w, NEW r, NEW y, NEW e, NEW T, y.primaries \in Seq(T)
    PROVE  MatchFrom(w, r, e, y).passages = <<>> <=> y.primaries = <<>>
<1> DEFINE ps == y.primaries
           made == [n \in DOMAIN ps |-> y.passages[ps[n]]]
           before == { p \in (1 .. Len(made)) \X (1 .. Len(made)) : Before(made[p[1]], made[p[2]]) }
           ordered == OrderedOf(y)
<1>1. Len(ps) \in Nat /\ DOMAIN ps = 1 .. Len(ps) /\ (ps = <<>> <=> Len(ps) = 0)
  OBVIOUS
<1>2. Len(made) = Len(ps)
  BY <1>1
<1>3. ordered = ByRank(made, Ranks(Len(made), before))
  BY DEF OrderedOf, StableSort
<1> HIDE DEF before, made
<1>4. DOMAIN ordered = 1 .. Len(ps)
  BY <1>2, <1>3 DEF ByRank
<1>5. MatchFrom(w, r, e, y).passages = [n \in DOMAIN ordered |-> ShownAs(e, ordered[n])]
  BY DEF MatchFrom
<1> HIDE DEF ordered, ps
<1>6. MatchFrom(w, r, e, y).passages = [n \in 1 .. Len(ps) |-> ShownAs(e, ordered[n])]
  BY <1>4, <1>5
<1> DEFINE f == [n \in 1 .. Len(ps) |-> ShownAs(e, ordered[n])]
<1>7. f = <<>> <=> Len(ps) = 0
  <2>1. DOMAIN f = 1 .. Len(ps) /\ DOMAIN <<>> = {}
    OBVIOUS
  <2>2. ASSUME Len(ps) = 0 PROVE f = <<>>
    BY <2>2
  <2>3. ASSUME Len(ps) # 0 PROVE f # <<>>
    <3>1. 1 \in DOMAIN f
      BY <1>1, <2>3
    <3> HIDE DEF f
    <3>2. QED
      BY <2>1, <3>1
  <2>4. QED
    BY <2>2, <2>3
<1>8. QED
  BY <1>1, <1>6, <1>7 DEF ps

\* Its counts are numbers.
LEMMA MatchIsCounted ==
    ASSUME DigestsAreNumbers, NEW w, NEW r, NEW e, NEW y,
           y.primaries \in Seq(DOMAIN y.passages),
           \A n \in DOMAIN y.passages : IsNumbered(y.passages[n])
    PROVE  MatchFrom(w, r, e, y).hits \in Int /\ MatchFrom(w, r, e, y).seconds \in Int
<1> DEFINE ps == y.primaries
           n == Len(ps)
           made == [k \in DOMAIN ps |-> y.passages[ps[k]]]
           T == { y.passages[k] : k \in DOMAIN y.passages }
           before == { p \in (1 .. n) \X (1 .. n) : Before(made[p[1]], made[p[2]]) }
           ordered == OrderedOf(y)
<1>1. /\ n \in Nat /\ DOMAIN ps = 1 .. n
      /\ \A k \in 1 .. n : ps[k] \in DOMAIN y.passages
  BY ElementOfSeq
<1>2. \A p \in T : /\ p.hits \in Nat /\ p.seconds \in Nat
                   /\ p.start \in Int /\ p.ref_start \in Int
  BY DEF IsNumbered, IsPassage
<1>3. made \in [1 .. n -> T]
  BY <1>1
<1> HIDE DEF T, n, ps
<1>4. made \in Seq(T) /\ Len(made) = n /\ \A k \in 1 .. n : made[k] \in T
  BY <1>1, <1>3
<1>5. ordered = ByRank(made, Ranks(n, before))
  <2>1. ordered = ByRank(made, Ranks(Len(made),
            { p \in (1 .. Len(made)) \X (1 .. Len(made)) : Before(made[p[1]], made[p[2]]) }))
    BY DEF OrderedOf, StableSort, ps
  <2> HIDE DEF made
  <2>2. QED
    BY <1>4, <2>1
<1>6. \A k, l \in 1 .. n : <<k, l>> \in before <=> Before(made[k], made[l])
  OBVIOUS
<1> HIDE DEF made, before, ordered
<1>7. IsOrder(n, before)
  <2>1. /\ \A p \in T : ~Before(p, p)
        /\ \A p, q, x \in T : Before(p, q) /\ Before(q, x) => Before(p, x)
        /\ \A p, q, x \in T : Before(p, x) => Before(p, q) \/ Before(q, x)
    BY <1>2, BeforeIsOrder
  <2>2. \A i \in 1 .. n : <<i, i>> \notin before
    BY <1>4, <1>6, <2>1
  <2>3. \A i, j, k \in 1 .. n : <<i, j>> \in before /\ <<j, k>> \in before => <<i, k>> \in before
    BY <1>4, <1>6, <2>1
  <2>4. \A i, j, k \in 1 .. n : <<i, k>> \in before => <<i, j>> \in before \/ <<j, k>> \in before
    BY <1>4, <1>6, <2>1
  <2>5. QED
    BY <2>2, <2>3, <2>4 DEF IsOrder
<1>8. ordered \in Seq(T)
  <2> DEFINE sorted == ByRank(made, Ranks(Len(made), before))
  <2>1. sorted \in Seq(T)
    BY <1>4, <1>7, SortingIsPermutation
  <2>2. sorted = ordered
    BY <1>4, <1>5
  <2>3. QED
    BY <2>1, <2>2
<1> DEFINE hits == [k \in DOMAIN ordered |-> ordered[k].hits]
           seconds == [k \in DOMAIN ordered |-> ordered[k].seconds]
<1>9. hits \in Seq(Nat) /\ seconds \in Seq(Nat)
  <2>1. \A k \in DOMAIN ordered : ordered[k].hits \in Nat /\ ordered[k].seconds \in Nat
    BY <1>2, <1>8, ElementOfSeq
  <2>2. DOMAIN ordered = 1 .. Len(ordered) /\ Len(ordered) \in Nat
    BY <1>8
  <2>3. QED
    BY <2>1, <2>2
<1>10. MatchFrom(w, r, e, y).hits = Sum(hits) /\ MatchFrom(w, r, e, y).seconds = Sum(seconds)
  BY DEF MatchFrom, ordered
<1> HIDE DEF hits, seconds
<1>11. Sum(hits) \in Nat /\ Sum(seconds) \in Nat
  BY <1>9, 0 \in Nat, SumOfAppended
<1>12. QED
  BY <1>10, <1>11

-----------------------------------------------------------------------------
(* The matches of one reference.                                           *)

OfRef(T, r) == { x \in T : x.ref = r }

LEMMA MatchesArePart ==
    ASSUME NEW T, NEW s \in Seq(T), NEW r
    PROVE  OfReference(s, r) = Part(s, OfRef(T, r)) /\ OfReference(s, r) \in Seq(T)
<1>1. \A i \in DOMAIN s : s[i] \in T
  BY ElementOfSeq
<1>2. { i \in DOMAIN s : s[i].ref = r } = Chosen(s, OfRef(T, r))
  BY <1>1 DEF Chosen, OfRef
<1>3. OfReference(s, r) = Part(s, OfRef(T, r))
  BY <1>2 DEF OfReference, Selected, Part
<1>4. QED
  BY <1>3, PartIsEnumerated

\* When all are of a reference, they are the list.
LEMMA AllOfReference ==
    ASSUME NEW T, NEW s \in Seq(T), NEW r, \A i \in DOMAIN s : s[i].ref = r
    PROVE  OfReference(s, r) = s
<1> DEFINE at == [i \in 1 .. Len(s) |-> i]
           P == OfRef(T, r)
<1>1. Len(s) \in Nat /\ DOMAIN s = 1 .. Len(s) /\ \A i \in 1 .. Len(s) : s[i] \in T
  BY ElementOfSeq
<1>2. \A i \in 1 .. Len(s) : at[i] = i
  OBVIOUS
<1> HIDE DEF at
<1>3. Chosen(s, P) = 1 .. Len(s)
  BY <1>1 DEF Chosen, OfRef
<1>4. IsPart(s, at, s, P)
  BY <1>1, <1>2, <1>3 DEF IsPart, IsEnumeration, Earlier
<1>5. Part(s, P) = s
  BY <1>4, PartIsUnique
<1>6. QED
  BY <1>5, MatchesArePart

\* When none is, there is none.
LEMMA NoneOfReference ==
    ASSUME NEW T, NEW s \in Seq(T), NEW r
    PROVE  OfReference(s, r) = <<>> <=> \A i \in DOMAIN s : s[i].ref # r
<1> DEFINE P == OfRef(T, r)
           v == Part(s, P)
<1>1. OfReference(s, r) = v /\ v \in Seq(T)
  BY MatchesArePart
<1>2. PICK at : IsPart(v, at, s, P)
  BY PartIsEnumerated
<1>3. \A i \in DOMAIN s : i \in Chosen(s, P) <=> s[i].ref = r
  BY ElementOfSeq DEF Chosen, OfRef
<1> HIDE DEF v
<1>4. /\ Len(v) \in Nat /\ (v = <<>> <=> Len(v) = 0)
  BY <1>1
<1>5. ASSUME v = <<>>, NEW i \in DOMAIN s, s[i].ref = r PROVE FALSE
  <2>1. i \in Chosen(s, P)
    BY <1>3, <1>5
  <2>2. PICK k \in 1 .. Len(v) : at[k] = i
    BY <1>2, <2>1 DEF IsPart, IsEnumeration
  <2>3. QED
    BY <1>4, <1>5, <2>2
<1>6. ASSUME v # <<>> PROVE \E i \in DOMAIN s : s[i].ref = r
  <2>1. 1 \in 1 .. Len(v)
    BY <1>4, <1>6
  <2>2. at[1] \in Chosen(s, P)
    BY <1>2, <2>1 DEF IsPart, IsEnumeration
  <2>3. QED
    BY <1>3, <2>2 DEF Chosen
<1>7. QED
  BY <1>1, <1>5, <1>6

\* A match more.
LEMMA OneMatchMore ==
    ASSUME NEW T, NEW s \in Seq(T), NEW x \in T, NEW r
    PROVE  OfReference(Append(s, x), r)
           = IF x.ref = r THEN Append(OfReference(s, r), x) ELSE OfReference(s, r)
<1> DEFINE P == OfRef(T, r)
           one == <<x>>
<1>1. /\ Append(s, x) = Joined(s, one) /\ one \in Seq(T) /\ Append(s, x) \in Seq(T)
      /\ \A v \in Seq(T) : v \o one = Append(v, x)
  BY DEF Joined
<1>2. /\ one \in Seq(T) /\ DOMAIN one = {1} /\ one[1] = x
  BY <1>1
<1> HIDE DEF one
<1>3. OfReference(one, r) = IF x.ref = r THEN one ELSE <<>>
  <2>1. CASE x.ref = r
    BY <1>2, <2>1, AllOfReference
  <2>2. CASE x.ref # r
    BY <1>2, <2>2, NoneOfReference
  <2>3. QED
    BY <2>1, <2>2
<1>4. Part(Joined(s, one), P) = Joined(Part(s, P), Part(one, P))
  BY <1>2, PartOfBoth
<1>5. /\ OfReference(Append(s, x), r) = Part(Append(s, x), P)
      /\ OfReference(s, r) = Part(s, P) /\ OfReference(s, r) \in Seq(T)
      /\ OfReference(one, r) = Part(one, P)
  BY <1>1, <1>2, MatchesArePart
<1>6. OfReference(Append(s, x), r) = OfReference(s, r) \o OfReference(one, r)
  BY <1>1, <1>4, <1>5 DEF Joined
<1>7. CASE x.ref = r
  BY <1>1, <1>3, <1>5, <1>6, <1>7
<1>8. CASE x.ref # r
  BY <1>3, <1>5, <1>6, <1>8
<1>9. QED
  BY <1>7, <1>8

\* The order of a discovery's matches.
Foremost(T) ==
    { p \in T \X T :
          \/ p[1].seconds > p[2].seconds
          \/ p[1].seconds = p[2].seconds
             /\ (p[1].hits > p[2].hits \/ (p[1].hits = p[2].hits /\ p[1].ref < p[2].ref)) }

IsCounted(x) == x.ref \in Int /\ x.hits \in Int /\ x.seconds \in Int

LEMMA ForemostIsRanking ==
    ASSUME NEW T, \A x \in T : IsCounted(x)
    PROVE  IsRanking(T, Foremost(T))
<1>1. \A x, y \in T : <<x, y>> \in Foremost(T) <=>
          \/ x.seconds > y.seconds
          \/ x.seconds = y.seconds
             /\ (x.hits > y.hits \/ (x.hits = y.hits /\ x.ref < y.ref))
  BY DEF Foremost
<1>2. \A x \in T : <<x, x>> \notin Foremost(T)
  BY <1>1 DEF IsCounted
<1>3. ASSUME NEW x \in T, NEW y \in T, NEW z \in T,
             <<x, y>> \in Foremost(T), <<y, z>> \in Foremost(T)
      PROVE  <<x, z>> \in Foremost(T)
  BY <1>1, <1>3 DEF IsCounted
<1>4. ASSUME NEW x \in T, NEW y \in T, NEW z \in T, <<x, z>> \in Foremost(T)
      PROVE  <<x, y>> \in Foremost(T) \/ <<y, z>> \in Foremost(T)
  BY <1>1, <1>4 DEF IsCounted
<1>5. QED
  BY <1>2, <1>3, <1>4 DEF IsRanking

IsAtMostOne(s) == s = <<>> \/ \E x : s = <<x>>

\* To rank the matches moves none to another reference.
LEMMA RankedOfReference ==
    ASSUME NEW T, \A x \in T : IsCounted(x), NEW s \in Seq(T), NEW r,
           IsAtMostOne(OfReference(s, r))
    PROVE  Ranked(s) \in Seq(T) /\ OfReference(Ranked(s), r) = OfReference(s, r)
<1> DEFINE R == Foremost(T)
           P == OfRef(T, r)
           v == Part(s, P)
<1>1. IsRanking(T, R)
  BY ForemostIsRanking
<1>2. \A w \in Seq(T) : Ranked(w) = Sorted(w, R)
  <2> TAKE w \in Seq(T)
  <2>1. \A i \in 1 .. Len(w) : w[i] \in T
    BY ElementOfSeq
  <2>2. { p \in (1 .. Len(w)) \X (1 .. Len(w)) :
            \/ w[p[1]].seconds > w[p[2]].seconds
            \/ w[p[1]].seconds = w[p[2]].seconds
               /\ (w[p[1]].hits > w[p[2]].hits
                   \/ (w[p[1]].hits = w[p[2]].hits /\ w[p[1]].ref < w[p[2]].ref)) }
        = Ordered(w, R)
    BY <2>1 DEF Ordered, Foremost
  <2>3. QED
    BY <2>2 DEF Ranked, StableSort, Sorted
<1> HIDE DEF R
<1>3. Sorted(s, R) \in Seq(T) /\ v \in Seq(T) /\ Part(Sorted(s, R), P) = Sorted(v, R)
  BY <1>1, PartOfSorted
<1>4. /\ OfReference(s, r) = v /\ OfReference(Sorted(s, R), r) = Part(Sorted(s, R), P)
  BY <1>3, MatchesArePart
<1> HIDE DEF v
<1>a. Len(v) \in Nat /\ Len(v) <= 1
  <2>1. CASE v = <<>>
    BY <2>1
  <2>2. CASE v # <<>>
    <3>1. PICK x : v = <<x>>
      BY <1>4, <2>2 DEF IsAtMostOne
    <3>2. QED
      BY <3>1
  <2>3. QED
    BY <2>1, <2>2
<1>5. Sorted(v, R) = v
  <2>1. /\ Sorted(v, R) \in Seq(T)
        /\ \E place : SortsBy(Sorted(v, R), v, R, place)
    BY <1>1, <1>3, SortedIsSorted
  <2>2. PICK place : SortsBy(Sorted(v, R), v, R, place)
    BY <2>1
  <2>3. /\ Len(Sorted(v, R)) = Len(v) /\ Len(v) \in Nat /\ Len(v) <= 1
        /\ \A k \in 1 .. Len(v) : place[k] \in 1 .. Len(v) /\ Sorted(v, R)[k] = v[place[k]]
    BY <1>3, <1>a, <2>2 DEF SortsBy, IsEnumeration
  <2>4. \A k \in 1 .. Len(v) : Sorted(v, R)[k] = v[k]
    <3> TAKE k \in 1 .. Len(v)
    <3>1. k = 1 /\ place[k] = 1
      BY <2>3
    <3>2. QED
      BY <2>3, <3>1
  <2>5. QED
    BY <1>3, <2>1, <2>3, <2>4, SameLists
<1>6. QED
  BY <1>2, <1>3, <1>4, <1>5


-----------------------------------------------------------------------------
(* What is found, and what is answered, comes of the work on each pair.    *)

\* The references that a request looks at.
Asked(w, q) ==
    IF q.verb = "passages" THEN q.targets
    ELSE { r \in q.targets \ ({w.key} \cup q.exclude) : w.refs[r].segments # <<>> }

\* What the work on a pair ends with.
EndsAs(segs, y) == ComesOf(segs, y) /\ IsOver(y) /\ \E T : y.primaries \in Seq(T)

\* A reference that has been looked at gave the match of its work, unless a
\* discovery found no primary.
IsFound(w, q, r, matches) ==
    \E y : /\ EndsAs(w.refs[r].segments, y)
           /\ OfReference(matches, r) =
                  IF q.verb = "discover" /\ y.primaries = <<>> THEN <<>>
                  ELSE <<MatchFrom(w, r, q.evidence, y)>>

IsTrace(w, q, done, matches) ==
    /\ \E T : matches \in Seq(T) /\ \A x \in T : IsCounted(x)
    /\ \A r \in done : IsFound(w, q, r, matches)
    /\ \A r : r \notin done => OfReference(matches, r) = <<>>

Seen == Asked(world, request) \ (todo \cup (IF pc = "next" THEN {} ELSE {ref}))

FindingIsTraced ==
    /\ pc = "idle" => found = <<>>
    /\ pc # "idle" => /\ todo \subseteq Asked(world, request)
                      /\ IsTrace(world, request, Seen, found)

WorkIsTraced ==
    /\ pc \in {"stitch", "partition"} =>
           ref \in Asked(world, request) \ todo /\ ComesOf(segments, Present)
    /\ pc = "partition" => \A n \in DOMAIN passages : IsNumbered(passages[n])

AnswersAreTraced ==
    /\ \E T : answers \in Seq(T)
    /\ \A n \in DOMAIN answers :
           LET q == answers[n].request
           IN  q \in RequestsOf(world) /\ IsTrace(world, q, Asked(world, q), answers[n].matches)

Traced == FindingIsTraced /\ WorkIsTraced /\ AnswersAreTraced

-----------------------------------------------------------------------------
\* Nothing has been found of no reference.
LEMMA NothingIsTraced ==
    ASSUME NEW w, NEW q
    PROVE  IsTrace(w, q, {}, <<>>)
<1>1. << >> \in Seq({}) /\ DOMAIN << >> = {}
  OBVIOUS
<1>2. \A r : OfReference(<<>>, r) = <<>>
  BY <1>1, NoneOfReference
<1>3. QED
  BY <1>1, <1>2 DEF IsTrace

\* A list of matches without the one that is looked at.
LEMMA NothingMore ==
    ASSUME NEW w, NEW q, NEW done, NEW matches, IsTrace(w, q, done, matches), NEW r, r \notin done,
           NEW y, EndsAs(w.refs[r].segments, y),
           q.verb = "discover", y.primaries = <<>>
    PROVE  IsTrace(w, q, done \cup {r}, matches)
<1>1. OfReference(matches, r) = <<>>
  BY DEF IsTrace
<1>2. IsFound(w, q, r, matches)
  BY <1>1 DEF IsFound
<1>3. QED
  BY <1>2 DEF IsTrace

\* And with it.
LEMMA OneTraceMore ==
    ASSUME NEW w, NEW q, NEW done, NEW matches, IsTrace(w, q, done, matches), NEW r, r \notin done,
           NEW y, EndsAs(w.refs[r].segments, y),
           ~(q.verb = "discover" /\ y.primaries = <<>>),
           IsCounted(MatchFrom(w, r, q.evidence, y))
    PROVE  IsTrace(w, q, done \cup {r}, Append(matches, MatchFrom(w, r, q.evidence, y)))
<1> DEFINE x == MatchFrom(w, r, q.evidence, y)
           more == Append(matches, x)
<1>1. PICK T : matches \in Seq(T) /\ \A z \in T : IsCounted(z)
  BY DEF IsTrace
<1>2. x.ref = r
  BY DEF MatchFrom
<1>3. IsCounted(x)
  OBVIOUS
<1> DEFINE U == T \cup {x}
<1> HIDE DEF x
<1>4. matches \in Seq(U) /\ more \in Seq(U) /\ x \in U /\ \A z \in U : IsCounted(z)
  BY <1>1, <1>3
<1> HIDE DEF U
<1>5. \A t : OfReference(more, t) = IF x.ref = t THEN Append(OfReference(matches, t), x)
                                    ELSE OfReference(matches, t)
  BY <1>4, OneMatchMore
<1>6. \A t : t # r => OfReference(more, t) = OfReference(matches, t)
  BY <1>2, <1>5
<1>7. OfReference(more, r) = <<x>>
  <2>1. OfReference(matches, r) = <<>>
    BY DEF IsTrace
  <2>2. OfReference(more, r) = Append(<<>>, x)
    BY <1>2, <1>5, <2>1
  <2>3. Append(<<>>, x) = <<x>>
    OBVIOUS
  <2>4. QED
    BY <2>2, <2>3
<1> HIDE DEF more
<1>8. IsFound(w, q, r, more)
  BY <1>7 DEF IsFound, x
<1>9. \A t \in done : IsFound(w, q, t, more)
  <2> TAKE t \in done
  <2>1. IsFound(w, q, t, matches) /\ t # r
    BY DEF IsTrace
  <2>2. OfReference(more, t) = OfReference(matches, t)
    BY <1>6, <2>1
  <2>3. QED
    BY <2>1, <2>2 DEF IsFound
<1>10. \A t : t \notin done \cup {r} => OfReference(more, t) = <<>>
  <2> TAKE t
  <2> HAVE t \notin done \cup {r}
  <2>1. OfReference(matches, t) = <<>>
    BY DEF IsTrace
  <2>2. QED
    BY <1>6, <2>1
<1>11. IsTrace(w, q, done \cup {r}, more)
  BY <1>4, <1>8, <1>9, <1>10 DEF IsTrace
<1>12. QED
  BY <1>11 DEF more, x

\* The matches of an answer are those that were found.
LEMMA TraceIsRanked ==
    ASSUME NEW w, NEW q, NEW done, NEW matches, IsTrace(w, q, done, matches)
    PROVE  IsTrace(w, q, done, Ranked(matches))
<1>1. PICK T : matches \in Seq(T) /\ \A z \in T : IsCounted(z)
  BY DEF IsTrace
<1>2. \A r : IsAtMostOne(OfReference(matches, r))
  <2> TAKE r
  <2>1. CASE r \in done
    <3>1. IsFound(w, q, r, matches)
      BY <2>1 DEF IsTrace
    <3>2. PICK y : OfReference(matches, r) =
                  IF q.verb = "discover" /\ y.primaries = <<>> THEN <<>>
                  ELSE <<MatchFrom(w, r, q.evidence, y)>>
      BY <3>1 DEF IsFound
    <3> DEFINE x == MatchFrom(w, r, q.evidence, y)
    <3>3. OfReference(matches, r) = <<>> \/ OfReference(matches, r) = <<x>>
      BY <3>2
    <3> HIDE DEF x
    <3>4. QED
      BY <3>3 DEF IsAtMostOne
  <2>2. CASE r \notin done
    BY <2>2 DEF IsTrace, IsAtMostOne
  <2>3. QED
    BY <2>1, <2>2
<1>3. \A r : OfReference(Ranked(matches), r) = OfReference(matches, r)
  BY <1>1, <1>2, RankedOfReference
<1>4. Ranked(matches) \in Seq(T)
  BY <1>1, <1>2, RankedOfReference
<1>5. \A r \in done : IsFound(w, q, r, Ranked(matches))
  BY <1>3 DEF IsTrace, IsFound
<1>6. \A r : r \notin done => OfReference(Ranked(matches), r) = <<>>
  BY <1>3 DEF IsTrace
<1>7. QED
  BY <1>1, <1>4, <1>5, <1>6 DEF IsTrace

-----------------------------------------------------------------------------
(* The steps keep the trace.                                               *)

\* The present request is of the world.
LEMMA RequestIsOfWorld ==
    ASSUME ControlIsTyped, pc # "idle" \/ script # <<>>
    PROVE  request \in RequestsOf(world)
<1>1. script \in Seq(RequestsOf(world)) /\ script # <<>>
  BY DEF ControlIsTyped
<1>2. QED
  BY <1>1 DEF request

\* Answers stay as they are while none is given.
LEMMA AnswersStay ==
    ASSUME AnswersAreTraced, UNCHANGED <<world, answers>> PROVE AnswersAreTraced'
<1>1. world' = world /\ answers' = answers
  OBVIOUS
<1>2. QED
  BY <1>1, Zenon DEF AnswersAreTraced

\* Nothing is found at first.
LEMMA AskIsTraced ==
    ASSUME PassageInv, Traced, Ask PROVE Traced'
<1>1. /\ pc = "idle" /\ script # <<>> /\ pc' = "next" /\ world' = world /\ script' = script
      /\ found' = found /\ answers' = answers
      /\ todo' = IF request.verb = "passages" THEN request.targets
                 ELSE { r \in request.targets \ Excluded : world.refs[r].segments # <<>> }
  BY DEF Ask
<1>2. request' = request
  BY <1>1 DEF request
<1>3. todo' = Asked(world, request)
  BY <1>1 DEF Asked, Excluded
<1>4. found = <<>>
  BY <1>1 DEF Traced, FindingIsTraced
<1>5. Seen' = {}
  BY <1>1, <1>2, <1>3 DEF Seen
<1>6. IsTrace(world, request, {}, <<>>)
  BY NothingIsTraced
<1>7. IsTrace(world', request', Seen', found')
  BY <1>1, <1>2, <1>4, <1>5, <1>6
<1>8. todo' \subseteq Asked(world', request')
  BY <1>1, <1>2, <1>3
<1>9. FindingIsTraced'
  BY <1>1, <1>7, <1>8 DEF FindingIsTraced
<1>10. WorkIsTraced'
  BY <1>1 DEF WorkIsTraced
<1>11. AnswersAreTraced'
  BY <1>1, AnswersStay DEF Traced
<1>12. QED
  BY <1>9, <1>10, <1>11 DEF Traced

\* The work on a reference begins.
LEMMA OpenIsTraced ==
    ASSUME PassageInv, Traced, NEW r \in todo, Open(r) PROVE Traced'
<1>1. /\ pc = "next" /\ pc' = "stitch" /\ ref' = r /\ todo' = todo \ {r}
      /\ world' = world /\ script' = script /\ waiting' = DOMAIN world.refs[r].segments
      /\ tracks' = <<>> /\ passages' = <<>> /\ pending' = {} /\ primaries' = <<>>
      /\ alternates' = <<>> /\ found' = found /\ answers' = answers
  BY DEF Open
<1>2. request' = request
  BY <1>1 DEF request
<1>3. todo \subseteq Asked(world, request) /\ IsTrace(world, request, Seen, found)
  BY <1>1 DEF Traced, FindingIsTraced
<1>4. Seen' = Seen
  BY <1>1, <1>2 DEF Seen
<1>5. FindingIsTraced'
  <2>1. IsTrace(world', request', Seen', found')
    BY <1>1, <1>2, <1>3, <1>4
  <2>2. todo' \subseteq Asked(world', request')
    BY <1>1, <1>2, <1>3
  <2>3. QED
    BY <1>1, <2>1, <2>2 DEF FindingIsTraced
<1>6. WorkIsTraced'
  <2>1. segments' = world.refs[r].segments
    BY <1>1 DEF segments
  <2>2. Present' = Begun(segments')
    BY <1>1, <2>1 DEF Present, Begun
  <2>3. \A s : ComesOf(s, Begun(s))
    BY WorkBegins
  <2>4. ComesOf(segments', Present')
    BY <2>2, <2>3
  <2>5. ref' \in Asked(world', request') \ todo'
    BY <1>1, <1>2, <1>3
  <2>6. QED
    BY <1>1, <2>4, <2>5 DEF WorkIsTraced, ComesOf, IsWork
<1>7. AnswersAreTraced'
  BY <1>1, AnswersStay DEF Traced
<1>8. QED
  BY <1>5, <1>6, <1>7 DEF Traced

\* What is found stays while a reference is worked on.
LEMMA FindingStays ==
    ASSUME Traced, pc \in {"stitch", "partition"}, pc' \in {"stitch", "partition"},
           UNCHANGED <<world, script, todo, ref, found, answers>>
    PROVE  /\ FindingIsTraced' /\ AnswersAreTraced'
           /\ ref' \in Asked(world, request)' \ todo'
<1>1. /\ world' = world /\ script' = script /\ todo' = todo /\ ref' = ref /\ found' = found
      /\ answers' = answers /\ request' = request
  BY DEF request
<1>2. /\ todo \subseteq Asked(world, request) /\ IsTrace(world, request, Seen, found)
      /\ ref \in Asked(world, request) \ todo
  BY DEF Traced, FindingIsTraced, WorkIsTraced
<1>3. Seen' = Seen
  BY <1>1 DEF Seen
<1>4. IsTrace(world', request', Seen', found')
  BY <1>1, <1>2, <1>3
<1>5. todo' \subseteq Asked(world', request') /\ ref' \in Asked(world', request') \ todo'
  BY <1>1, <1>2
<1>6. FindingIsTraced'
  BY <1>4, <1>5 DEF FindingIsTraced
<1>7. AnswersAreTraced'
  BY <1>1, AnswersStay DEF Traced
<1>8. QED
  BY <1>5, <1>6, <1>7 DEF Asked

\* A segment is placed.
LEMMA PlaceIsTraced ==
    ASSUME PassageInv, Traced, NEW s \in waiting, Place(s) PROVE Traced'
<1>1. /\ pc = "stitch" /\ pc' = pc /\ UNCHANGED <<world, script, todo, ref, found, answers>>
  BY DEF Place
<1>2. /\ FindingIsTraced' /\ AnswersAreTraced' /\ ref' \in Asked(world, request)' \ todo'
  BY <1>1, FindingStays
<1>3. ComesOf(segments, Present)
  BY <1>1 DEF Traced, WorkIsTraced
<1>4. ComesOf(segments, Present)'
  BY <1>3, PlaceIsWork
<1>5. WorkIsTraced'
  BY <1>1, <1>2, <1>4 DEF WorkIsTraced
<1>6. QED
  BY <1>2, <1>5 DEF Traced

\* The passages are built.
LEMMA BuildIsTraced ==
    ASSUME PassageInv, Traced, Build PROVE Traced'
<1>1. /\ pc = "stitch" /\ pc' = "partition" /\ waiting = {}
      /\ UNCHANGED <<world, script, todo, ref, found, answers>>
      /\ passages' = StableSort([n \in DOMAIN tracks |-> PassageOf(tracks[n])], Before)
      /\ DigestsAreNumbers /\ ControlIsTyped /\ TracksAreWhole
  BY DEF Build, PassageInv
<1>2. /\ FindingIsTraced' /\ AnswersAreTraced' /\ ref' \in Asked(world, request)' \ todo'
  BY <1>1, FindingStays
<1>3. ComesOf(segments, Present)
  BY <1>1 DEF Traced, WorkIsTraced
<1>4. ComesOf(segments, Present)'
  BY <1>3, BuildIsWork
<1>5. \A n \in DOMAIN passages' : IsNumbered(passages'[n])
  <2> DEFINE built == StableSort([n \in DOMAIN tracks |-> PassageOf(tracks[n])], Before)
  <2>1. segments \in Seq(Segment) /\ AreTracks(tracks, DOMAIN segments, {})
    BY <1>1, WorldFacts DEF ControlIsTyped, TracksAreWhole
  <2>2. \A n \in DOMAIN built : IsTrue(built[n])
    BY <1>1, <2>1, BuiltPassages
  <2>3. built = passages'
    BY <1>1
  <2> HIDE DEF built
  <2>4. \A n \in DOMAIN built : IsNumbered(built[n])
    BY <2>2 DEF IsTrue
  <2>5. QED
    BY <2>3, <2>4
<1>6. WorkIsTraced'
  BY <1>1, <1>2, <1>4, <1>5 DEF WorkIsTraced
<1>7. QED
  BY <1>2, <1>6 DEF Traced

\* A passage is divided.
LEMMA DivisionIsTraced ==
    ASSUME PassageInv, Traced, PartitionPassages PROVE Traced'
<1>1. /\ pc = "partition" /\ pc' = pc /\ UNCHANGED <<world, script, todo, ref, found, answers>>
  BY DEF PartitionPassages
<1>2. /\ FindingIsTraced' /\ AnswersAreTraced' /\ ref' \in Asked(world, request)' \ todo'
  BY <1>1, FindingStays
<1>3. ComesOf(segments, Present) /\ \A n \in DOMAIN passages : IsNumbered(passages[n])
  BY <1>1 DEF Traced, WorkIsTraced
<1>4. ComesOf(segments, Present)'
  BY <1>3, DivisionIsWork
<1>5. passages' = passages
  BY DEF PartitionPassages, Divide
<1>6. \A n \in DOMAIN passages' : IsNumbered(passages'[n])
  BY <1>3, <1>5
<1>7. WorkIsTraced'
  BY <1>1, <1>2, <1>4, <1>6 DEF WorkIsTraced
<1>8. QED
  BY <1>2, <1>7 DEF Traced

\* The work on a reference is over.
LEMMA CloseIsTraced ==
    ASSUME PassageInv, Traced, Close PROVE Traced'
<1> DEFINE w == world
           q == request
           y == Present
           x == MatchFrom(w, ref, q.evidence, y)
           done == Seen
<1>1. /\ pc = "partition" /\ pending = {} /\ pc' = "next"
      /\ found' = IF request.verb = "discover" /\ primaries = <<>> THEN found
                  ELSE Append(found, MatchOf)
      /\ world' = world /\ script' = script /\ todo' = todo /\ ref' = ref /\ answers' = answers
      /\ DigestsAreNumbers /\ ControlIsTyped /\ IInv
  BY DEF Close, PassageInv
<1>2. request' = request
  BY <1>1 DEF request
<1>3. /\ todo \subseteq Asked(w, q) /\ IsTrace(w, q, done, found)
      /\ ref \in Asked(w, q) \ todo /\ ComesOf(w.refs[ref].segments, y)
      /\ \A n \in DOMAIN passages : IsNumbered(passages[n])
  BY <1>1 DEF Traced, FindingIsTraced, WorkIsTraced, segments
<1>4. /\ y.primaries = primaries /\ y.passages = passages /\ y.pc = pc /\ y.pending = pending
  BY DEF Present
<1>5. IsOver(y)
  BY <1>1, <1>4 DEF IsOver
<1>6. y.primaries \in Seq(DOMAIN y.passages)
  BY <1>1, <1>4 DEF IInv, PassagesAreTyped
<1>e. EndsAs(w.refs[ref].segments, y)
  BY <1>3, <1>5, <1>6 DEF EndsAs
<1>7. MatchOf = x
  BY MatchIsFromWork
<1>8. IsCounted(x)
  <2>1. x.hits \in Int /\ x.seconds \in Int
    BY <1>1, <1>3, <1>4, <1>6, MatchIsCounted
  <2>2. x.ref = ref
    BY DEF MatchFrom
  <2>3. ref \in Int
    <3>1. ref \in DOMAIN world.refs /\ world \in Worlds
      BY <1>1 DEF ControlIsTyped
    <3>2. QED
      BY <3>1, WorldsAssumption
  <2>4. QED
    BY <2>1, <2>2, <2>3 DEF IsCounted
<1>9. ref \notin done /\ Seen' = done \cup {ref}
  BY <1>1, <1>2, <1>3 DEF Seen
<1> HIDE DEF x, y, done
<1>10. IsTrace(w, q, done \cup {ref}, found')
  <2>1. CASE q.verb = "discover" /\ y.primaries = <<>>
    <3>1. IsTrace(w, q, done \cup {ref}, found)
      BY <1>3, <1>e, <1>9, <2>1, NothingMore
    <3>2. QED
      BY <1>1, <1>4, <2>1, <3>1
  <2>2. CASE ~(q.verb = "discover" /\ y.primaries = <<>>)
    <3>1. IsTrace(w, q, done \cup {ref}, Append(found, x))
      BY <1>3, <1>e, <1>8, <1>9, <2>2, OneTraceMore DEF x
    <3>2. QED
      BY <1>1, <1>4, <1>7, <2>2, <3>1
  <2>3. QED
    BY <2>1, <2>2
<1>11. FindingIsTraced'
  <2>1. IsTrace(world', request', Seen', found')
    BY <1>1, <1>2, <1>9, <1>10
  <2>2. todo' \subseteq Asked(world', request')
    BY <1>1, <1>2, <1>3
  <2>3. QED
    BY <1>1, <2>1, <2>2 DEF FindingIsTraced
<1>12. WorkIsTraced'
  BY <1>1 DEF WorkIsTraced
<1>13. AnswersAreTraced'
  BY <1>1, AnswersStay DEF Traced
<1>14. QED
  BY <1>11, <1>12, <1>13 DEF Traced

\* The answer has all that was found.
LEMMA AnswerIsTraced ==
    ASSUME PassageInv, Traced, Answer PROVE Traced'
<1> DEFINE new == [request |-> request, matches |-> Ranked(found)]
<1>1. /\ pc = "next" /\ todo = {} /\ pc' = "idle" /\ world' = world /\ found' = <<>>
      /\ answers' = Append(answers, new) /\ ControlIsTyped
  BY DEF Answer, PassageInv
<1>2. Seen = Asked(world, request)
  BY <1>1 DEF Seen
<1>3. IsTrace(world, request, Asked(world, request), Ranked(found))
  BY <1>1, <1>2, TraceIsRanked DEF Traced, FindingIsTraced
<1>4. request \in RequestsOf(world)
  BY <1>1, RequestIsOfWorld
<1>5. new.request = request /\ new.matches = Ranked(found)
  OBVIOUS
<1> HIDE DEF new
<1>6. AnswersAreTraced'
  <2>0. PICK T : answers \in Seq(T)
    BY DEF Traced, AnswersAreTraced
  <2>1. /\ Len(answers) \in Nat /\ DOMAIN answers = 1 .. Len(answers)
        /\ DOMAIN answers' = 1 .. Len(answers) + 1 /\ answers'[Len(answers) + 1] = new
        /\ \A n \in 1 .. Len(answers) : answers'[n] = answers[n]
        /\ answers' \in Seq(T \cup {new})
    BY <1>1, <2>0
  <2>2. ASSUME NEW n \in DOMAIN answers'
        PROVE  /\ answers'[n].request \in RequestsOf(world)
               /\ IsTrace(world, answers'[n].request, Asked(world, answers'[n].request),
                          answers'[n].matches)
    <3>1. CASE n = Len(answers) + 1
      BY <1>3, <1>4, <1>5, <2>1, <3>1
    <3>2. CASE n # Len(answers) + 1
      <4>1. n \in DOMAIN answers /\ answers'[n] = answers[n]
        BY <2>1, <2>2, <3>2
      <4>2. QED
        BY <4>1 DEF Traced, AnswersAreTraced
    <3>3. QED
      BY <3>1, <3>2
  <2>3. QED
    BY <1>1, <2>1, <2>2, Zenon DEF AnswersAreTraced
<1>7. FindingIsTraced' /\ WorkIsTraced'
  BY <1>1 DEF FindingIsTraced, WorkIsTraced
<1>8. QED
  BY <1>6, <1>7 DEF Traced

\* Nothing has been asked.
LEMMA InitIsTraced == Init => Traced
<1> SUFFICES ASSUME Init PROVE Traced
  OBVIOUS
<1>1. pc = "idle" /\ found = <<>> /\ answers = <<>>
  BY DEF Init
<1>2. << >> \in Seq({}) /\ DOMAIN << >> = {}
  OBVIOUS
<1>3. AnswersAreTraced
  BY <1>1, <1>2 DEF AnswersAreTraced
<1>4. QED
  BY <1>1, <1>3 DEF Traced, FindingIsTraced, WorkIsTraced

\* Nothing changes.
LEMMA TraceStays ==
    ASSUME Traced, UNCHANGED vars PROVE Traced'
<1>1. /\ world' = world /\ script' = script /\ pc' = pc /\ todo' = todo /\ ref' = ref
      /\ found' = found /\ answers' = answers /\ waiting' = waiting /\ tracks' = tracks
      /\ passages' = passages /\ pending' = pending /\ primaries' = primaries
      /\ alternates' = alternates
  BY DEF vars, pair, partition_vars
<1>2. request' = request /\ segments' = segments /\ Present' = Present /\ Seen' = Seen
  BY <1>1 DEF request, segments, Present, Seen
<1>3. AnswersAreTraced'
  BY <1>1, AnswersStay DEF Traced
<1>4. FindingIsTraced'
  <2>1. FindingIsTraced
    BY DEF Traced
  <2>2. QED
    BY <1>1, <1>2, <2>1 DEF FindingIsTraced
<1>5. WorkIsTraced'
  <2>1. WorkIsTraced
    BY DEF Traced
  <2>2. ASSUME pc \in {"stitch", "partition"}
        PROVE  ref' \in Asked(world', request') \ todo' /\ ComesOf(segments', Present')
    BY <1>1, <1>2, <2>1, <2>2 DEF WorkIsTraced
  <2>3. QED
    BY <1>1, <2>1, <2>2 DEF WorkIsTraced
<1>6. QED
  BY <1>3, <1>4, <1>5 DEF Traced

\* What is found and answered comes of the work on each pair, always.
THEOREM MatchesAreTraced == DigestsAreNumbers /\ Spec => []Traced
<1>1. Init => Traced
  BY InitIsTraced
<1>2. PassageInv /\ Traced /\ [Next]_vars => Traced'
  <2> SUFFICES ASSUME PassageInv, Traced, [Next]_vars PROVE Traced'
    OBVIOUS
  <2>1. CASE Ask
    BY <2>1, AskIsTraced
  <2>2. CASE \E r \in todo : Open(r)
    BY <2>2, OpenIsTraced
  <2>3. CASE \E s \in waiting : Place(s)
    BY <2>3, PlaceIsTraced
  <2>4. CASE Build
    BY <2>4, BuildIsTraced
  <2>5. CASE PartitionPassages
    BY <2>5, DivisionIsTraced
  <2>6. CASE Close
    BY <2>6, CloseIsTraced
  <2>7. CASE Answer
    BY <2>7, AnswerIsTraced
  <2>8. CASE Done \/ UNCHANGED vars
    BY <2>8, TraceStays DEF Done
  <2>9. QED
    BY <2>1, <2>2, <2>3, <2>4, <2>5, <2>6, <2>7, <2>8 DEF Next
<1>3. QED
  BY <1>1, <1>2, PassageInvariant, PTL DEF Spec

-----------------------------------------------------------------------------
(* The answers of requests for pairs and of discoveries.                   *)

IsPairAnswer(w, q, r, matches) ==
    q.verb = "passages" /\ q.targets = {r} /\ IsTrace(w, q, Asked(w, q), matches)

IsMatch(w, r, evidence, match) ==
    \E y : EndsAs(w.refs[r].segments, y) /\ match = MatchFrom(w, r, evidence, y)

\* What a discovery says of a reference and what the request for its pair says.
Agrees(w, d, r, match, of_r) ==
    IF r \notin d.targets \ ({w.key} \cup d.exclude) \/ match.passages = <<>>
    THEN of_r = <<>>
    ELSE Len(of_r) = 1 /\ Plain(of_r[1]) = Plain(match)

\* The answer for a pair is the match of its reference.
LEMMA PairIsAnswered ==
    ASSUME NEW w, NEW q, NEW r, NEW matches, IsPairAnswer(w, q, r, matches)
    PROVE  IsMatch(w, r, q.evidence, matches[1])
<1>1. Asked(w, q) = {r} /\ q.verb = "passages" /\ IsTrace(w, q, {r}, matches)
  BY DEF IsPairAnswer, Asked
<1>2. PICK T : matches \in Seq(T)
  BY <1>1 DEF IsTrace
<1>3. \A t : t # r => OfReference(matches, t) = <<>>
  BY <1>1 DEF IsTrace
<1>4. \A i \in DOMAIN matches : matches[i].ref = r
  <2> SUFFICES ASSUME NEW i \in DOMAIN matches, matches[i].ref # r PROVE FALSE
    OBVIOUS
  <2> DEFINE t == matches[i].ref
  <2>1. OfReference(matches, t) = <<>>
    BY <1>3
  <2>2. \A j \in DOMAIN matches : matches[j].ref # t
    BY <1>2, <2>1, NoneOfReference
  <2>3. QED
    BY <2>2
<1>5. OfReference(matches, r) = matches
  BY <1>2, <1>4, AllOfReference
<1>6. IsFound(w, q, r, matches)
  BY <1>1 DEF IsTrace
<1>7. PICK y : /\ EndsAs(w.refs[r].segments, y)
               /\ OfReference(matches, r) = <<MatchFrom(w, r, q.evidence, y)>>
  BY <1>1, <1>6 DEF IsFound
<1>8. matches[1] = MatchFrom(w, r, q.evidence, y)
  BY <1>5, <1>7
<1>9. QED
  BY <1>7, <1>8 DEF IsMatch

\* A discovery answers with that of a pair, or with nothing for one without
\* passages.
LEMMA PairIsDiscovered ==
    ASSUME NEW w, NEW d, NEW r, NEW evidence, NEW match, IsMatch(w, r, evidence, match),
           NEW all, d.verb = "discover", IsTrace(w, d, Asked(w, d), all)
    PROVE  Agrees(w, d, r, match, OfReference(all, r))
<1> DEFINE of_r == OfReference(all, r)
<1>1. PICK y : /\ EndsAs(w.refs[r].segments, y)
               /\ match = MatchFrom(w, r, evidence, y)
  BY DEF IsMatch
<1>2. match.passages = <<>> <=> y.primaries = <<>>
  BY <1>1, NoPrimaries DEF EndsAs
<1> HIDE DEF of_r
<1>3. r \in Asked(w, d) <=> /\ r \in d.targets \ ({w.key} \cup d.exclude)
                           /\ w.refs[r].segments # <<>>
  BY DEF Asked
<1> SUFFICES Agrees(w, d, r, match, of_r)
  BY DEF of_r
<1>4. CASE r \notin Asked(w, d)
  <2>1. of_r = <<>>
    BY <1>4 DEF IsTrace, of_r
  <2>2. CASE w.refs[r].segments = <<>>
    <3>1. y.primaries = <<>>
      BY <1>1, <2>2, NothingOfNothing DEF EndsAs
    <3>2. QED
      BY <1>2, <2>1, <3>1 DEF Agrees
  <2>3. CASE w.refs[r].segments # <<>>
    BY <1>3, <1>4, <2>1, <2>3 DEF Agrees
  <2>4. QED
    BY <2>2, <2>3
<1>5. CASE r \in Asked(w, d)
  <2>1. PICK z : /\ EndsAs(w.refs[r].segments, z)
                 /\ of_r = IF z.primaries = <<>> THEN <<>>
                           ELSE <<MatchFrom(w, r, d.evidence, z)>>
    BY <1>5 DEF IsTrace, IsFound, of_r
  <2>2. z = y
    BY <1>1, <2>1, WorkIsUnique DEF EndsAs
  <2>3. CASE y.primaries = <<>>
    BY <1>2, <2>1, <2>2, <2>3 DEF Agrees
  <2>4. CASE y.primaries # <<>>
    <3> DEFINE x == MatchFrom(w, r, d.evidence, y)
    <3>1. of_r = <<x>>
      BY <2>1, <2>2, <2>4
    <3>2. Plain(x) = Plain(match)
      BY <1>1, PlainlyTheSame
    <3> HIDE DEF x
    <3>3. Len(<<x>>) = 1 /\ <<x>>[1] = x
      OBVIOUS
    <3>4. Len(of_r) = 1 /\ Plain(of_r[1]) = Plain(match)
      BY <3>1, <3>2, <3>3
    <3>5. QED
      BY <1>2, <1>3, <1>5, <2>4, <3>4 DEF Agrees
  <2>5. QED
    BY <2>3, <2>4
<1>6. QED
  BY <1>4, <1>5

LEMMA TracesArePairs == Traced => DiscoveryIsPairs
<1> SUFFICES ASSUME Traced, NEW m \in DOMAIN answers, NEW n \in DOMAIN answers,
                    answers[m].request.verb = "passages", answers[n].request.verb = "discover"
             PROVE  LET pairs == answers[m]
                        all == answers[n]
                        r == CHOOSE t \in pairs.request.targets : TRUE
                        of_r == OfReference(all.matches, r)
                    IN  IF \/ r \notin all.request.targets \ ({world.key} \cup all.request.exclude)
                           \/ pairs.matches[1].passages = <<>>
                        THEN of_r = <<>>
                        ELSE Len(of_r) = 1 /\ Plain(of_r[1]) = Plain(pairs.matches[1])
  BY DEF DiscoveryIsPairs
<1> DEFINE q == answers[m].request
           d == answers[n].request
           r == CHOOSE t \in q.targets : TRUE
<1>1. /\ q \in RequestsOf(world) /\ IsTrace(world, q, Asked(world, q), answers[m].matches)
      /\ IsTrace(world, d, Asked(world, d), answers[n].matches)
  BY DEF Traced, AnswersAreTraced
<1>2. q.targets = {r}
  <2>1. \E t \in q.targets : q.targets = {t}
    BY <1>1 DEF RequestsOf
  <2>2. QED
    BY <2>1
<1>3. q.verb = "passages" /\ d.verb = "discover"
  OBVIOUS
<1> HIDE DEF r, q, d
<1>4. IsPairAnswer(world, q, r, answers[m].matches)
  BY <1>1, <1>2, <1>3 DEF IsPairAnswer
<1>5. IsMatch(world, r, q.evidence, answers[m].matches[1])
  BY <1>4, PairIsAnswered
<1>6. Agrees(world, d, r, answers[m].matches[1], OfReference(answers[n].matches, r))
  BY <1>1, <1>3, <1>5, PairIsDiscovered
<1>7. QED
  BY <1>6, Zenon DEF Agrees, r, q, d

\* Discovery is exhaustive and adds nothing: it answers for each reference what
\* the request for the pair answers (discover_passages_between).
THEOREM DiscoveryStaysPairs == DigestsAreNumbers /\ Spec => []DiscoveryIsPairs
BY MatchesAreTraced, TracesArePairs, PTL
=============================================================================
