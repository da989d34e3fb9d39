----------------------------- MODULE QueryProofs -----------------------------
(***************************************************************************)
(* The queries over any stores, any scripts and any constants of the       *)
(* voter.                                                                  *)
(*                                                                         *)
(* First the vote: what the lists of the voter hold, that the hits of an   *)
(* accepted line are all those on it, and so that what is left of a cloud  *)
(* is what is on none.  Then the requests: their types, and that a task's  *)
(* lines and the hits left are together the hits it began with, of which   *)
(* every round that accepts a line leaves fewer.  Last the regions: the    *)
(* probe is in the order of its times, so the prints between two bins are  *)
(* a part of it, and parts that meet make one; the conversions of the      *)
(* window to bins make these the prints of the window, its edges rounded.  *)
(*                                                                         *)
(* Then the trace of every answer: a chain of regions that were cut and,   *)
(* for each task, a chain of rounds.  Each link follows from the one       *)
(* before, so an answer is a function of the stores and of the request,    *)
(* and answers to requests that are alike can be compared link by link.    *)
(***************************************************************************)
EXTENDS Query, SharedLemmas

-----------------------------------------------------------------------------
(* The vote.                                                               *)

\* What the voter's lists hold.
Hits == [q : Nat, ref : Nat, original : Nat, matched : Nat, tune : BOOLEAN]

\* The order of the query times does not tell the hits of one time apart.
LEMMA QueryTimesAreOrder ==
    ASSUME NEW hits \in Seq(Hits)
    PROVE  /\ ByQueryTime(hits) \in Seq(Hits)
           /\ \E place : IsReordered(ByQueryTime(hits), hits, place)
<1> DEFINE n == Len(hits)
           before == { p \in (1 .. n) \X (1 .. n) : hits[p[1]].q < hits[p[2]].q }
           sorted == ByRank(hits, Ranks(n, before))
<1>1. n \in Nat /\ \A i \in 1 .. n : hits[i].q \in Nat
  <2>1. \A i \in 1 .. n : hits[i] \in Hits
    BY ElementOfSeq
  <2>2. QED
    BY <2>1 DEF Hits
<1>2. \A i, j \in 1 .. n : <<i, j>> \in before <=> hits[i].q < hits[j].q
  OBVIOUS
<1>3. ByQueryTime(hits) = sorted
  BY DEF ByQueryTime, StableSort
<1> HIDE DEF before
<1>4. IsOrder(n, before)
  <2>1. \A i \in 1 .. n : <<i, i>> \notin before
    BY <1>1, <1>2
  <2>2. \A i, j, k \in 1 .. n : <<i, j>> \in before /\ <<j, k>> \in before => <<i, k>> \in before
    BY <1>1, <1>2
  <2>3. \A i, j, k \in 1 .. n : <<i, k>> \in before => <<i, j>> \in before \/ <<j, k>> \in before
    BY <1>1, <1>2
  <2>4. QED
    BY <2>1, <2>2, <2>3 DEF IsOrder
<1>5. /\ sorted \in Seq(Hits) /\ Len(sorted) = n
      /\ \E place : IsSorting(place, n, before) /\ \A k \in 1 .. n : sorted[k] = hits[place[k]]
  BY <1>4, SortingIsPermutation
<1> HIDE DEF sorted
<1>6. PICK place : IsSorting(place, n, before) /\ \A k \in 1 .. n : sorted[k] = hits[place[k]]
  BY <1>5
<1>7. IsReordered(sorted, hits, place)
  BY <1>5, <1>6 DEF IsReordered, IsSorting
<1>8. QED
  BY <1>3, <1>5, <1>7

\* The hits of an accepted line: those that are on one line, and none else.
IsVoted(v, hits, line) ==
    /\ v \in Seq(Hits)
    /\ \A k \in 1 .. Len(v) : OnLine(v[k], line) /\ \E i \in 1 .. Len(hits) : v[k] = hits[i]
    /\ \A i \in 1 .. Len(hits) : OnLine(hits[i], line) => \E k \in 1 .. Len(v) : v[k] = hits[i]
    /\ \A P : CountIn(v, P) =
           Cardinality({ i \in 1 .. Len(hits) : OnLine(hits[i], line) /\ hits[i] \in P })

LEMMA VoteIsOnLine ==
    ASSUME NEW hits \in Seq(Hits), Vote(hits) # <<>>
    PROVE  \E line : IsVoted(Vote(hits), hits, line)
<1> DEFINE sorted == ByQueryTime(hits)
           line == Line(sorted)
           n == Len(hits)
           On == { i \in 1 .. n : OnLine(sorted[i], line) }
           kept == ElementsAt(sorted, On)
<1>1. sorted \in Seq(Hits) /\ \E place : IsReordered(sorted, hits, place)
  BY QueryTimesAreOrder
<1> HIDE DEF sorted
<1>2. PICK place : IsReordered(sorted, hits, place)
  BY <1>1
<1>3. /\ n \in Nat /\ Len(sorted) = n /\ DOMAIN sorted = 1 .. n
      /\ \A k \in 1 .. n : place[k] \in 1 .. n /\ sorted[k] = hits[place[k]]
      /\ \A k, l \in 1 .. n : place[k] = place[l] => k = l
      /\ \A i \in 1 .. n : \E k \in 1 .. n : place[k] = i
  <2>1. DOMAIN sorted = 1 .. Len(sorted) /\ n \in Nat
    BY <1>1
  <2>2. Len(sorted) = n
    BY <1>2 DEF IsReordered
  <2>3. QED
    BY <1>2, <2>1, <2>2 DEF IsReordered
<1>4. Vote(hits) = kept
  <2>1. On = { i \in DOMAIN sorted : OnLine(sorted[i], line) }
    BY <1>3
  <2>2. Vote(hits) \in {kept, <<>>}
    BY <2>1 DEF Vote, Selected, sorted
  <2>3. QED
    BY <2>2
<1>5. /\ kept \in Seq(Hits)
      /\ \E at : IsSelection(at, n, On, sorted, kept)
  <2>1. \A i \in 1 .. Len(sorted) : i \in On => sorted[i] \in Hits
    BY <1>1, ElementOfSeq
  <2> HIDE DEF On
  <2>2. QED
    BY <1>3, <2>1, ElementsAtAreElements
<1>6. PICK at : IsSelection(at, n, On, sorted, kept)
  BY <1>5
<1> HIDE DEF kept, line
<1>7. ASSUME NEW P
      PROVE  CountIn(kept, P) = Cardinality({ i \in 1 .. n : OnLine(hits[i], line) /\ hits[i] \in P })
  <2> DEFINE A == { k \in On : sorted[k] \in P }
             B == { i \in 1 .. n : OnLine(hits[i], line) /\ hits[i] \in P }
  <2>1. CountIn(kept, P) = Cardinality(A)
    <3>1. On \in SUBSET (1 .. n) /\ n \in Nat
      BY <1>3
    <3>2. Len(kept) \in Nat
      BY <1>5
    <3> HIDE DEF On, n
    <3>3. QED
      BY <1>5, <1>6, <3>1, <3>2, CountOfSelection
  <2>2. IsFiniteSet(A)
    <3>1. IsFiniteSet(1 .. n)
      BY <1>3, FS_Interval
    <3>2. A \subseteq 1 .. n
      OBVIOUS
    <3>3. QED
      BY <3>1, <3>2, FS_Subset
  <2>3. \A k \in A : place[k] \in B
    BY <1>3
  <2>4. \A k, l \in A : place[k] = place[l] => k = l
    BY <1>3
  <2>5. ASSUME NEW i \in B PROVE \E k \in A : place[k] = i
    <3>1. PICK k \in 1 .. n : place[k] = i
      BY <1>3
    <3>2. sorted[k] = hits[i]
      BY <1>3, <3>1
    <3>3. QED
      BY <3>1, <3>2
  <2> HIDE DEF A, B
  <2>6. Cardinality(B) = Cardinality(A)
    BY <2>2, <2>3, <2>4, <2>5, OneToOne
  <2>7. QED
    BY <2>1, <2>6 DEF B
<1>8. \A k \in 1 .. Len(kept) : at[k] \in On /\ kept[k] = sorted[at[k]]
  BY <1>6 DEF IsSelection
<1>9. ASSUME NEW k \in 1 .. Len(kept)
      PROVE  OnLine(kept[k], line) /\ \E i \in 1 .. n : kept[k] = hits[i]
  <2>1. at[k] \in 1 .. n /\ OnLine(kept[k], line) /\ kept[k] = sorted[at[k]]
    BY <1>8
  <2>2. place[at[k]] \in 1 .. n /\ sorted[at[k]] = hits[place[at[k]]]
    BY <1>3, <2>1
  <2>3. QED
    BY <2>1, <2>2
<1>10. ASSUME NEW i \in 1 .. n, OnLine(hits[i], line) PROVE \E k \in 1 .. Len(kept) : kept[k] = hits[i]
  <2>1. PICK l \in 1 .. n : place[l] = i
    BY <1>3
  <2>2. sorted[l] = hits[i] /\ l \in On
    BY <1>3, <1>10, <2>1
  <2>3. PICK k \in 1 .. Len(kept) : at[k] = l
    BY <1>6, <2>2 DEF IsSelection
  <2>4. QED
    BY <1>8, <2>2, <2>3
<1>11. IsVoted(kept, hits, line)
  BY <1>5, <1>7, <1>9, <1>10 DEF IsVoted
<1>12. QED
  BY <1>4, <1>11

\* Hits with one key are on the same lines.
LEMMA KeysShareLines ==
    ASSUME NEW g, NEW h, Key(g) = Key(h), NEW line
    PROVE  OnLine(g, line) <=> OnLine(h, line)
<1>1. g.q = h.q /\ g.ref = h.ref
  BY DEF Key
<1>2. QED
  BY <1>1 DEF OnLine, Delta

\* What is left is what is on no line that was accepted, and with the hits of
\* the line it makes up all of the hits.
LEMMA RemainingIsTheRest ==
    ASSUME NEW hits \in Seq(Hits), NEW v, NEW line, IsVoted(v, hits, line)
    PROVE  /\ Remaining(hits, v) \in Seq(Hits)
           /\ \A P : CountIn(v, P) + CountIn(Remaining(hits, v), P) = CountIn(hits, P)
<1> DEFINE n == Len(hits)
           m == Len(v)
           Off == { i \in 1 .. n : ~OnLine(hits[i], line) }
           Upto(i, key) == { j \in 1 .. i : Key(hits[j]) = key }
           Voted(key) == { k \in 1 .. m : Key(v[k]) = key }
           Same(key) == { h \in Hits : Key(h) = key }
           chosen == { i \in DOMAIN hits :
                         Cardinality(Upto(i, Key(hits[i]))) > Cardinality(Voted(Key(hits[i]))) }
<1>1. /\ n \in Nat /\ m \in Nat /\ DOMAIN hits = 1 .. n
      /\ \A i \in 1 .. n : hits[i] \in Hits
      /\ v \in Seq(Hits) /\ \A k \in 1 .. m : v[k] \in Hits
  <2>1. v \in Seq(Hits)
    BY DEF IsVoted
  <2>2. QED
    BY <2>1, ElementOfSeq
<1>2. \A key : IsFiniteSet(Voted(key)) /\ Cardinality(Voted(key)) \in Nat
  <2>1. IsFiniteSet(1 .. m)
    BY <1>1, FS_Interval
  <2>2. QED
    BY <2>1, FS_Subset, FS_CardinalityType
<1>3. \A i \in 1 .. n : \A key : IsFiniteSet(Upto(i, key)) /\ Cardinality(Upto(i, key)) \in Nat
  <2>1. \A i \in 1 .. n : IsFiniteSet(1 .. i)
    BY <1>1, FS_Interval
  <2>2. QED
    BY <2>1, FS_Subset, FS_CardinalityType
<1>4. ASSUME NEW key
      PROVE  Cardinality(Voted(key)) =
                 Cardinality({ i \in 1 .. n : OnLine(hits[i], line) /\ Key(hits[i]) = key })
  <2>1. CountIn(v, Same(key)) =
            Cardinality({ i \in 1 .. n : OnLine(hits[i], line) /\ hits[i] \in Same(key) })
    BY Zenon DEF IsVoted
  <2>2. { k \in 1 .. m : v[k] \in Same(key) } = Voted(key)
    BY <1>1
  <2>3. { i \in 1 .. n : OnLine(hits[i], line) /\ hits[i] \in Same(key) }
        = { i \in 1 .. n : OnLine(hits[i], line) /\ Key(hits[i]) = key }
    BY <1>1
  <2>4. QED
    BY <2>1, <2>2, <2>3 DEF CountIn
<1>5. ASSUME NEW i \in 1 .. n PROVE i \in chosen <=> i \in Off
  <2> DEFINE key == Key(hits[i])
             All == { j \in 1 .. n : OnLine(hits[j], line) /\ Key(hits[j]) = key }
  <2>1. i \in Upto(i, key) /\ Upto(i, key) \subseteq 1 .. n
    BY <1>1
  <2>2. i \in chosen <=> Cardinality(Upto(i, key)) > Cardinality(Voted(key))
    BY <1>1
  <2>3. Cardinality(Voted(key)) = Cardinality(All) /\ IsFiniteSet(All)
    <3>1. IsFiniteSet(1 .. n)
      BY <1>1, FS_Interval
    <3>2. IsFiniteSet(All)
      BY <3>1, FS_Subset
    <3>3. QED
      BY <1>4, <3>2
  <2>4. CASE OnLine(hits[i], line)
    <3>1. \A j \in Upto(i, key) : OnLine(hits[j], line)
      BY <2>4, KeysShareLines
    <3>2. Upto(i, key) \subseteq All
      BY <2>1, <3>1
    <3> HIDE DEF All, Upto
    <3>3. Cardinality(Upto(i, key)) <= Cardinality(All)
      BY <2>3, <3>2, FS_Subset
    <3> HIDE DEF key, Voted, chosen
    <3>4. Cardinality(Upto(i, key)) \in Nat /\ Cardinality(Voted(key)) \in Nat
      BY <1>2, <1>3
    <3>5. i \notin chosen
      BY <2>2, <2>3, <3>3, <3>4
    <3>6. QED
      BY <2>4, <3>5
  <2>5. CASE ~OnLine(hits[i], line)
    <3>1. \A j \in 1 .. n : Key(hits[j]) = key => ~OnLine(hits[j], line)
      BY <2>5, KeysShareLines
    <3>2. All = {}
      BY <3>1
    <3> HIDE DEF All, Upto
    <3>3. Cardinality(Voted(key)) = 0
      BY <2>3, <3>2, FS_EmptySet
    <3>4. Cardinality(Upto(i, key)) # 0 /\ Cardinality(Upto(i, key)) \in Nat
      BY <1>3, <2>1, FS_EmptySet
    <3> HIDE DEF key, Voted, chosen
    <3>5. i \in chosen
      BY <2>2, <3>3, <3>4
    <3>6. QED
      BY <2>5, <3>5
  <2>6. QED
    BY <2>4, <2>5
<1>6. chosen = Off
  <2>1. \A i : i \in chosen => i \in 1 .. n
    BY <1>1
  <2>2. \A i : i \in Off => i \in 1 .. n
    OBVIOUS
  <2> HIDE DEF chosen, Off
  <2>3. QED
    BY <1>5, <2>1, <2>2
<1>7. Remaining(hits, v) = ElementsAt(hits, chosen)
  BY DEF Remaining
<1>8. Remaining(hits, v) = ElementsAt(hits, Off)
  BY <1>6, <1>7
<1> HIDE DEF chosen, Upto, Voted, Same
<1>9. /\ ElementsAt(hits, Off) \in Seq(Hits)
      /\ \E at : IsSelection(at, n, Off, hits, ElementsAt(hits, Off))
  <2> HIDE DEF Off
  <2>1. QED
    BY <1>1, ElementsAtAreElements
<1>10. ASSUME NEW P
       PROVE  CountIn(v, P) + CountIn(Remaining(hits, v), P) = CountIn(hits, P)
  <2> DEFINE A == { i \in 1 .. n : OnLine(hits[i], line) /\ hits[i] \in P }
             B == { i \in Off : hits[i] \in P }
             C == { i \in 1 .. n : hits[i] \in P }
  <2>1. CountIn(v, P) = Cardinality(A)
    BY Zenon DEF IsVoted
  <2>2. CountIn(Remaining(hits, v), P) = Cardinality(B)
    <3>1. Off \in SUBSET (1 .. n)
      OBVIOUS
    <3> HIDE DEF Off
    <3>2. PICK at : IsSelection(at, n, Off, hits, ElementsAt(hits, Off))
      BY <1>9
    <3>3. Len(ElementsAt(hits, Off)) \in Nat
      BY <1>9
    <3> HIDE DEF n
    <3>4. CountIn(ElementsAt(hits, Off), P) = Cardinality(B)
      <4> DEFINE rest == ElementsAt(hits, Off)
      <4>1. Len(rest) \in Nat /\ IsSelection(at, n, Off, hits, rest) /\ n \in Nat
        BY <1>1, <3>3, <3>2
      <4> HIDE DEF rest
      <4>2. CountIn(rest, P) = Cardinality({ i \in Off : hits[i] \in P })
        BY <3>1, <4>1, CountOfSelection
      <4>3. QED
        BY <4>2 DEF rest
    <3>5. QED
      BY <1>8, <3>4
  <2>3. CountIn(hits, P) = Cardinality(C)
    BY DEF CountIn
  <2>4. A \cup B = C /\ A \cap B = {}
    OBVIOUS
  <2>5. IsFiniteSet(A) /\ IsFiniteSet(B)
    <3>1. IsFiniteSet(1 .. n)
      BY <1>1, FS_Interval
    <3>2. A \subseteq 1 .. n /\ B \subseteq 1 .. n
      OBVIOUS
    <3>3. QED
      BY <3>1, <3>2, FS_Subset
  <2> HIDE DEF A, B, C
  <2>6. Cardinality(C) = Cardinality(A) + Cardinality(B) - Cardinality(A \cap B)
    BY <2>4, <2>5, FS_Union
  <2>7. Cardinality(A \cap B) = 0 /\ Cardinality(A) \in Nat /\ Cardinality(B) \in Nat
    BY <2>4, <2>5, FS_EmptySet, FS_CardinalityType
  <2>8. QED
    BY <2>1, <2>2, <2>3, <2>6, <2>7
<1>11. QED
  BY <1>8, <1>9, <1>10

\* Doubling the size of a table reaches every number of entries.
LEMMA CapacityIsPositive ==
    ASSUME NEW entries \in Nat
    PROVE  TableCapacity(entries) \in Nat \ {0}
<1> DEFINE IsDoubled(t) == t = [n \in 0 .. entries |-> IF n = 0 THEN TableSize ELSE 2 * t[n - 1]]
           V == [n \in 0 .. entries |-> { c \in Nat : c >= 1 /\ c >= 2 * n }]
           step == [n \in 0 .. entries |-> [c \in Nat |-> 2 * c]]
           doubled == CHOOSE t : IsDoubled(t)
           fit == { c \in { doubled[n] : n \in 0 .. entries } : entries <= (c * 3) \div 4 }
<1>1. TableSize \in Nat /\ TableSize >= 1
  BY VoterAssumption
<1>2. \A n \in 0 .. entries : \A c : c \in V[n] <=> c \in Nat /\ c >= 1 /\ c >= 2 * n
  OBVIOUS
<1>3. \A n \in 0 .. entries : \A c \in Nat : step[n][c] = 2 * c
  OBVIOUS
<1>4. 0 \in Int /\ entries \in Int /\ 0 \in 0 .. entries /\ entries \in 0 .. entries
  OBVIOUS
<1>5. \A n \in 0 + 1 .. entries : n \in 0 .. entries /\ n - 1 \in 0 .. entries /\ n # 0 /\ n >= 1 /\ n \in Nat
  OBVIOUS
<1>6. TableCapacity(entries) = Min(fit)
  BY DEF TableCapacity
<1> HIDE DEF V, step, doubled
<1>7. ASSUME NEW n \in 0 + 1 .. entries, NEW c \in V[n - 1]
      PROVE  2 * c \in V[n] /\ step[n][c] = 2 * c
  <2>1. n \in 0 .. entries /\ n - 1 \in 0 .. entries /\ n >= 1 /\ n \in Nat
    BY <1>5
  <2>2. c \in Nat /\ c >= 1 /\ c >= 2 * (n - 1)
    BY <1>2, <2>1
  <2>3. 2 * c \in Nat /\ 2 * c >= 1 /\ 2 * c >= 2 * n
    BY <2>1, <2>2
  <2>4. QED
    BY <1>2, <1>3, <2>1, <2>2, <2>3
<1>8. TableSize \in V[0]
  BY <1>1, <1>2, <1>4
<1>9. \A n \in 0 + 1 .. entries : \A c \in V[n - 1] : step[n][c] \in V[n]
  <2> TAKE n \in 0 + 1 .. entries
  <2> TAKE c \in V[n - 1]
  <2>1. 2 * c \in V[n] /\ step[n][c] = 2 * c
    BY <1>7
  <2>2. QED
    BY <2>1
<1>10. PICK k : IsRecursion(k, 0, entries, TableSize, step) /\ \A n \in 0 .. entries : k[n] \in V[n]
  BY <1>4, <1>8, <1>9, RecursionExists, Zenon
<1>11. IsDoubled(k)
  <2>1. ASSUME NEW n \in 0 .. entries, n # 0
        PROVE  step[n][k[n - 1]] = 2 * k[n - 1]
    <3>1. n \in 0 + 1 .. entries /\ n - 1 \in 0 .. entries
      BY <2>1
    <3>2. k[n - 1] \in V[n - 1]
      BY <1>10, <3>1
    <3>3. QED
      BY <1>7, <3>1, <3>2
  <2>2. QED
    BY <1>10, <2>1 DEF IsRecursion
<1>12. IsDoubled(doubled)
  BY <1>11 DEF doubled
<1>13. \A n \in 0 .. entries : doubled[n] = IF n = 0 THEN TableSize ELSE 2 * doubled[n - 1]
  BY <1>12
<1>14. \A n \in 0 + 1 .. entries : doubled[n - 1] \in V[n - 1] => doubled[n] \in V[n]
  <2> TAKE n \in 0 + 1 .. entries
  <2> HAVE doubled[n - 1] \in V[n - 1]
  <2>1. doubled[n] = 2 * doubled[n - 1]
    BY <1>5, <1>13
  <2>2. QED
    BY <1>7, <2>1
<1>15. doubled[0] \in V[0]
  BY <1>4, <1>8, <1>13
<1>16. \A n \in 0 .. entries : doubled[n] \in V[n]
  BY <1>4, <1>14, <1>15, RecursionKeeps, Zenon
<1>17. \A n \in 0 .. entries : doubled[n] \in Nat /\ doubled[n] >= 1 /\ doubled[n] >= 2 * n
  BY <1>2, <1>16
<1>18. doubled[entries] \in fit
  <2>1. doubled[entries] \in Nat /\ doubled[entries] >= 2 * entries
    BY <1>4, <1>17
  <2>2. entries <= (doubled[entries] * 3) \div 4
    BY <2>1
  <2>3. QED
    BY <1>4, <2>2
<1>19. \A c \in fit : c \in Nat \ {0}
  BY <1>17
<1> HIDE DEF fit
<1>20. Min(fit) \in fit
  <2>1. fit \in SUBSET Nat /\ fit # {}
    BY <1>18, <1>19
  <2>2. QED
    BY <2>1, LeastIsElement
<1>21. QED
  BY <1>6, <1>19, <1>20

\* The places where a hash occurs.
LEMMA OccurrencesArePlaces ==
    ASSUME NEW probe \in Seq(Fingerprint), NEW i \in 1 .. Len(probe)
    PROVE  LET places == Occurrences(probe, probe[i].hash)
           IN  /\ Cardinality(places) \in Nat /\ Cardinality(places) >= 1
               /\ Min(places) \in places /\ Max(places) \in places
               /\ places \subseteq 1 .. Len(probe)
<1> DEFINE places == Occurrences(probe, probe[i].hash)
<1>1. i \in places /\ places \subseteq 1 .. Len(probe) /\ Len(probe) \in Nat
  BY DEF Occurrences
<1>2. IsFiniteSet(1 .. Len(probe))
  BY <1>1, FS_Interval
<1> HIDE DEF places
<1>3. IsFiniteSet(places) /\ Cardinality(places) \in Nat /\ Cardinality(places) # 0
  BY <1>1, <1>2, FS_Subset, FS_CardinalityType, FS_EmptySet
<1>4. places \in SUBSET Nat /\ places # {}
  BY <1>1
<1>5. Min(places) \in places
  BY <1>4, LeastIsElement
<1>6. Max(places) \in places
  BY <1>3, <1>4, GreatestElement
<1>7. QED
  BY <1>1, <1>3, <1>5, <1>6 DEF places

\* The queue is of places of the probe.
LEMMA QueueIsOfPlaces ==
    ASSUME NEW probe \in Seq(Fingerprint), NEW library, NEW refs
    PROVE  Queued(probe, library, refs) \in Seq(1 .. Len(probe))
<1> DEFINE m == Len(probe)
           S == 1 .. m
           present == { h \in Hashes(probe) : Present(library, refs, h) }
           capacity == TableCapacity(Cardinality(present))
           firsts == { Min(Occurrences(probe, h)) : h \in present }
           list == ElementsAt(Places(probe), firsts)
           n == Len(list)
           Bucket(i) == HashBucket(probe[i].hash, capacity)
           before == { p \in (1 .. n) \X (1 .. n) : Bucket(list[p[1]]) < Bucket(list[p[2]]) }
           key == [k \in 1 .. n |-> Bucket(list[k])]
<1>1. m \in Nat /\ DOMAIN probe = S /\ \A i \in S : probe[i] \in Fingerprint /\ probe[i].hash \in Nat
  <2>1. \A i \in S : probe[i] \in Fingerprint
    BY ElementOfSeq
  <2>2. QED
    BY <2>1 DEF Fingerprint
<1>2. IsFiniteSet(S)
  BY <1>1, FS_Interval
<1>3. IsFiniteSet(present) /\ Cardinality(present) \in Nat
  <2> DEFINE f == [i \in S |-> probe[i].hash]
  <2>1. DOMAIN f = S /\ Hashes(probe) = { f[i] : i \in S }
    BY <1>1 DEF Hashes
  <2> HIDE DEF f
  <2>2. IsFiniteSet(Hashes(probe))
    BY <1>2, <2>1, ImageIsFinite
  <2>3. present \subseteq Hashes(probe)
    OBVIOUS
  <2>4. QED
    BY <2>2, <2>3, FS_Subset, FS_CardinalityType
<1> HIDE DEF present
<1>4. capacity \in Nat \ {0}
  BY <1>3, CapacityIsPositive
<1>5. Places(probe) \in Seq(S) /\ Len(Places(probe)) = m
  <2>1. Places(probe) = [i \in 1 .. m |-> i]
    BY <1>1 DEF Places
  <2>2. QED
    BY <1>1, <2>1
<1> HIDE DEF firsts
<1>6. list \in Seq(S)
  <2>1. \A i \in 1 .. Len(Places(probe)) : i \in firsts => Places(probe)[i] \in S
    BY <1>5, ElementOfSeq
  <2>2. QED
    BY <1>1, <1>5, <2>1, ElementsAtAreElements
<1> HIDE DEF list, capacity
<1>7. n \in Nat /\ \A k \in 1 .. n : list[k] \in S /\ Bucket(list[k]) \in Int
  <2>1. n \in Nat /\ \A k \in 1 .. n : list[k] \in S
    BY <1>6, ElementOfSeq
  <2>2. \A i \in S : Bucket(i) \in Int
    BY <1>1, <1>4 DEF HashBucket
  <2>3. QED
    BY <2>1, <2>2
<1>8. Queued(probe, library, refs) = ByRank(list, Ranks(n, before))
  BY DEF Queued, StableSort, list, firsts, present, capacity
<1>9. IsOrder(n, before)
  <2>1. \A i, j \in 1 .. n : <<i, j>> \in before <=> key[i] < key[j]
    OBVIOUS
  <2>2. \A i \in 1 .. n : key[i] \in Int
    BY <1>7
  <2> HIDE DEF before, key
  <2>3. QED
    BY <1>7, <2>1, <2>2, NumbersAreOrder
<1> HIDE DEF before
<1>10. ByRank(list, Ranks(n, before)) \in Seq(S)
  BY <1>6, <1>9, SortingIsPermutation
<1>11. QED
  BY <1>8, <1>10

\* The postings near a hash make hits.
LEMMA HitsOfAreHits ==
    ASSUME NEW probe \in Seq(Fingerprint), NEW stored \in Seq(Fingerprint), NEW i \in 1 .. Len(probe)
    PROVE  HitsOf(probe, stored, probe[i].hash) \in Seq(Hits)
<1> DEFINE hash == probe[i].hash
           print == probe[Max(Occurrences(probe, hash))]
           copies == Cardinality(Occurrences(probe, hash))
           list == ElementsAt(stored, Near(stored, hash))
           n == Len(list)
           before == { p \in (1 .. n) \X (1 .. n) : list[p[1]].hash < list[p[2]].hash }
           key == [k \in 1 .. n |-> list[k].hash]
           near == ByRank(list, Ranks(n, before))
           lists == [k \in DOMAIN near |-> [c \in 1 .. copies |-> Hit(print, near[k])]]
<1>1. copies \in Nat /\ print \in Fingerprint
  <2>1. copies \in Nat /\ Max(Occurrences(probe, hash)) \in 1 .. Len(probe)
    BY OccurrencesArePlaces
  <2>2. QED
    BY <2>1, ElementOfSeq
<1>2. list \in Seq(Fingerprint)
  <2>1. \A j \in 1 .. Len(stored) : j \in Near(stored, hash) => stored[j] \in Fingerprint
    BY ElementOfSeq
  <2>2. QED
    BY <2>1, ElementsAtAreElements
<1>3. HitsOf(probe, stored, hash) = FlattenSeq(lists)
  BY DEF HitsOf, StableSort
<1> HIDE DEF hash, print, copies, list
<1>4. n \in Nat /\ \A k \in 1 .. n : list[k] \in Fingerprint /\ list[k].hash \in Int
  <2>1. n \in Nat /\ \A k \in 1 .. n : list[k] \in Fingerprint
    BY <1>2, ElementOfSeq
  <2>2. \A x \in Fingerprint : x.hash \in Int
    BY DEF Fingerprint
  <2>3. QED
    BY <2>1, <2>2
<1>5. IsOrder(n, before)
  <2>1. \A j, k \in 1 .. n : <<j, k>> \in before <=> key[j] < key[k]
    OBVIOUS
  <2>2. \A j \in 1 .. n : key[j] \in Int
    BY <1>4
  <2> HIDE DEF before, key
  <2>3. QED
    BY <1>4, <2>1, <2>2, NumbersAreOrder
<1> HIDE DEF before
<1>6. near \in Seq(Fingerprint)
  BY <1>2, <1>5, SortingIsPermutation
<1> HIDE DEF near
<1>7. \A k \in DOMAIN near : near[k] \in Fingerprint /\ Hit(print, near[k]) \in Hits
  <2>1. \A k \in DOMAIN near : near[k] \in Fingerprint
    BY <1>6
  <2>2. \A x \in Fingerprint : Hit(print, x) \in Hits
    BY <1>1, QueryAssumption DEF Hit, Hits, Fingerprint
  <2>3. QED
    BY <2>1, <2>2
<1>8. \A k \in DOMAIN near : [c \in 1 .. copies |-> Hit(print, near[k])] \in Seq(Hits)
  BY <1>1, <1>7
<1>9. lists \in Seq(Seq(Hits))
  <2>1. Len(near) \in Nat /\ DOMAIN near = 1 .. Len(near)
    BY <1>6
  <2>2. lists \in [1 .. Len(near) -> Seq(Hits)]
    BY <1>8, <2>1
  <2> HIDE DEF lists
  <2>3. QED
    BY <2>1, <2>2
<1>10. QED
  BY <1>3, <1>9, FlattenedIsList DEF hash

LEMMA CloudIsOfHits ==
    ASSUME NEW probe \in Seq(Fingerprint), NEW library, NEW refs, NEW r,
           library[r] \in Seq(Fingerprint)
    PROVE  Cloud(probe, library, refs, r) \in Seq(Hits)
<1> DEFINE queued == Queued(probe, library, refs)
           lists == [n \in DOMAIN queued |-> HitsOf(probe, library[r], probe[queued[n]].hash)]
<1>1. queued \in Seq(1 .. Len(probe))
  BY QueueIsOfPlaces
<1>2. Cloud(probe, library, refs, r) = FlattenSeq(lists)
  BY DEF Cloud
<1> HIDE DEF queued
<1>3. \A n \in DOMAIN queued : queued[n] \in 1 .. Len(probe)
  BY <1>1
<1>4. \A n \in DOMAIN queued : HitsOf(probe, library[r], probe[queued[n]].hash) \in Seq(Hits)
  BY <1>3, HitsOfAreHits
<1>5. lists \in Seq(Seq(Hits))
  BY <1>1, <1>4
<1>6. QED
  BY <1>2, <1>5, FlattenedIsList

-----------------------------------------------------------------------------
(* The requests.                                                           *)

\* The requests as ScriptsAssumption has them.
Queries == { q \in Request :
    IsPair(q) => q.targets # None /\ \E r \in q.targets : q.targets = {r} }

\* A task of the pool.
Task == [rest : Seq(Hits), lines : Seq(Seq(Hits)), over : BOOLEAN]

\* What a query that is not refused may look at.
IsAdmitted(q) ==
    q.verb # "match" => q.key \in DOMAIN world.a /\ Targets(q) \subseteq DOMAIN world.b

\* The variables in every phase.
QueryTypes ==
    /\ world \in Worlds
    /\ script \in Seq(Queries)
    /\ pc \in {"idle", "regions", "vote"}
    /\ cursor \in 0 .. MaxBin /\ stop \in 0 .. MaxBin
    /\ regions \in Seq(Seq(Fingerprint))
    /\ pc # "idle" => script # <<>> /\ IsAdmitted(request)
    /\ pc = "idle" => regions = <<>>
    /\ pc = "regions" => request.verb # "match"
    /\ pc # "vote" => tasks = <<>>
    /\ pc = "vote" => tasks \in [(1 .. Len(regions)) \X Consulted(request) -> Task]

LEMMA StoresHoldPrints ==
    ASSUME world \in Worlds
    PROVE  /\ \A key \in DOMAIN world.a : world.a[key] \in Seq(Fingerprint) /\ InOrder(world.a[key])
           /\ world.b \in Seq(Seq(Fingerprint))
           /\ \A r \in DOMAIN world.b : world.b[r] \in Seq(Fingerprint)
<1>1. /\ world.a \in Seq(Seq(Fingerprint)) /\ world.b \in Seq(Seq(Fingerprint))
      /\ \A key \in DOMAIN world.a : InOrder(world.a[key])
  BY WorldsAssumption
<1>2. QED
  BY <1>1

LEMMA ScriptsAreQueries == Scripts \subseteq Seq(Queries)
<1> SUFFICES ASSUME NEW s \in Scripts PROVE s \in Seq(Queries)
  OBVIOUS
<1>1. s \in Seq(Request)
  BY ScriptsAssumption
<1>2. \A i \in DOMAIN s : s[i] \in Request /\ (IsPair(s[i]) =>
          s[i].targets # None /\ \E r \in s[i].targets : s[i].targets = {r})
  BY <1>1, ScriptsAssumption
<1>3. \A i \in DOMAIN s : s[i] \in Queries
  BY <1>2 DEF Queries
<1>4. QED
  BY <1>1, <1>3

LEMMA RequestIsQuery ==
    ASSUME script \in Seq(Queries), script # <<>>
    PROVE  /\ request \in Queries /\ request \in Request /\ Tail(script) \in Seq(Queries)
           /\ Len(Tail(script)) < Len(script)
           /\ request.verb \in {"match", "span", "crosscheck", "passages", "discover"}
           /\ request.prints \in Seq(Fingerprint) /\ request.k \in Nat /\ request.multi \in BOOLEAN
           /\ request.window # None => request.window \in Nat \X Nat
<1>1. request \in Queries /\ Tail(script) \in Seq(Queries) /\ Len(Tail(script)) < Len(script)
  BY DEF request
<1>2. request \in Request
  BY <1>1 DEF Queries
<1>3. QED
  BY <1>1, <1>2 DEF Request

LEMMA BinsAreInTime ==
    /\ MaxBin \in Nat
    /\ \A n \in Nat : Saturate(n) \in 0 .. MaxBin /\ (n <= MaxBin => Saturate(n) = n)
    /\ \A s \in Nat : SecondsToBin(s) \in {None} \cup 0 .. MaxBin
    /\ \A s \in Nat : OrElse(SecondsToBin(s), 0) \in 0 .. MaxBin
    /\ \A s \in Nat : OrElse(SecondsToBin(s), MaxBin) \in 0 .. MaxBin
<1>1. MaxBin \in Nat /\ Latency \in Nat /\ Step \in Nat \ {0}
  BY QueryAssumption
<1>2. \A n \in Nat : Saturate(n) \in 0 .. MaxBin /\ (n <= MaxBin => Saturate(n) = n)
  BY <1>1 DEF Saturate, Least
<1>3. ASSUME NEW s \in Nat PROVE SecondsToBin(s) \in {None} \cup 0 .. MaxBin
  <2>1. CASE s < Latency
    BY <2>1 DEF SecondsToBin
  <2>2. CASE ~(s < Latency)
    <3> DEFINE exact == (s - Latency + Step - 1) \div Step
               bin == IF IsRounded(s) THEN exact + 1 ELSE exact
    <3>1. s - Latency + Step - 1 \in Nat
      BY <1>1, <2>2
    <3>2. exact \in Nat
      BY <1>1, <3>1
    <3>3. SecondsToBin(s) = IF bin > MaxBin THEN None ELSE bin
      BY <2>2 DEF SecondsToBin
    <3> HIDE DEF exact
    <3>4. bin \in Nat
      BY <3>2
    <3> HIDE DEF bin
    <3>5. QED
      BY <1>1, <3>3, <3>4
  <2>3. QED
    BY <2>1, <2>2
<1>4. QED
  BY <1>1, <1>2, <1>3 DEF OrElse

\* The times of a stored probe.
LEMMA TimesAreBins ==
    ASSUME world \in Worlds, NEW q, q.key \in DOMAIN world.a
    PROVE  /\ Probe(q) \in Seq(Fingerprint) /\ InOrder(Probe(q))
           /\ Times(q) \subseteq 0 .. MaxBin /\ IsFiniteSet(Times(q))
           /\ \A i \in 1 .. Len(Probe(q)) : Probe(q)[i].t \in Times(q)
           /\ Times(q) # {} => /\ Min(Times(q)) \in Times(q) /\ Max(Times(q)) \in Times(q)
                               /\ \A t \in Times(q) : Min(Times(q)) <= t /\ t <= Max(Times(q))
<1> DEFINE probe == Probe(q)
           times == Times(q)
           f == [i \in 1 .. Len(probe) |-> probe[i].t]
<1>1. probe \in Seq(Fingerprint) /\ InOrder(probe)
  BY StoresHoldPrints DEF Probe
<1>2. times = { probe[i].t : i \in DOMAIN probe }
  BY DEF Times
<1> HIDE DEF probe, times
<1>3. DOMAIN probe = 1 .. Len(probe) /\ Len(probe) \in Nat /\ \A i \in DOMAIN probe : probe[i] \in Fingerprint
  BY <1>1
<1>4. \A x \in Fingerprint : x.t \in 0 .. MaxBin
  BY DEF Fingerprint
<1>5. times \subseteq 0 .. MaxBin /\ \A i \in 1 .. Len(probe) : probe[i].t \in times
  BY <1>2, <1>3, <1>4
<1>6. IsFiniteSet(times)
  <2>1. IsFiniteSet(0 .. MaxBin)
    <3>1. \A k \in Nat : IsFiniteSet(0 .. k)
      <4> TAKE k \in Nat
      <4>1. 0 \in Int /\ k \in Int
        OBVIOUS
      <4>2. QED
        BY ONLY <4>1, FS_Interval
    <3>2. QED
      BY <3>1, BinsAreInTime
  <2>2. QED
    BY <1>5, <2>1, FS_Subset
<1>7. times \in SUBSET Nat
  BY <1>5
<1>8. times # {} => Min(times) \in times /\ \A t \in times : Min(times) <= t
  BY <1>7, LeastIsElement
<1>9. times # {} => Max(times) \in times /\ \A t \in times : t <= Max(times)
  BY <1>6, <1>7, GreatestElement
<1>10. QED
  BY <1>1, <1>5, <1>6, <1>8, <1>9 DEF probe, times

LEMMA WindowIsInTime ==
    ASSUME world \in Worlds, NEW q, q.key \in DOMAIN world.a,
           q.window # None => q.window \in Nat \X Nat
    PROVE  /\ NaturalStart(q) \in 0 .. MaxBin /\ NaturalStop(q) \in 0 .. MaxBin
           /\ WindowStart(q) \in 0 .. MaxBin /\ WindowStop(q) \in 0 .. MaxBin
<1>1. MaxBin \in Nat
  BY BinsAreInTime
<1>2. NaturalStart(q) \in 0 .. MaxBin
  BY <1>1, TimesAreBins DEF NaturalStart
<1>3. NaturalStop(q) \in 0 .. MaxBin
  <2>1. CASE Times(q) = {}
    BY <2>1, BinsAreInTime DEF NaturalStop
  <2>2. CASE Times(q) # {}
    <3>1. Max(Times(q)) + 1 \in Nat
      BY <1>1, <2>2, TimesAreBins
    <3>2. NaturalStop(q) = Saturate(Max(Times(q)) + 1)
      BY <2>2 DEF NaturalStop
    <3>3. QED
      BY <3>1, <3>2, BinsAreInTime
  <2>3. QED
    BY <2>1, <2>2
<1>4. CASE q.window = None
  BY <1>2, <1>3, <1>4 DEF WindowStart, WindowStop
<1>5. CASE q.window # None
  <2>1. q.window[1] \in Nat /\ q.window[2] \in Nat
    BY <1>5
  <2>2. WindowStart(q) = OrElse(SecondsToBin(q.window[1]), 0)
    BY <1>5 DEF WindowStart
  <2>3. WindowStop(q) = Least(OrElse(SecondsToBin(q.window[2]), MaxBin), NaturalStop(q))
    BY <1>5 DEF WindowStop
  <2>4. OrElse(SecondsToBin(q.window[2]), MaxBin) \in 0 .. MaxBin
    BY <2>1, BinsAreInTime
  <2>5. WindowStop(q) \in 0 .. MaxBin
    BY <1>3, <2>3, <2>4 DEF Least
  <2>6. QED
    BY <1>2, <1>3, <2>1, <2>2, <2>5, BinsAreInTime
<1>6. QED
  BY <1>4, <1>5

\* A round of the vote that accepts a line moves hits from what is left to it.
LEMMA RoundMovesHits ==
    ASSUME NEW t \in Task, Vote(t.rest) # <<>>
    PROVE  LET line == Vote(t.rest)
           IN  /\ line \in Seq(Hits) /\ Remaining(t.rest, line) \in Seq(Hits)
               /\ Append(t.lines, line) \in Seq(Seq(Hits))
               /\ Len(Remaining(t.rest, line)) < Len(t.rest)
               /\ \A P : CountIn(FlattenSeq(Append(t.lines, line)), P) + CountIn(Remaining(t.rest, line), P)
                         = CountIn(FlattenSeq(t.lines), P) + CountIn(t.rest, P)
<1> DEFINE rest == t.rest
           lines == t.lines
           line == Vote(rest)
           left == Remaining(rest, line)
<1>1. rest \in Seq(Hits) /\ lines \in Seq(Seq(Hits))
  BY DEF Task
<1>2. PICK l : IsVoted(line, rest, l)
  BY <1>1, VoteIsOnLine
<1>3. line \in Seq(Hits)
  BY <1>2 DEF IsVoted
<1>4. left \in Seq(Hits) /\ \A P : CountIn(line, P) + CountIn(left, P) = CountIn(rest, P)
  BY <1>1, <1>2, RemainingIsTheRest
<1> HIDE DEF left, line
<1>5. /\ FlattenSeq(lines) \in Seq(Hits) /\ Append(lines, line) \in Seq(Seq(Hits))
      /\ FlattenSeq(Append(lines, line)) = FlattenSeq(lines) \o line
  BY <1>1, <1>3, FlattenedGrows
<1>6. ASSUME NEW P
      PROVE  CountIn(FlattenSeq(Append(lines, line)), P) + CountIn(left, P)
             = CountIn(FlattenSeq(lines), P) + CountIn(rest, P)
  <2>1. CountIn(FlattenSeq(lines) \o line, P) = CountIn(FlattenSeq(lines), P) + CountIn(line, P)
    BY <1>3, <1>5, CountOfBoth
  <2>2. CountIn(line, P) + CountIn(left, P) = CountIn(rest, P)
    BY <1>4
  <2>3. /\ CountIn(FlattenSeq(lines), P) \in Nat /\ CountIn(line, P) \in Nat
        /\ CountIn(left, P) \in Nat /\ CountIn(rest, P) \in Nat
    BY <1>1, <1>3, <1>4, <1>5, CountIsNumber
  <2>4. QED
    BY <1>5, <2>1, <2>2, <2>3
<1>7. Len(left) < Len(rest)
  <2>1. CountIn(line, Hits) = Len(line) /\ CountIn(left, Hits) = Len(left) /\ CountIn(rest, Hits) = Len(rest)
    BY <1>1, <1>3, <1>4, CountIsNumber
  <2>2. CountIn(line, Hits) + CountIn(left, Hits) = CountIn(rest, Hits)
    BY <1>4
  <2>3. Len(line) \in Nat /\ Len(left) \in Nat /\ Len(rest) \in Nat /\ Len(line) # 0
    BY <1>1, <1>3, <1>4 DEF line
  <2>4. QED
    BY <2>1, <2>2, <2>3
<1>8. QED
  BY <1>3, <1>4, <1>5, <1>6, <1>7 DEF line, left

\* What a round makes of a task.
LEMMA RoundKeepsTask ==
    ASSUME NEW t \in Task, NEW last \in BOOLEAN
    PROVE  LET line == IF Len(t.rest) >= MinHits THEN Vote(t.rest) ELSE <<>>
               new == IF line = <<>> THEN [rest |-> t.rest, lines |-> t.lines, over |-> TRUE]
                      ELSE [rest |-> Remaining(t.rest, line), lines |-> Append(t.lines, line),
                            over |-> last]
           IN  /\ new \in Task
               /\ \/ Len(new.rest) < Len(t.rest)
                  \/ new.over
               /\ \A P : CountIn(FlattenSeq(new.lines), P) + CountIn(new.rest, P)
                         = CountIn(FlattenSeq(t.lines), P) + CountIn(t.rest, P)
<1> DEFINE line == IF Len(t.rest) >= MinHits THEN Vote(t.rest) ELSE <<>>
<1>1. t.rest \in Seq(Hits) /\ t.lines \in Seq(Seq(Hits))
  BY DEF Task
<1>2. CASE line = <<>>
  <2>1. [rest |-> t.rest, lines |-> t.lines, over |-> TRUE] \in Task
    BY <1>1 DEF Task
  <2> HIDE DEF line
  <2>2. QED
    BY <1>2, <2>1 DEF line
<1>3. CASE line # <<>>
  <2>1. line = Vote(t.rest)
    BY <1>3
  <2>2. /\ line \in Seq(Hits) /\ Remaining(t.rest, line) \in Seq(Hits)
        /\ Append(t.lines, line) \in Seq(Seq(Hits))
        /\ Len(Remaining(t.rest, line)) < Len(t.rest)
        /\ \A P : CountIn(FlattenSeq(Append(t.lines, line)), P) + CountIn(Remaining(t.rest, line), P)
                  = CountIn(FlattenSeq(t.lines), P) + CountIn(t.rest, P)
    BY <1>3, <2>1, RoundMovesHits
  <2>3. [rest |-> Remaining(t.rest, line), lines |-> Append(t.lines, line), over |-> last] \in Task
    BY <2>2 DEF Task
  <2> HIDE DEF line
  <2>4. QED
    BY <1>3, <2>2, <2>3 DEF line
<1>4. QED
  BY <1>2, <1>3

LEMMA TasksAreTasks ==
    ASSUME world \in Worlds, NEW q \in Queries, IsAdmitted(q), NEW probes \in Seq(Seq(Fingerprint))
    PROVE  /\ Consulted(q) \subseteq DOMAIN world.b
           /\ Tasks(q, probes) \in [(1 .. Len(probes)) \X Consulted(q) -> Task]
           /\ \A task \in (1 .. Len(probes)) \X Consulted(q) :
                  Tasks(q, probes)[task] =
                      [rest |-> Cloud(probes[task[1]], world.b, Consulted(q), task[2]),
                       lines |-> <<>>, over |-> FALSE]
<1>1. Consulted(q) \subseteq DOMAIN world.b
  BY DEF Consulted, IsAdmitted, IsPair
<1>2. DOMAIN probes = 1 .. Len(probes) /\ \A g \in 1 .. Len(probes) : probes[g] \in Seq(Fingerprint)
  BY ElementOfSeq
<1>3. ASSUME NEW task \in (1 .. Len(probes)) \X Consulted(q)
      PROVE  [rest |-> Cloud(probes[task[1]], world.b, Consulted(q), task[2]),
              lines |-> <<>>, over |-> FALSE] \in Task
  <2>1. task[1] \in 1 .. Len(probes) /\ task[2] \in DOMAIN world.b
    BY <1>1
  <2>2. probes[task[1]] \in Seq(Fingerprint) /\ world.b[task[2]] \in Seq(Fingerprint)
    BY <1>2, <2>1, StoresHoldPrints
  <2>3. Cloud(probes[task[1]], world.b, Consulted(q), task[2]) \in Seq(Hits)
    BY <2>2, CloudIsOfHits
  <2>4. QED
    BY <2>3 DEF Task
<1>4. QED
  BY <1>1, <1>2, <1>3 DEF Tasks

LEMMA NotRefused ==
    ASSUME world \in Worlds, NEW q \in Queries, ~Refused(q)
    PROVE  /\ IsAdmitted(q)
           /\ q.verb # "match" => WindowStart(q) < WindowStop(q)
<1>1. IsAdmitted(q)
  BY DEF IsAdmitted, Refused
<1>2. ASSUME q.verb # "match" PROVE WindowStart(q) < WindowStop(q)
  <2>1. WindowStart(q) \in Int /\ WindowStop(q) \in Int
    <3>1. q.window # None => q.window \in Nat \X Nat
      BY DEF Queries, Request
    <3>2. WindowStart(q) \in 0 .. MaxBin /\ WindowStop(q) \in 0 .. MaxBin
      BY <1>1, <1>2, <3>1, WindowIsInTime DEF IsAdmitted
    <3>3. QED
      BY <3>2
  <2>2. ~(WindowStart(q) >= WindowStop(q))
    BY <1>2 DEF Refused
  <2>3. QED
    BY <2>1, <2>2
<1>3. QED
  BY <1>1, <1>2

LEMMA InitIsTyped == Init => QueryTypes
<1>1. ASSUME Init PROVE QueryTypes
  <2>1. /\ world \in Worlds /\ script \in Scripts /\ pc = "idle" /\ cursor = 0 /\ stop = 0
        /\ regions = <<>> /\ tasks = <<>>
    BY <1>1 DEF Init
  <2>2. script \in Seq(Queries) /\ 0 \in 0 .. MaxBin /\ <<>> \in Seq(Seq(Fingerprint))
    BY <2>1, ScriptsAreQueries, BinsAreInTime
  <2>3. QED
    BY <2>1, <2>2 DEF QueryTypes
<1>2. QED
  BY <1>1

\* An answer leaves nothing behind.
LEMMA ReplyIsTyped ==
    ASSUME QueryTypes, script # <<>>, NEW ok, NEW rows, Reply(ok, rows)
    PROVE  QueryTypes' /\ Len(script') < Len(script) /\ tasks' = <<>> /\ pc' = "idle" /\ regions' = <<>>
<1>1. /\ script' = Tail(script) /\ pc' = "idle" /\ cursor' = 0 /\ stop' = 0
      /\ regions' = <<>> /\ tasks' = <<>> /\ world' = world
  BY DEF Reply
<1>2. script' \in Seq(Queries) /\ Len(script') < Len(script)
  BY <1>1, RequestIsQuery DEF QueryTypes
<1>3. 0 \in 0 .. MaxBin /\ <<>> \in Seq(Seq(Fingerprint))
  BY BinsAreInTime
<1>4. QED
  BY <1>1, <1>2, <1>3 DEF QueryTypes

\* With the stores and the request everything that is read from them stays.
LEMMA RequestStays ==
    ASSUME world' = world, script' = script
    PROVE  /\ request' = request
           /\ Consulted(request)' = Consulted(request)
           /\ IsAdmitted(request)' <=> IsAdmitted(request)
<1>1. request' = request
  BY DEF request
<1>2. QED
  BY <1>1 DEF Consulted, Targets, IsAdmitted

LEMMA MatchIsTyped ==
    ASSUME QueryTypes, Match
    PROVE  /\ QueryTypes'
           /\ regions' = <<request.prints>> /\ tasks' = Tasks(request, <<request.prints>>)
<1> DEFINE probes == <<request.prints>>
<1>1. /\ script # <<>> /\ ~Refused(request) /\ request.verb = "match"
      /\ pc' = "vote" /\ regions' = probes /\ tasks' = Tasks(request, probes)
      /\ world' = world /\ script' = script /\ cursor' = cursor /\ stop' = stop
  BY DEF Match
<1>2. request \in Queries /\ request.prints \in Seq(Fingerprint)
  BY <1>1, RequestIsQuery DEF QueryTypes
<1>3. probes \in Seq(Seq(Fingerprint))
  BY <1>2
<1> HIDE DEF probes
<1>4. IsAdmitted(request)
  BY <1>1 DEF IsAdmitted
<1>5. tasks' \in [(1 .. Len(probes)) \X Consulted(request) -> Task]
  BY <1>1, <1>2, <1>3, <1>4, TasksAreTasks DEF QueryTypes
<1>6. QED
  BY <1>1, <1>3, <1>4, <1>5, RequestStays DEF QueryTypes, probes

LEMMA StartRegionsIsTyped ==
    ASSUME QueryTypes, StartRegions
    PROVE  QueryTypes'
<1>1. /\ script # <<>> /\ ~Refused(request) /\ request.verb # "match" /\ pc = "idle"
      /\ pc' = "regions" /\ cursor' = WindowStart(request) /\ stop' = WindowStop(request)
      /\ world' = world /\ script' = script /\ regions' = regions /\ tasks' = tasks
  BY DEF StartRegions
<1>2. request \in Queries /\ (request.window # None => request.window \in Nat \X Nat)
  BY <1>1, RequestIsQuery DEF QueryTypes
<1>3. IsAdmitted(request)
  BY <1>1, <1>2, NotRefused DEF QueryTypes
<1>4. cursor' \in 0 .. MaxBin /\ stop' \in 0 .. MaxBin
  BY <1>1, <1>2, <1>3, WindowIsInTime DEF QueryTypes, IsAdmitted
<1>5. QED
  BY <1>1, <1>3, <1>4, RequestStays DEF QueryTypes

\* The region of a start, and the start of the next.
LEMMA NextStartIsLater ==
    ASSUME NEW q, NEW from \in 0 .. MaxBin
    PROVE  /\ NextStart(q, from) \in 0 .. MaxBin /\ RegionStop(q, from) \in 0 .. MaxBin
           /\ from < MaxBin => NextStart(q, from) > from /\ RegionStop(q, from) > from
<1>1. MaxBin \in Nat /\ RegionBins \in Nat \ {0} /\ HopBins \in Nat \ {0} /\ WindowBins \in Nat \ {0}
  BY QueryAssumption
<1>2. QED
  BY <1>1 DEF NextStart, RegionStop, Saturate, Least

LEMMA ForwardIsPrints ==
    ASSUME world \in Worlds, NEW q, q.key \in DOMAIN world.a, NEW from, NEW to
    PROVE  Forward(q, from, to) \in Seq(Fingerprint)
<1> DEFINE chosen == { i \in DOMAIN Probe(q) : from <= Probe(q)[i].t /\ Probe(q)[i].t < to }
<1>1. Probe(q) \in Seq(Fingerprint)
  BY TimesAreBins
<1>2. Forward(q, from, to) = ElementsAt(Probe(q), chosen)
  BY DEF Forward, Selected
<1>3. Len(Probe(q)) \in Nat /\ \A i \in 1 .. Len(Probe(q)) : i \in chosen => Probe(q)[i] \in Fingerprint
  BY <1>1, ElementOfSeq
<1> HIDE DEF chosen
<1>4. QED
  BY <1>2, <1>3, ElementsAtAreElements

LEMMA NextRegionIsTyped ==
    ASSUME QueryTypes, NextRegion
    PROVE  QueryTypes' /\ cursor' > cursor
<1> DEFINE prints == Forward(request, cursor, Least(RegionStop(request, cursor), stop))
<1>1. /\ pc = "regions" /\ cursor < stop
      /\ regions' = IF prints = <<>> THEN regions ELSE Append(regions, prints)
      /\ cursor' = NextStart(request, cursor)
      /\ world' = world /\ script' = script /\ pc' = pc /\ stop' = stop /\ tasks' = tasks
  BY DEF NextRegion
<1>2. /\ script # <<>> /\ IsAdmitted(request) /\ request.verb # "match" /\ world \in Worlds
      /\ cursor \in 0 .. MaxBin /\ stop \in 0 .. MaxBin /\ regions \in Seq(Seq(Fingerprint))
  BY <1>1 DEF QueryTypes
<1>3. prints \in Seq(Fingerprint)
  BY <1>2, ForwardIsPrints DEF IsAdmitted
<1> HIDE DEF prints
<1>4. regions' \in Seq(Seq(Fingerprint))
  BY <1>1, <1>2, <1>3
<1>5. cursor < MaxBin
  BY <1>1, <1>2, BinsAreInTime
<1>6. cursor' \in 0 .. MaxBin /\ cursor' > cursor
  BY <1>1, <1>2, <1>5, NextStartIsLater
<1>7. QED
  BY <1>1, <1>4, <1>6, RequestStays DEF QueryTypes

LEMMA StartVoteIsTyped ==
    ASSUME QueryTypes, StartVote
    PROVE  QueryTypes' /\ regions' = regions /\ tasks' = Tasks(request, regions)
<1>1. /\ pc = "regions" /\ pc' = "vote" /\ tasks' = Tasks(request, regions)
      /\ world' = world /\ script' = script /\ cursor' = cursor /\ stop' = stop /\ regions' = regions
  BY DEF StartVote
<1>2. /\ script # <<>> /\ IsAdmitted(request) /\ world \in Worlds /\ regions \in Seq(Seq(Fingerprint))
  BY <1>1 DEF QueryTypes
<1>3. request \in Queries
  BY <1>2, RequestIsQuery DEF QueryTypes
<1>4. tasks' \in [(1 .. Len(regions)) \X Consulted(request) -> Task]
  BY <1>1, <1>2, <1>3, TasksAreTasks
<1>5. QED
  BY <1>1, <1>2, <1>4, RequestStays DEF QueryTypes

\* A round of the vote, for one task.
Round(task) ==
    LET t == tasks[task]
        line == IF Len(t.rest) >= MinHits THEN Vote(t.rest) ELSE <<>>
    IN  IF line = <<>> THEN [rest |-> t.rest, lines |-> t.lines, over |-> TRUE]
        ELSE [rest |-> Remaining(t.rest, line), lines |-> Append(t.lines, line),
              over |-> ~AllLines(request) \/ Len(t.lines) + 1 = RowLimit(request)]

LEMMA VoteLineIsTyped ==
    ASSUME QueryTypes, NEW task \in DOMAIN tasks, VoteLine(task)
    PROVE  /\ QueryTypes' /\ regions' = regions /\ DOMAIN tasks' = DOMAIN tasks
           /\ tasks' = [tasks EXCEPT ![task] = Round(task)]
           /\ tasks[task] \in Task /\ ~tasks[task].over
           /\ \/ Len(tasks'[task].rest) < Len(tasks[task].rest)
              \/ tasks'[task].over
           /\ \A P : CountIn(FlattenSeq(tasks'[task].lines), P) + CountIn(tasks'[task].rest, P)
                     = CountIn(FlattenSeq(tasks[task].lines), P) + CountIn(tasks[task].rest, P)
<1>1. /\ pc = "vote" /\ ~tasks[task].over
      /\ tasks' = [tasks EXCEPT ![task] = Round(task)]
      /\ world' = world /\ script' = script /\ pc' = pc /\ cursor' = cursor /\ stop' = stop
      /\ regions' = regions
  BY DEF VoteLine, Round
<1>2. /\ tasks \in [(1 .. Len(regions)) \X Consulted(request) -> Task] /\ script # <<>>
      /\ script \in Seq(Queries)
  BY <1>1 DEF QueryTypes
<1>3. tasks[task] \in Task /\ DOMAIN tasks = (1 .. Len(regions)) \X Consulted(request)
  BY <1>2
<1> DEFINE last == ~AllLines(request) \/ Len(tasks[task].lines) + 1 = RowLimit(request)
<1>4. last \in BOOLEAN
  OBVIOUS
<1>5. /\ Round(task) \in Task
      /\ \/ Len(Round(task).rest) < Len(tasks[task].rest)
         \/ Round(task).over
      /\ \A P : CountIn(FlattenSeq(Round(task).lines), P) + CountIn(Round(task).rest, P)
                = CountIn(FlattenSeq(tasks[task].lines), P) + CountIn(tasks[task].rest, P)
  BY <1>3, <1>4, RoundKeepsTask DEF Round
<1>6. /\ tasks' \in [(1 .. Len(regions)) \X Consulted(request) -> Task]
      /\ tasks'[task] = Round(task) /\ DOMAIN tasks' = DOMAIN tasks
  BY <1>1, <1>2, <1>3, <1>5
<1>7. QueryTypes'
  BY <1>1, <1>6, RequestStays DEF QueryTypes
<1>8. QED
  BY <1>1, <1>3, <1>5, <1>6, <1>7

-----------------------------------------------------------------------------
(* Every step.                                                             *)

\* The hits of a task, those of its lines and those left, as they were.
Conserved ==
    \A task \in DOMAIN tasks : \A P :
        CountIn(FlattenSeq(tasks[task].lines), P) + CountIn(tasks[task].rest, P)
        = CountIn(Cloud(regions[task[1]], world.b, Consulted(request), task[2]), P)

QueryInvariant == QueryTypes /\ Conserved

\* Without tasks there is nothing to conserve.
LEMMA NoTaskIsConserved == (tasks = <<>> => Conserved) /\ (tasks' = <<>> => Conserved')
<1>1. DOMAIN <<>> = {}
  OBVIOUS
<1>2. QED
  BY <1>1 DEF Conserved

\* A task begins with all of its hits.
LEMMA TasksBegin ==
    ASSUME QueryTypes', pc' = "vote", tasks' = Tasks(request, regions'), world' = world,
           script' = script
    PROVE  Conserved'
<1> DEFINE probes == regions'
<1>1. /\ request' = request /\ Consulted(request)' = Consulted(request)
      /\ IsAdmitted(request) /\ world \in Worlds /\ script # <<>> /\ script \in Seq(Queries)
      /\ probes \in Seq(Seq(Fingerprint))
  BY RequestStays DEF QueryTypes
<1>2. request \in Queries
  BY <1>1, RequestIsQuery
<1> DEFINE places == (1 .. Len(probes)) \X Consulted(request)
           cloud(task) == Cloud(probes[task[1]], world.b, Consulted(request), task[2])
<1>3. /\ tasks' \in [places -> Task]
      /\ \A task \in places : tasks'[task] = [rest |-> cloud(task), lines |-> <<>>, over |-> FALSE]
  BY <1>1, <1>2, TasksAreTasks
<1>4. DOMAIN tasks' = places
  BY <1>3
<1> HIDE DEF places, probes
<1>5. ASSUME NEW task \in places, NEW P
      PROVE  CountIn(FlattenSeq(tasks'[task].lines), P) + CountIn(tasks'[task].rest, P)
             = CountIn(cloud(task), P)
  <2>1. tasks'[task] \in Task /\ tasks'[task].rest = cloud(task) /\ tasks'[task].lines = <<>>
    BY <1>3
  <2>2. cloud(task) \in Seq(Hits)
    <3>1. tasks'[task].rest \in Seq(Hits)
      BY <2>1 DEF Task
    <3>2. QED
      BY <2>1, <3>1
  <2> HIDE DEF cloud
  <2>3. FlattenSeq(tasks'[task].lines) = <<>>
    BY <2>1 DEF FlattenSeq
  <2>4. CountIn(<<>>, P) = 0
    <3>1. { i \in 1 .. Len(<<>>) : <<>>[i] \in P } = {}
      OBVIOUS
    <3>2. QED
      BY <3>1, FS_EmptySet DEF CountIn
  <2>5. CountIn(cloud(task), P) \in Nat
    BY <2>2, CountIsNumber
  <2>6. QED
    BY <2>1, <2>3, <2>4, <2>5
<1>6. QED
  BY <1>1, <1>4, <1>5 DEF Conserved, probes

LEMMA QueryInvariantHolds == Init => QueryInvariant
<1>1. ASSUME Init PROVE tasks = <<>>
  BY <1>1 DEF Init
<1>2. QED
  BY <1>1, InitIsTyped, NoTaskIsConserved DEF QueryInvariant

\* A step keeps the invariant, and leads on.
LEMMA QueryInvariantStays ==
    ASSUME QueryInvariant, [Next]_vars
    PROVE  QueryInvariant' /\ (Progress \/ vars' = vars)
<1>1. QueryTypes /\ Conserved
  BY DEF QueryInvariant
<1>2. ASSUME NEW ok, NEW rows, script # <<>>, Reply(ok, rows)
      PROVE  QueryInvariant' /\ Progress
  <2>1. QueryTypes' /\ Len(script') < Len(script) /\ tasks' = <<>>
    BY <1>1, <1>2, ReplyIsTyped
  <2>2. Conserved'
    BY <2>1, NoTaskIsConserved
  <2>3. QED
    BY <2>1, <2>2 DEF QueryInvariant, Progress
<1>3. CASE Refuse
  BY <1>2, <1>3 DEF Refuse
<1>4. CASE Match
  <2>1. QueryTypes' /\ tasks' = Tasks(request, regions')
    BY <1>1, <1>4, MatchIsTyped
  <2>2. pc = "idle" /\ pc' = "vote" /\ script' = script /\ world' = world
    BY <1>4 DEF Match
  <2>3. Conserved'
    BY <2>1, <2>2, TasksBegin
  <2>4. Progress
    BY <2>2 DEF Progress, Phase
  <2>5. QED
    BY <2>1, <2>3, <2>4 DEF QueryInvariant
<1>5. CASE StartRegions
  <2>1. QueryTypes'
    BY <1>1, <1>5, StartRegionsIsTyped
  <2>2. pc = "idle" /\ pc' = "regions" /\ script' = script
    BY <1>5 DEF StartRegions
  <2>3. Conserved'
    BY <2>1, <2>2, NoTaskIsConserved DEF QueryTypes
  <2>4. Progress
    BY <2>2 DEF Progress, Phase
  <2>5. QED
    BY <2>1, <2>3, <2>4 DEF QueryInvariant
<1>6. CASE NextRegion
  <2>1. QueryTypes' /\ cursor' > cursor
    BY <1>1, <1>6, NextRegionIsTyped
  <2>2. pc = "regions" /\ pc' = pc /\ script' = script
    BY <1>6 DEF NextRegion
  <2>3. Conserved'
    BY <2>1, <2>2, NoTaskIsConserved DEF QueryTypes
  <2>4. Progress
    BY <2>1, <2>2 DEF Progress
  <2>5. QED
    BY <2>1, <2>3, <2>4 DEF QueryInvariant
<1>7. CASE NoRegion
  <2>1. script # <<>>
    BY <1>1, <1>7 DEF NoRegion, QueryTypes
  <2>2. QED
    BY <1>2, <1>7, <2>1 DEF NoRegion
<1>8. CASE StartVote
  <2>1. QueryTypes' /\ tasks' = Tasks(request, regions')
    BY <1>1, <1>8, StartVoteIsTyped
  <2>2. pc = "regions" /\ pc' = "vote" /\ script' = script /\ world' = world
    BY <1>8 DEF StartVote
  <2>3. Conserved'
    BY <2>1, <2>2, TasksBegin
  <2>4. Progress
    BY <2>2 DEF Progress, Phase
  <2>5. QED
    BY <2>1, <2>3, <2>4 DEF QueryInvariant
<1>9. ASSUME NEW task \in DOMAIN tasks, VoteLine(task)
      PROVE  QueryInvariant' /\ Progress
  <2>1. /\ QueryTypes' /\ regions' = regions /\ DOMAIN tasks' = DOMAIN tasks
        /\ tasks' = [tasks EXCEPT ![task] = Round(task)]
        /\ ~tasks[task].over
        /\ \/ Len(tasks'[task].rest) < Len(tasks[task].rest)
           \/ tasks'[task].over
        /\ \A P : CountIn(FlattenSeq(tasks'[task].lines), P) + CountIn(tasks'[task].rest, P)
                  = CountIn(FlattenSeq(tasks[task].lines), P) + CountIn(tasks[task].rest, P)
    BY <1>1, <1>9, VoteLineIsTyped
  <2>2. pc' = pc /\ script' = script /\ world' = world
    BY <1>9 DEF VoteLine
  <2>3. \A other \in DOMAIN tasks \ {task} : tasks'[other] = tasks[other]
    BY <2>1
  <2>4. Consulted(request)' = Consulted(request)
    BY <2>2, RequestStays
  <2>5. ASSUME NEW other \in DOMAIN tasks, NEW P
        PROVE  CountIn(FlattenSeq(tasks'[other].lines), P) + CountIn(tasks'[other].rest, P)
               = CountIn(Cloud(regions[other[1]], world.b, Consulted(request), other[2]), P)
    <3>1. CountIn(FlattenSeq(tasks[other].lines), P) + CountIn(tasks[other].rest, P)
          = CountIn(Cloud(regions[other[1]], world.b, Consulted(request), other[2]), P)
      BY <1>1 DEF Conserved
    <3>2. CASE other = task
      BY <2>1, <3>1, <3>2
    <3>3. CASE other # task
      <4>1. tasks'[other] = tasks[other]
        BY <2>3, <3>3
      <4>2. QED
        BY <3>1, <4>1
    <3>4. QED
      BY <3>2, <3>3
  <2>6. Conserved'
    BY <2>1, <2>2, <2>4, <2>5 DEF Conserved
  <2>7. Progress
    BY <2>1, <2>2, <2>3 DEF Progress
  <2>8. QED
    BY <2>1, <2>6, <2>7 DEF QueryInvariant
<1>10. CASE Answer
  <2>1. script # <<>>
    BY <1>1, <1>10 DEF Answer, QueryTypes
  <2>2. QED
    BY <1>2, <1>10, <2>1 DEF Answer
<1>11. ASSUME vars' = vars PROVE QueryInvariant'
  <2>1. /\ world' = world /\ script' = script /\ pc' = pc /\ cursor' = cursor /\ stop' = stop
        /\ regions' = regions /\ tasks' = tasks
    BY <1>11 DEF vars
  <2>2. request' = request /\ Consulted(request)' = Consulted(request)
        /\ (IsAdmitted(request)' <=> IsAdmitted(request))
    BY <2>1, RequestStays
  <2>3. QueryTypes'
    BY <1>1, <2>1, <2>2 DEF QueryTypes
  <2>4. Conserved'
    BY <1>1, <2>1, <2>2 DEF Conserved
  <2>5. QED
    BY <2>3, <2>4 DEF QueryInvariant
<1>12. CASE Done
  BY <1>11, <1>12 DEF Done
<1>13. QED
  BY <1>3, <1>4, <1>5, <1>6, <1>7, <1>8, <1>9, <1>10, <1>11, <1>12 DEF Next

\* The types of a request in progress, and that its tasks keep their hits.
THEOREM QueryIsInvariant == Spec => []QueryInvariant
<1>1. Init => QueryInvariant
  BY QueryInvariantHolds
<1>2. QueryInvariant /\ [Next]_vars => QueryInvariant'
  BY QueryInvariantStays
<1>3. QED
  BY <1>1, <1>2, PTL DEF Spec

\* Every variable holds what the types of the code and its control allow.
THEOREM QueriesAreTyped == Spec => []TypeOK
<1>1. ASSUME QueryInvariant PROVE TypeOK
  <2>1. QueryTypes
    BY <1>1 DEF QueryInvariant
  <2>2. ASSUME NEW task \in DOMAIN tasks
        PROVE  /\ task[1] \in DOMAIN regions /\ task[2] \in DOMAIN world.b
               /\ tasks[task].over \in BOOLEAN
    <3>1. pc = "vote"
      <4>1. tasks # <<>>
        <5>1. DOMAIN <<>> = {}
          OBVIOUS
        <5>2. QED
          BY <5>1
      <4>2. QED
        BY <2>1, <4>1 DEF QueryTypes
    <3>2. /\ world \in Worlds /\ script \in Seq(Queries) /\ script # <<>> /\ IsAdmitted(request)
          /\ regions \in Seq(Seq(Fingerprint))
          /\ tasks \in [(1 .. Len(regions)) \X Consulted(request) -> Task]
      BY <2>1, <3>1 DEF QueryTypes
    <3>3. request \in Queries
      BY <3>2, RequestIsQuery
    <3>4. Consulted(request) \subseteq DOMAIN world.b
      BY <3>2, <3>3 DEF Consulted, IsAdmitted, IsPair
    <3>5. task \in (1 .. Len(regions)) \X Consulted(request) /\ tasks[task] \in Task
      BY <3>2
    <3>6. DOMAIN regions = 1 .. Len(regions)
      BY <3>2
    <3>7. tasks[task].over \in BOOLEAN
      BY <3>5 DEF Task
    <3>8. QED
      BY <3>4, <3>5, <3>6, <3>7
  <2>3. QED
    BY <2>1, <2>2 DEF TypeOK, QueryTypes
<1>2. QED
  BY <1>1, QueryIsInvariant, PTL

\* The loops over the regions (span.rs region_prints) and over the lines of a
\* cloud (matcher.rs vote_lines) end.
THEOREM QueriesProgress == Spec => EveryStepIsProgress
<1>1. QueryInvariant /\ [Next]_vars => [Progress]_vars
  BY QueryInvariantStays
<1>2. QED
  BY <1>1, QueryIsInvariant, PTL DEF Spec, EveryStepIsProgress

\* Peeling loses no hit and uses none twice (matcher.rs vote_lines).
THEOREM HitsAreSpentOnce == Spec => []HitsVoteOnce
<1>1. ASSUME QueryInvariant PROVE HitsVoteOnce
  <2>1. QueryTypes /\ Conserved
    BY <1>1 DEF QueryInvariant
  <2> SUFFICES ASSUME NEW task \in DOMAIN tasks
               PROVE  LET all == Cloud(regions[task[1]], world.b, Consulted(request), task[2])
                          spent == FlattenSeq(tasks[task].lines) \o tasks[task].rest
                          Count(s, hit) == Cardinality({ i \in DOMAIN s : s[i] = hit })
                      IN  /\ Len(spent) = Len(all)
                          /\ \A hit \in ToSet(all) : Count(spent, hit) = Count(all, hit)
    BY DEF HitsVoteOnce
  <2> DEFINE all == Cloud(regions[task[1]], world.b, Consulted(request), task[2])
             found == FlattenSeq(tasks[task].lines)
             rest == tasks[task].rest
             spent == found \o rest
             Count(s, hit) == Cardinality({ i \in DOMAIN s : s[i] = hit })
  <2>2. pc = "vote"
    <3>1. DOMAIN <<>> = {}
      OBVIOUS
    <3>2. QED
      BY <2>1, <3>1 DEF QueryTypes
  <2>3. /\ world \in Worlds /\ script \in Seq(Queries) /\ script # <<>> /\ IsAdmitted(request)
        /\ regions \in Seq(Seq(Fingerprint))
        /\ tasks \in [(1 .. Len(regions)) \X Consulted(request) -> Task]
    BY <2>1, <2>2 DEF QueryTypes
  <2>4. request \in Queries /\ task \in (1 .. Len(regions)) \X Consulted(request)
    BY <2>3, RequestIsQuery
  <2>5. all \in Seq(Hits)
    <3>1. task[1] \in 1 .. Len(regions) /\ task[2] \in DOMAIN world.b
      BY <2>3, <2>4 DEF Consulted, IsAdmitted, IsPair
    <3>2. regions[task[1]] \in Seq(Fingerprint) /\ world.b[task[2]] \in Seq(Fingerprint)
      BY <2>3, <3>1, StoresHoldPrints, ElementOfSeq
    <3>3. QED
      BY <3>2, CloudIsOfHits
  <2>6. found \in Seq(Hits) /\ rest \in Seq(Hits)
    <3>1. tasks[task] \in Task
      BY <2>3
    <3>2. tasks[task].lines \in Seq(Seq(Hits)) /\ rest \in Seq(Hits)
      BY <3>1 DEF Task
    <3>3. QED
      BY <3>2, FlattenedIsList
  <2>7. \A P : CountIn(found, P) + CountIn(rest, P) = CountIn(all, P)
    BY <2>1 DEF Conserved
  <2> HIDE DEF all, found, rest
  <2>8. spent \in Seq(Hits) /\ \A P : CountIn(spent, P) = CountIn(all, P)
    <3>1. spent \in Seq(Hits) /\ \A P : CountIn(spent, P) = CountIn(found, P) + CountIn(rest, P)
      BY <2>6, CountOfBoth
    <3>2. QED
      BY <2>7, <3>1
  <2> HIDE DEF spent
  <2>9. Len(spent) = Len(all)
    <3>1. CountIn(spent, Hits) = Len(spent) /\ CountIn(all, Hits) = Len(all)
      BY <2>5, <2>8, CountIsNumber
    <3>2. QED
      BY <2>8, <3>1
  <2>10. ASSUME NEW hit PROVE Count(spent, hit) = Count(all, hit)
    <3>1. CountIn(spent, {hit}) = CountIn(all, {hit})
      BY <2>8
    <3>2. DOMAIN spent = 1 .. Len(spent) /\ DOMAIN all = 1 .. Len(all)
      BY <2>5, <2>8
    <3>3. { i \in DOMAIN spent : spent[i] = hit } = { i \in 1 .. Len(spent) : spent[i] \in {hit} }
      BY <3>2
    <3>4. { i \in DOMAIN all : all[i] = hit } = { i \in 1 .. Len(all) : all[i] \in {hit} }
      BY <3>2
    <3>5. QED
      BY <3>1, <3>3, <3>4 DEF CountIn
  <2>11. QED
    BY <2>9, <2>10 DEF all, found, rest, spent
<1>2. QED
  BY <1>1, QueryIsInvariant, PTL

-----------------------------------------------------------------------------
(* The prints between two bins.                                            *)

\* How many prints of the probe are before a bin.
IsFront(prints, x, b) == b \in 0 .. Len(prints) /\ \A i \in 1 .. Len(prints) : prints[i].t < x <=> i <= b

Below(prints, x) == CHOOSE b : IsFront(prints, x, b)

LEMMA BelowIsFront ==
    ASSUME NEW prints \in Seq(Fingerprint), InOrder(prints), NEW x \in Int
    PROVE  IsFront(prints, x, Below(prints, x))
<1> DEFINE n == Len(prints)
           S == { i \in 1 .. n : prints[i].t < x }
<1>1. n \in Nat /\ DOMAIN prints = 1 .. n /\ \A i \in 1 .. n : prints[i].t \in Int
  <2>1. n \in Nat /\ DOMAIN prints = 1 .. n /\ \A i \in 1 .. n : prints[i] \in Fingerprint
    BY ElementOfSeq
  <2>2. QED
    BY <2>1, BinsAreInTime DEF Fingerprint
<1>2. \A i, j \in 1 .. n : i < j => prints[i].t <= prints[j].t
  BY <1>1 DEF InOrder
<1>3. \E b : IsFront(prints, x, b)
  <2>1. CASE S = {}
    <3>1. IsFront(prints, x, 0)
      BY <1>1, <2>1 DEF IsFront
    <3>2. QED
      BY <3>1
  <2>2. CASE S # {}
    <3>1. IsFiniteSet(1 .. n)
      BY <1>1, FS_Interval
    <3>2. IsFiniteSet(S) /\ S \in SUBSET Nat
      BY <3>1, FS_Subset
    <3>3. Max(S) \in S /\ \A i \in S : i <= Max(S)
      BY <2>2, <3>2, GreatestElement
    <3> DEFINE b == Max(S)
    <3>4. b \in 1 .. n /\ prints[b].t < x /\ \A i \in 1 .. n : prints[i].t < x => i <= b
      BY <3>3
    <3> HIDE DEF b
    <3>5. ASSUME NEW i \in 1 .. n, i <= b PROVE prints[i].t < x
      <4>1. i < b \/ i = b
        BY <3>4, <3>5
      <4>2. prints[i].t <= prints[b].t
        BY <1>1, <1>2, <3>4, <4>1
      <4>3. QED
        BY <1>1, <3>4, <4>2
    <3>6. b \in 0 .. Len(prints)
      BY <3>4
    <3>7. IsFront(prints, x, b)
      BY <3>4, <3>5, <3>6 DEF IsFront
    <3>8. QED
      BY <3>7
  <2>3. QED
    BY <2>1, <2>2
<1>4. QED
  BY <1>3 DEF Below

\* The prints of an interval of bins are a part of the probe.
LEMMA ForwardIsPart ==
    ASSUME world \in Worlds, NEW q, q.key \in DOMAIN world.a, NEW from \in Int, NEW to \in Int,
           from <= to
    PROVE  LET a == Below(Probe(q), from)
               b == Below(Probe(q), to)
           IN  /\ a \in Nat /\ b \in Nat /\ a <= b /\ b <= Len(Probe(q))
               /\ Forward(q, from, to) = SubSeq(Probe(q), a + 1, b)
<1> DEFINE probe == Probe(q)
           n == Len(probe)
           a == Below(probe, from)
           b == Below(probe, to)
           chosen == { i \in DOMAIN probe : from <= probe[i].t /\ probe[i].t < to }
<1>1. probe \in Seq(Fingerprint) /\ InOrder(probe)
  BY TimesAreBins
<1>2. n \in Nat /\ DOMAIN probe = 1 .. n /\ \A i \in 1 .. n : probe[i].t \in Int
  <2>1. n \in Nat /\ DOMAIN probe = 1 .. n /\ \A i \in 1 .. n : probe[i] \in Fingerprint
    BY <1>1, ElementOfSeq
  <2>2. QED
    BY <2>1, BinsAreInTime DEF Fingerprint
<1>3. Forward(q, from, to) = ElementsAt(probe, chosen)
  BY DEF Forward, Selected
<1> HIDE DEF probe
<1>4. IsFront(probe, from, a) /\ IsFront(probe, to, b)
  BY <1>1, BelowIsFront
<1> HIDE DEF a, b
<1>5. /\ a \in Nat /\ b \in Nat /\ a <= n /\ b <= n
      /\ \A i \in 1 .. n : (probe[i].t < from <=> i <= a) /\ (probe[i].t < to <=> i <= b)
  BY <1>2, <1>4 DEF IsFront
<1>6. a <= b
  <2>1. CASE a = 0
    BY <1>5, <2>1
  <2>2. CASE a # 0
    <3>1. a \in 1 .. n /\ a <= a
      BY <1>5, <2>2
    <3>2. probe[a].t < from
      BY <1>5, <3>1
    <3>3. probe[a].t < to
      BY <1>2, <3>1, <3>2
    <3>4. QED
      BY <1>5, <3>1, <3>3
  <2>3. QED
    BY <2>1, <2>2
<1>7. chosen = a + 1 .. b
  <2>1. \A i \in 1 .. n : i \in chosen <=> (a < i /\ i <= b)
    BY <1>2, <1>5
  <2>2. QED
    BY <1>2, <1>5, <2>1
<1> HIDE DEF chosen
<1>8. ElementsAt(probe, a + 1 .. b) = SubSeq(probe, a + 1, b)
  BY <1>1, <1>5, <1>6, ElementsAtInterval
<1>9. QED
  BY <1>3, <1>5, <1>6, <1>7, <1>8 DEF probe, a, b

\* The prints of two intervals that meet are those of both in one.
LEMMA ForwardMeets ==
    ASSUME world \in Worlds, NEW q, q.key \in DOMAIN world.a,
           NEW x \in Int, NEW y \in Int, NEW z \in Int, x <= y, y <= z
    PROVE  /\ Forward(q, x, y) \o Forward(q, y, z) = Forward(q, x, z)
           /\ IsPrefix(Forward(q, x, y), Forward(q, x, z))
           /\ Forward(q, x, x) = <<>>
<1> DEFINE probe == Probe(q)
           a == Below(probe, x)
           b == Below(probe, y)
           c == Below(probe, z)
<1>1. probe \in Seq(Fingerprint)
  BY TimesAreBins
<1>2. /\ a \in Nat /\ b \in Nat /\ a <= b /\ b <= Len(probe)
      /\ Forward(q, x, y) = SubSeq(probe, a + 1, b)
  BY ForwardIsPart
<1>3. /\ c \in Nat /\ b <= c /\ c <= Len(probe) /\ Forward(q, y, z) = SubSeq(probe, b + 1, c)
  BY ForwardIsPart
<1>4. Forward(q, x, z) = SubSeq(probe, a + 1, c)
  <2>1. x <= z
    OBVIOUS
  <2>2. QED
    BY <2>1, ForwardIsPart
<1>5. Forward(q, x, x) = SubSeq(probe, a + 1, a)
  BY ForwardIsPart
<1> HIDE DEF probe, a, b, c
<1>6. /\ SubSeq(probe, a + 1, b) \o SubSeq(probe, b + 1, c) = SubSeq(probe, a + 1, c)
      /\ IsPrefix(SubSeq(probe, a + 1, b), SubSeq(probe, a + 1, c))
  BY <1>1, <1>2, <1>3, PartsMeet
<1>7. SubSeq(probe, a + 1, a) = <<>>
  BY <1>1, <1>2
<1>8. QED
  BY <1>2, <1>3, <1>4, <1>5, <1>6, <1>7

\* A print of the probe is among those of the intervals that its bin is in.
LEMMA ForwardHolds ==
    ASSUME world \in Worlds, NEW q, q.key \in DOMAIN world.a, NEW from, NEW to
    PROVE  /\ Forward(q, from, to) \in Seq(Fingerprint)
           /\ \A x : x \in ToSet(Forward(q, from, to)) <=>
                  /\ \E i \in 1 .. Len(Probe(q)) : x = Probe(q)[i]
                  /\ from <= x.t /\ x.t < to
<1> DEFINE probe == Probe(q)
           n == Len(probe)
           chosen == { i \in DOMAIN probe : from <= probe[i].t /\ probe[i].t < to }
           cut == Forward(q, from, to)
<1>1. probe \in Seq(Fingerprint)
  BY TimesAreBins
<1>2. cut = ElementsAt(probe, chosen)
  BY DEF Forward, Selected
<1>3. n \in Nat /\ DOMAIN probe = 1 .. n /\ \A i \in 1 .. n : i \in chosen => probe[i] \in Fingerprint
  BY <1>1, ElementOfSeq
<1>4. \A i \in 1 .. n : i \in chosen <=> from <= probe[i].t /\ probe[i].t < to
  BY <1>3
<1>5. \A i : i \in chosen => i \in 1 .. n
  BY <1>3
<1> HIDE DEF probe, chosen, cut
<1>6. cut \in Seq(Fingerprint) /\ \E at : IsSelection(at, n, chosen, probe, cut)
  BY <1>2, <1>3, ElementsAtAreElements
<1>7. PICK at : IsSelection(at, n, chosen, probe, cut)
  BY <1>6
<1>8. DOMAIN cut = 1 .. Len(cut)
  BY <1>6
<1>9. /\ \A k \in 1 .. Len(cut) : at[k] \in chosen /\ cut[k] = probe[at[k]]
      /\ \A i \in 1 .. n : i \in chosen => \E k \in 1 .. Len(cut) : at[k] = i
  BY <1>7 DEF IsSelection
<1>10. ASSUME NEW x
       PROVE  x \in ToSet(cut) <=> (\E i \in 1 .. n : x = probe[i]) /\ from <= x.t /\ x.t < to
  <2>1. ASSUME x \in ToSet(cut)
        PROVE  (\E i \in 1 .. n : x = probe[i]) /\ from <= x.t /\ x.t < to
    <3>1. PICK k \in 1 .. Len(cut) : x = cut[k]
      BY <1>8, <2>1 DEF ToSet
    <3>2. QED
      BY <1>4, <1>5, <1>9, <3>1
  <2>2. ASSUME NEW i \in 1 .. n, x = probe[i], from <= x.t, x.t < to PROVE x \in ToSet(cut)
    <3>1. PICK k \in 1 .. Len(cut) : at[k] = i
      BY <1>4, <1>9, <2>2
    <3>2. cut[k] = x
      BY <1>9, <2>2, <3>1
    <3>3. QED
      BY <1>8, <3>1, <3>2 DEF ToSet
  <2>3. QED
    BY <2>1, <2>2
<1>11. QED
  BY <1>6, <1>10 DEF cut, probe

-----------------------------------------------------------------------------
(* The time grid.                                                          *)

\* A bin is not before the first one of a second when its second is not
\* before it.
LEMMA FirstBinIsFirst ==
    ASSUME NEW s \in Nat, s >= Latency, NEW t \in Nat
    PROVE  LET bin == (s - Latency + Step - 1) \div Step
           IN  bin \in Nat /\ (bin <= t <=> s <= Ticks(t))
<1> DEFINE d == s - Latency
           bin == (d + Step - 1) \div Step
<1>1. Latency \in Nat /\ Step \in Nat \ {0} /\ d \in Nat /\ d + Step - 1 \in Nat
  BY QueryAssumption
<1> HIDE DEF d
<1>2. bin \in Nat /\ bin * Step <= d + Step - 1 /\ d + Step - 1 < bin * Step + Step
  BY <1>1
<1> HIDE DEF bin
<1>3. bin * Step \in Nat /\ t * Step \in Nat
  BY <1>1, <1>2
<1>4. ASSUME bin <= t PROVE d <= t * Step
  <2>1. bin * Step <= t * Step
    BY <1>1, <1>2, <1>4
  <2>2. QED
    BY <1>1, <1>2, <1>3, <2>1
<1>5. ASSUME t < bin PROVE t * Step < d
  <2>1. t * Step + Step <= bin * Step
    BY <1>1, <1>2, <1>5
  <2>2. QED
    BY <1>1, <1>2, <1>3, <2>1
<1>6. s <= Ticks(t) <=> d <= t * Step
  BY <1>1, <1>3 DEF Ticks, d
<1>7. bin <= t <=> d <= t * Step
  BY <1>1, <1>2, <1>3, <1>4, <1>5
<1>8. bin \in Nat /\ (bin <= t <=> s <= Ticks(t))
  BY <1>2, <1>6, <1>7
<1>9. QED
  BY <1>8 DEF bin, d

\* The bin of a second, rounded or not, is the first that reaches it.
RoundedBin(s) ==
    LET exact == (s - Latency + Step - 1) \div Step
    IN  IF IsRounded(s) THEN exact + 1 ELSE exact

LEMMA BinReaches ==
    ASSUME NEW s \in Nat, s >= Latency, NEW t \in Nat
    PROVE  RoundedBin(s) \in Nat /\ (RoundedBin(s) <= t <=> Reaches(t, s))
<1> DEFINE exact == (s - Latency + Step - 1) \div Step
<1>1. Latency \in Nat /\ Step \in Nat \ {0} /\ RoundedBins \subseteq Nat
  BY QueryAssumption
<1>2. exact \in Nat /\ \A u \in Nat : exact <= u <=> s <= Ticks(u)
  BY FirstBinIsFirst
<1>3. RoundedBin(s) = IF IsRounded(s) THEN exact + 1 ELSE exact
  BY DEF RoundedBin
<1> HIDE DEF exact
<1>4. Ticks(t) \in Nat
  BY <1>1 DEF Ticks
<1>5. CASE ~IsRounded(s)
  <2>1. Reaches(t, s) <=> s <= Ticks(t)
    BY <1>4, <1>5 DEF Reaches, IsRounded
  <2>2. QED
    BY <1>2, <1>3, <1>5, <2>1
<1>6. CASE IsRounded(s)
  <2>1. PICK u \in RoundedBins : s = Ticks(u)
    BY <1>6 DEF IsRounded
  <2>2. u \in Nat
    BY <1>1, <2>1
  <2>3. \A v \in Nat : Ticks(u) < Ticks(v) <=> u < v
    <3> TAKE v \in Nat
    <3>1. u < v => u * Step + Step <= v * Step
      BY <1>1, <2>2
    <3>2. v <= u => v * Step <= u * Step
      BY <1>1, <2>2
    <3>3. u * Step \in Nat /\ v * Step \in Nat
      BY <1>1, <2>2
    <3>4. QED
      BY <1>1, <2>2, <3>1, <3>2, <3>3 DEF Ticks
  <2>4. \A v \in Nat : s <= Ticks(v) <=> u <= v
    <3> TAKE v \in Nat
    <3>1. Ticks(v) < Ticks(u) <=> v < u
      <4>1. v < u => v * Step + Step <= u * Step
        BY <1>1, <2>2
      <4>2. u <= v => u * Step <= v * Step
        BY <1>1, <2>2
      <4>3. u * Step \in Nat /\ v * Step \in Nat
        BY <1>1, <2>2
      <4>4. QED
        BY <1>1, <2>2, <4>1, <4>2, <4>3 DEF Ticks
    <3>2. Ticks(v) \in Nat
      BY <1>1 DEF Ticks
    <3>3. QED
      BY <2>1, <2>2, <3>1, <3>2
  <2>5. exact = u
    <3>1. exact <= u /\ u <= exact
      BY <1>2, <2>2, <2>4
    <3>2. QED
      BY <1>2, <2>2, <3>1
  <2>6. Reaches(t, s) <=> u < t
    <3>1. s = Ticks(t) => t \in RoundedBins
      <4>1. ASSUME s = Ticks(t) PROVE t = u
        <5>1. u <= t /\ ~(u < t)
          BY <2>1, <2>3, <2>4, <4>1, <1>4
        <5>2. QED
          BY <2>2, <5>1
      <4>2. QED
        BY <2>1, <4>1
    <3>2. QED
      BY <2>1, <2>3, <3>1 DEF Reaches
  <2>7. QED
    BY <1>2, <1>3, <1>6, <2>2, <2>5, <2>6
<1>7. QED
  BY <1>5, <1>6

\* The bin of a second on the time grid.
LEMMA BinIsRounded ==
    ASSUME NEW s \in Nat
    PROVE  SecondsToBin(s) =
               IF s < Latency \/ RoundedBin(s) > MaxBin THEN None ELSE RoundedBin(s)
BY DEF SecondsToBin, RoundedBin

LEMMA BinIsFirst ==
    ASSUME NEW s \in Nat, Latency <= s, s < Ticks(MaxBin)
    PROVE  /\ SecondsToBin(s) \in 0 .. MaxBin /\ SecondsToBin(s) # None
           /\ \A t \in Nat : SecondsToBin(s) <= t <=> Reaches(t, s)
<1>1. MaxBin \in Nat /\ Latency \in Nat /\ None \notin Nat
  BY QueryAssumption
<1>2. \A t \in Nat : RoundedBin(s) \in Nat /\ (RoundedBin(s) <= t <=> Reaches(t, s))
  BY <1>1, BinReaches
<1>3. RoundedBin(s) <= MaxBin
  BY <1>1, <1>2 DEF Reaches
<1>4. RoundedBin(s) \in Nat
  BY <1>1, <1>2
<1>5. SecondsToBin(s) = RoundedBin(s)
  BY <1>1, <1>3, <1>4, BinIsRounded
<1>6. QED
  BY <1>1, <1>2, <1>3, <1>4, <1>5

\* The bin a window starts at, and the bin it stops at.
LEMMA StartIsFirstBin ==
    ASSUME NEW s \in Nat, s < Ticks(MaxBin), NEW t \in 0 .. MaxBin
    PROVE  OrElse(SecondsToBin(s), 0) <= t <=> Reaches(t, s)
<1>1. MaxBin \in Nat /\ Latency \in Nat /\ Step \in Nat \ {0} /\ None \notin Nat /\ t \in Nat
  BY QueryAssumption
<1>2. CASE s < Latency
  <2>1. OrElse(SecondsToBin(s), 0) = 0
    BY <1>2 DEF OrElse, SecondsToBin
  <2>2. t * Step \in Nat
    BY <1>1
  <2>3. Reaches(t, s)
    BY <1>1, <1>2, <2>2 DEF Ticks, Reaches
  <2>4. QED
    BY <1>1, <2>1, <2>3
<1>3. CASE s >= Latency
  <2>1. SecondsToBin(s) # None /\ (SecondsToBin(s) <= t <=> Reaches(t, s))
    BY <1>1, <1>3, BinIsFirst
  <2>2. QED
    BY <2>1 DEF OrElse
<1>4. QED
  BY <1>1, <1>2, <1>3

LEMMA StopIsFirstBin ==
    ASSUME NEW s \in Nat, s >= Latency, NEW t \in 0 .. MaxBin
    PROVE  t < OrElse(SecondsToBin(s), MaxBin) <=> (t < MaxBin /\ ~Reaches(t, s))
<1> DEFINE bin == RoundedBin(s)
<1>1. MaxBin \in Nat /\ Latency \in Nat /\ None \notin Nat /\ t \in Nat
  BY QueryAssumption
<1>2. bin \in Nat /\ (bin <= t <=> Reaches(t, s))
  BY <1>1, BinReaches
<1>3. SecondsToBin(s) = IF s < Latency \/ bin > MaxBin THEN None ELSE bin
  BY BinIsRounded
<1> HIDE DEF bin
<1>4. CASE bin > MaxBin
  <2>1. OrElse(SecondsToBin(s), MaxBin) = MaxBin
    BY <1>1, <1>3, <1>4 DEF OrElse
  <2>2. ~Reaches(t, s)
    BY <1>1, <1>2, <1>4
  <2>3. QED
    BY <2>1, <2>2
<1>5. CASE bin <= MaxBin
  <2>1. OrElse(SecondsToBin(s), MaxBin) = bin
    BY <1>1, <1>2, <1>3, <1>5 DEF OrElse
  <2>2. QED
    BY <1>1, <1>2, <1>5, <2>1
<1>6. QED
  BY <1>1, <1>2, <1>4, <1>5

\* A later second has no earlier bin.
LEMMA BinsGrow ==
    ASSUME NEW s \in Nat, NEW d \in Nat, Latency <= s, s <= d
    PROVE  RoundedBin(s) \in Nat /\ RoundedBin(d) \in Nat /\ RoundedBin(s) <= RoundedBin(d)
<1>1. Latency \in Nat /\ Step \in Nat \ {0}
  BY QueryAssumption
<1>2. RoundedBin(s) \in Nat /\ \A t \in Nat : RoundedBin(s) <= t <=> Reaches(t, s)
  BY <1>1, BinReaches
<1>3. RoundedBin(d) \in Nat /\ \A t \in Nat : RoundedBin(d) <= t <=> Reaches(t, d)
  BY <1>1, BinReaches
<1> DEFINE b == RoundedBin(d)
<1>4. b \in Nat /\ Reaches(b, d) /\ Ticks(b) \in Nat
  BY <1>1, <1>3 DEF Ticks
<1> HIDE DEF b
<1>5. Reaches(b, s)
  BY <1>4 DEF Reaches
<1>6. QED
  BY <1>2, <1>4, <1>5 DEF b

\* The bins of a window that is on the time grid are the prints in it.
LEMMA ProbedIsForward ==
    ASSUME world \in Worlds, NEW q, q.key \in DOMAIN world.a,
           q.window # None => q.window \in Nat \X Nat, IsOnGrid(q.window)
    PROVE  Probed(q) = Forward(q, WindowStart(q), WindowStop(q))
<1> DEFINE probe == Probe(q)
<1>1. /\ probe \in Seq(Fingerprint) /\ Times(q) \subseteq 0 .. MaxBin
      /\ \A i \in 1 .. Len(probe) : probe[i].t \in Times(q)
      /\ Times(q) # {} => /\ Min(Times(q)) \in Times(q) /\ Max(Times(q)) \in Times(q)
                          /\ \A t \in Times(q) : Min(Times(q)) <= t /\ t <= Max(Times(q))
  BY TimesAreBins
<1>2. MaxBin \in Nat
  BY BinsAreInTime
<1> HIDE DEF probe
<1>3. ASSUME NEW t \in Times(q)
      PROVE  (t < MaxBin
              /\ (q.window = None \/ (Reaches(t, q.window[1]) /\ ~Reaches(t, q.window[2]))))
             <=> (WindowStart(q) <= t /\ t < WindowStop(q))
  <2>1. t \in 0 .. MaxBin /\ Times(q) # {} /\ t \in Int
    BY <1>1
  <2>2. NaturalStart(q) <= t
    BY <1>1, <2>1 DEF NaturalStart
  <2>3. t < NaturalStop(q) <=> t < MaxBin
    <3> DEFINE top == Max(Times(q))
    <3>1. top \in 0 .. MaxBin /\ t <= top
      BY <1>1, <2>1
    <3>2. NaturalStop(q) = Saturate(top + 1)
      BY <2>1 DEF NaturalStop
    <3> HIDE DEF top
    <3>3. QED
      BY <1>2, <2>1, <3>1, <3>2 DEF Saturate, Least
  <2>4. CASE q.window = None
    BY <2>2, <2>3, <2>4 DEF WindowStart, WindowStop
  <2>5. CASE q.window # None
    <3>1. /\ q.window[1] \in Nat /\ q.window[2] \in Nat
          /\ q.window[1] < Ticks(MaxBin) /\ Latency <= q.window[2]
      BY <2>5 DEF IsOnGrid
    <3>2. WindowStart(q) <= t <=> Reaches(t, q.window[1])
      BY <2>1, <2>5, <3>1, StartIsFirstBin DEF WindowStart
    <3>3. t < OrElse(SecondsToBin(q.window[2]), MaxBin)
              <=> (t < MaxBin /\ ~Reaches(t, q.window[2]))
      <4>1. q.window[2] >= Latency
        BY <3>1, QueryAssumption
      <4>2. QED
        BY <2>1, <3>1, <4>1, StopIsFirstBin
    <3>4. t < WindowStop(q) <=> (t < MaxBin /\ ~Reaches(t, q.window[2]))
      <4> DEFINE bin == OrElse(SecondsToBin(q.window[2]), MaxBin)
      <4>1. WindowStop(q) = Least(bin, NaturalStop(q))
        BY <2>5 DEF WindowStop
      <4>2. bin \in 0 .. MaxBin /\ NaturalStop(q) \in 0 .. MaxBin
        BY <3>1, BinsAreInTime, WindowIsInTime
      <4> HIDE DEF bin
      <4>3. t < Least(bin, NaturalStop(q)) <=> (t < bin /\ t < NaturalStop(q))
        BY <2>1, <4>2 DEF Least
      <4>4. QED
        BY <2>3, <3>3, <4>1, <4>3 DEF bin
    <3>5. QED
      BY <2>5, <3>2, <3>4
  <2>6. QED
    BY <2>4, <2>5
<1> DEFINE In(print) ==
               /\ print.t < MaxBin
               /\ \/ q.window = None
                  \/ Reaches(print.t, q.window[1]) /\ ~Reaches(print.t, q.window[2])
           A == { i \in DOMAIN probe : In(probe[i]) }
           B == { i \in DOMAIN probe : WindowStart(q) <= probe[i].t /\ probe[i].t < WindowStop(q) }
<1>4. A = B
  <2>1. DOMAIN probe = 1 .. Len(probe)
    BY <1>1
  <2>2. ASSUME NEW i \in DOMAIN probe
        PROVE  In(probe[i])
               <=> (WindowStart(q) <= probe[i].t /\ probe[i].t < WindowStop(q))
    <3>1. probe[i].t \in Times(q)
      BY <1>1, <2>1
    <3>2. QED
      BY <1>3, <3>1
  <2>3. QED
    BY <2>2
<1>5. Probed(q) = ElementsAt(probe, A)
  BY DEF Probed, Selected, probe
<1>6. Forward(q, WindowStart(q), WindowStop(q)) = ElementsAt(probe, B)
  BY DEF Forward, Selected, probe
<1>7. QED
  BY <1>4, <1>5, <1>6

-----------------------------------------------------------------------------
(* The regions.                                                            *)

\* Prints of the window that a region must hold together.
IsClose(x, y) == x.t <= y.t /\ y.t - x.t <= WindowBins - HopBins

\* The regions so far are the window cut up to the cursor.
RegionsAreCut ==
    (pc # "idle" /\ request.verb # "match") =>
        /\ stop = WindowStop(request)
        /\ WindowStart(request) < stop /\ WindowStart(request) <= cursor
        /\ pc = "vote" => cursor >= stop
        /\ \A g \in DOMAIN regions :
               /\ regions[g] # <<>>
               /\ \E from, to \in 0 .. MaxBin :
                      /\ WindowStart(request) <= from /\ from <= to /\ to <= stop
                      /\ regions[g] = Forward(request, from, to)
        /\ ~IsPassages(request) =>
               FlattenSeq(regions) = Forward(request, WindowStart(request), Least(cursor, stop))
        /\ IsPassages(request) =>
               \A x, y \in ToSet(Forward(request, WindowStart(request), stop)) :
                   (IsClose(x, y) /\ x.t < cursor)
                   => \E g \in DOMAIN regions : {x, y} \subseteq ToSet(regions[g])

\* With the stores and the request the window and the probe stay.
LEMMA WindowStays ==
    ASSUME world' = world, script' = script
    PROVE  /\ request' = request
           /\ WindowStart(request)' = WindowStart(request)
           /\ WindowStop(request)' = WindowStop(request)
           /\ \A from, to : Forward(request, from, to)' = Forward(request, from, to)
           /\ IsPassages(request)' <=> IsPassages(request)
<1>1. request' = request
  BY DEF request
<1>2. Probe(request)' = Probe(request)
  BY <1>1 DEF Probe
<1>3. Times(request)' = Times(request)
  BY <1>1, <1>2 DEF Times
<1>4. NaturalStart(request)' = NaturalStart(request) /\ NaturalStop(request)' = NaturalStop(request)
  BY <1>1, <1>3 DEF NaturalStart, NaturalStop, IsPassages
<1>5. \A from, to : Forward(request, from, to)' = Forward(request, from, to)
  BY <1>1, <1>2 DEF Forward, Selected
<1>6. QED
  BY <1>1, <1>4, <1>5 DEF WindowStart, WindowStop, IsPassages

\* A step that leaves the regions as they are.
LEMMA CutStays ==
    ASSUME RegionsAreCut, world' = world, script' = script, regions' = regions,
           cursor' = cursor, stop' = stop, pc # "idle", pc' = "vote" => pc = "vote" \/ cursor >= stop
    PROVE  RegionsAreCut'
<1>1. /\ request' = request
      /\ WindowStart(request)' = WindowStart(request)
      /\ WindowStop(request)' = WindowStop(request)
      /\ \A from, to : Forward(request, from, to)' = Forward(request, from, to)
      /\ IsPassages(request)' <=> IsPassages(request)
  BY WindowStays
<1>2. QED
  BY <1>1 DEF RegionsAreCut

LEMMA StartRegionsIsCut ==
    ASSUME QueryTypes, StartRegions
    PROVE  RegionsAreCut'
<1>1. /\ script # <<>> /\ ~Refused(request) /\ request.verb # "match" /\ pc = "idle"
      /\ pc' = "regions" /\ cursor' = WindowStart(request) /\ stop' = WindowStop(request)
      /\ world' = world /\ script' = script /\ regions' = regions
  BY DEF StartRegions
<1>2. /\ request \in Queries /\ (request.window # None => request.window \in Nat \X Nat)
      /\ world \in Worlds /\ regions = <<>>
  BY <1>1, RequestIsQuery DEF QueryTypes
<1>3. request.key \in DOMAIN world.a /\ WindowStart(request) < WindowStop(request)
  BY <1>1, <1>2, NotRefused DEF IsAdmitted
<1> DEFINE start == WindowStart(request)
           end == WindowStop(request)
<1>4. start \in 0 .. MaxBin /\ end \in 0 .. MaxBin /\ start < end /\ MaxBin \in Nat
  BY <1>2, <1>3, WindowIsInTime, BinsAreInTime
<1>5. /\ request' = request /\ start' = start /\ end' = end
      /\ \A from, to : Forward(request, from, to)' = Forward(request, from, to)
      /\ IsPassages(request)' <=> IsPassages(request)
  BY <1>1, WindowStays
<1>6. DOMAIN <<>> = {} /\ FlattenSeq(<<>>) = <<>>
  <2>1. FlattenSeq(<<>>) = <<>>
    BY DEF FlattenSeq
  <2>2. DOMAIN <<>> = {}
    OBVIOUS
  <2>3. QED
    BY <2>1, <2>2
<1> HIDE DEF start, end
<1>7. Least(start, end) = start
  BY <1>4 DEF Least
<1>8. Forward(request, start, start) = <<>>
  BY <1>2, <1>3, <1>4, ForwardMeets
<1>9. ASSUME NEW x \in ToSet(Forward(request, start, end)), x.t < start PROVE FALSE
  <2>1. start <= x.t /\ \E i \in 1 .. Len(Probe(request)) : x = Probe(request)[i]
    BY <1>2, <1>3, <1>9, ForwardHolds
  <2>2. x.t \in 0 .. MaxBin
    <3>1. Probe(request) \in Seq(Fingerprint)
      BY <1>2, <1>3, TimesAreBins
    <3>2. x \in Fingerprint
      BY <2>1, <3>1, ElementOfSeq
    <3>3. QED
      BY <3>2 DEF Fingerprint
  <2>3. QED
    BY <1>4, <1>9, <2>1, <2>2
<1>10. regions' = <<>> /\ cursor' = start /\ stop' = end
  BY <1>1, <1>2 DEF start, end
<1>11. QED
  BY <1>1, <1>4, <1>5, <1>6, <1>7, <1>8, <1>9, <1>10 DEF RegionsAreCut, start, end

\* The prints of a probe have bins.
LEMMA ForwardHasBins ==
    ASSUME world \in Worlds, NEW q, q.key \in DOMAIN world.a, NEW from, NEW to,
           NEW x \in ToSet(Forward(q, from, to))
    PROVE  x.t \in 0 .. MaxBin /\ from <= x.t /\ x.t < to
<1>1. from <= x.t /\ x.t < to /\ \E i \in 1 .. Len(Probe(q)) : x = Probe(q)[i]
  BY ForwardHolds
<1>2. Probe(q) \in Seq(Fingerprint)
  BY TimesAreBins
<1>3. x \in Fingerprint
  BY <1>1, <1>2, ElementOfSeq
<1>4. QED
  BY <1>1, <1>3 DEF Fingerprint

LEMMA NextRegionIsCut ==
    ASSUME QueryTypes, RegionsAreCut, NextRegion
    PROVE  RegionsAreCut'
<1> DEFINE start == WindowStart(request)
           next == NextStart(request, cursor)
           reach == RegionStop(request, cursor)
           to == Least(reach, stop)
           prints == Forward(request, cursor, to)
<1>1. /\ pc = "regions" /\ pc' = "regions" /\ cursor < stop
      /\ regions' = IF prints = <<>> THEN regions ELSE Append(regions, prints)
      /\ cursor' = next
      /\ world' = world /\ script' = script /\ stop' = stop
  BY DEF NextRegion
<1>2. /\ script # <<>> /\ IsAdmitted(request) /\ request.verb # "match" /\ world \in Worlds
      /\ cursor \in 0 .. MaxBin /\ stop \in 0 .. MaxBin /\ regions \in Seq(Seq(Fingerprint))
      /\ MaxBin \in Nat
  BY <1>1, BinsAreInTime DEF QueryTypes
<1>3. request.key \in DOMAIN world.a
  BY <1>2 DEF IsAdmitted
<1>4. /\ stop = WindowStop(request) /\ start < stop /\ start <= cursor
      /\ \A g \in DOMAIN regions :
             /\ regions[g] # <<>>
             /\ \E a, b \in 0 .. MaxBin :
                    start <= a /\ a <= b /\ b <= stop /\ regions[g] = Forward(request, a, b)
      /\ ~IsPassages(request) =>
             FlattenSeq(regions) = Forward(request, start, Least(cursor, stop))
      /\ IsPassages(request) =>
             \A x, y \in ToSet(Forward(request, start, stop)) :
                 (IsClose(x, y) /\ x.t < cursor)
                 => \E g \in DOMAIN regions : {x, y} \subseteq ToSet(regions[g])
  BY <1>1, <1>2 DEF RegionsAreCut
<1>5. start \in Nat
  <2>1. request \in Queries /\ (request.window # None => request.window \in Nat \X Nat)
    BY <1>1, <1>2, RequestIsQuery DEF QueryTypes
  <2>2. QED
    BY <1>2, <1>3, <2>1, WindowIsInTime
<1>6. /\ next \in 0 .. MaxBin /\ reach \in 0 .. MaxBin /\ next > cursor /\ reach > cursor
  <2>1. cursor < MaxBin
    BY <1>1, <1>2
  <2>2. QED
    BY <1>2, <2>1, NextStartIsLater
<1>7. to \in 0 .. MaxBin /\ cursor < to /\ to <= stop
  BY <1>1, <1>2, <1>6 DEF Least
<1>8. /\ request' = request /\ start' = start /\ WindowStop(request)' = WindowStop(request)
      /\ \A a, b : Forward(request, a, b)' = Forward(request, a, b)
      /\ IsPassages(request)' <=> IsPassages(request)
  BY <1>1, WindowStays
<1>9. prints \in Seq(Fingerprint)
  BY <1>2, <1>3, ForwardIsPrints
<1> DEFINE n == Len(regions)
<1>10. /\ n \in Nat /\ DOMAIN regions = 1 .. n
       /\ regions' \in Seq(Seq(Fingerprint))
       /\ \A g \in DOMAIN regions : g \in DOMAIN regions' /\ regions'[g] = regions[g]
       /\ prints # <<>> => n + 1 \in DOMAIN regions' /\ regions'[n + 1] = prints
       /\ \A g \in DOMAIN regions' : g \in DOMAIN regions \/ (prints # <<>> /\ g = n + 1)
       /\ prints = <<>> => regions' = regions
  <2>1. CASE prints = <<>>
    BY <1>1, <1>2, <2>1
  <2>2. CASE prints # <<>>
    <3>1. regions' = Append(regions, prints)
      BY <1>1, <2>2
    <3> HIDE DEF prints
    <3>2. /\ regions' \in Seq(Seq(Fingerprint)) /\ Len(regions') = n + 1
          /\ \A g \in 1 .. n : regions'[g] = regions[g]
          /\ regions'[n + 1] = prints
      BY <1>2, <1>9, <3>1, AppendProperties
    <3>3. DOMAIN regions' = 1 .. n + 1 /\ DOMAIN regions = 1 .. n /\ n \in Nat
      BY <1>2, <3>2
    <3>4. QED
      BY <2>2, <3>2, <3>3
  <2>3. QED
    BY <2>1, <2>2
<1> HIDE DEF n, start
<1>11. ASSUME NEW g \in DOMAIN regions'
       PROVE  /\ regions'[g] # <<>>
              /\ \E a, b \in 0 .. MaxBin :
                     start <= a /\ a <= b /\ b <= stop /\ regions'[g] = Forward(request, a, b)
  <2>1. CASE g \in DOMAIN regions
    <3>1. regions'[g] = regions[g]
      BY <1>10, <2>1
    <3>2. QED
      BY <1>4, <2>1, <3>1
  <2>2. CASE prints # <<>> /\ g = n + 1
    <3>1. regions'[g] = Forward(request, cursor, to) /\ regions'[g] # <<>>
      BY <1>10, <2>2
    <3>2. start <= cursor /\ cursor <= to /\ to <= stop /\ cursor \in 0 .. MaxBin /\ to \in 0 .. MaxBin
      BY <1>2, <1>4, <1>5, <1>7
    <3> HIDE DEF to
    <3>3. QED
      BY <3>1, <3>2
  <2>3. QED
    BY <1>10, <2>1, <2>2
<1>12. ASSUME ~IsPassages(request)
       PROVE  FlattenSeq(regions') = Forward(request, start, Least(next, stop))
  <2>1. to = Least(next, stop)
    BY <1>12 DEF NextStart, RegionStop
  <2>2. Least(cursor, stop) = cursor
    BY <1>1, <1>2 DEF Least
  <2>3. FlattenSeq(regions) = Forward(request, start, cursor)
    BY <1>4, <1>12, <2>2
  <2>4. Forward(request, start, cursor) \o prints = Forward(request, start, to)
    <3>1. start \in Int /\ cursor \in Int /\ to \in Int /\ start <= cursor /\ cursor <= to
      BY <1>2, <1>4, <1>5, <1>7
    <3> HIDE DEF to
    <3>2. QED
      BY <1>2, <1>3, <3>1, ForwardMeets
  <2>5. Forward(request, start, cursor) \in Seq(Fingerprint)
    BY <1>2, <1>3, ForwardIsPrints
  <2>6. FlattenSeq(regions') = FlattenSeq(regions) \o prints
    <3>1. CASE prints = <<>>
      <4>1. Forward(request, start, cursor) \o <<>> = Forward(request, start, cursor)
        BY <2>5, ConcatEmptySeq
      <4>2. QED
        BY <1>10, <2>3, <3>1, <4>1
    <3>2. CASE prints # <<>>
      <4>1. regions' = Append(regions, prints)
        BY <1>1, <3>2
      <4> HIDE DEF prints
      <4>2. QED
        BY <1>2, <1>9, <4>1, FlattenedGrows
    <3>3. QED
      BY <3>1, <3>2
  <2>7. QED
    BY <2>1, <2>3, <2>4, <2>6
<1>13. ASSUME IsPassages(request), NEW x \in ToSet(Forward(request, start, stop)),
              NEW y \in ToSet(Forward(request, start, stop)), IsClose(x, y), x.t < next
       PROVE  \E g \in DOMAIN regions' : {x, y} \subseteq ToSet(regions'[g])
  <2>1. CASE x.t < cursor
    <3>1. PICK g \in DOMAIN regions : {x, y} \subseteq ToSet(regions[g])
      BY <1>4, <1>13, <2>1
    <3>2. QED
      BY <1>10, <3>1
  <2>2. CASE ~(x.t < cursor)
    <3>1. /\ x.t \in 0 .. MaxBin /\ x.t < stop /\ y.t \in 0 .. MaxBin /\ y.t < stop
      BY <1>2, <1>3, ForwardHasBins
    <3>2. x.t <= y.t /\ y.t - x.t <= WindowBins - HopBins
      BY <1>13 DEF IsClose
    <3>3. WindowBins \in Nat /\ HopBins \in Nat
      BY QueryAssumption
    <3>4. x.t < cursor + HopBins
      BY <1>2, <1>13, <3>1, <3>3 DEF NextStart, Saturate, Least
    <3>5. y.t < cursor + WindowBins
      BY <1>2, <3>1, <3>2, <3>3, <3>4
    <3>6. y.t < reach
      <4>1. reach = Least(cursor + WindowBins, MaxBin)
        BY <1>13 DEF RegionStop, Saturate
      <4>2. y.t < MaxBin
        BY <1>2, <3>1
      <4>3. QED
        BY <4>1, <4>2, <3>5 DEF Least
    <3>7. cursor <= x.t /\ x.t < to /\ cursor <= y.t /\ y.t < to
      BY <1>2, <1>6, <2>2, <3>1, <3>2, <3>6 DEF Least
    <3>8. /\ \E i \in 1 .. Len(Probe(request)) : x = Probe(request)[i]
          /\ \E i \in 1 .. Len(Probe(request)) : y = Probe(request)[i]
      BY <1>2, <1>3, ForwardHolds
    <3> HIDE DEF to
    <3>9. x \in ToSet(prints) /\ y \in ToSet(prints)
      BY <1>2, <1>3, <3>7, <3>8, ForwardHolds
    <3>10. prints # <<>>
      <4>1. ToSet(<<>>) = {}
        BY DEF ToSet
      <4>2. QED
        BY <3>9, <4>1
    <3>11. n + 1 \in DOMAIN regions' /\ regions'[n + 1] = prints
      BY <1>10, <3>10
    <3>12. QED
      BY <3>9, <3>11
  <2>3. QED
    BY <2>1, <2>2
<1>14. start <= next
  BY <1>2, <1>4, <1>5, <1>6
<1> HIDE DEF next, reach, to, prints
<1>15. /\ stop' = WindowStop(request)' /\ start' < stop' /\ start' <= cursor'
       /\ pc' = "regions" /\ cursor' = next
  BY <1>1, <1>4, <1>8, <1>14
<1>16. QED
  BY <1>1, <1>8, <1>11, <1>12, <1>13, <1>15 DEF RegionsAreCut, start

LEMMA CutIsKept ==
    ASSUME QueryTypes, QueryTypes', RegionsAreCut, [Next]_vars
    PROVE  RegionsAreCut'
<1>1. ASSUME NEW ok, NEW rows, Reply(ok, rows) PROVE RegionsAreCut'
  BY <1>1 DEF Reply, RegionsAreCut
<1>2. CASE Refuse
  BY <1>1, <1>2 DEF Refuse
<1>3. CASE Match
  <2>1. request.verb = "match" /\ world' = world /\ script' = script
    BY <1>3 DEF Match
  <2>2. request' = request
    BY <2>1, RequestStays
  <2>3. QED
    BY <2>1, <2>2 DEF RegionsAreCut
<1>4. CASE StartRegions
  BY <1>4, StartRegionsIsCut
<1>5. CASE NextRegion
  BY <1>5, NextRegionIsCut
<1>6. CASE NoRegion
  BY <1>1, <1>6 DEF NoRegion
<1>7. CASE StartVote
  <2>1. /\ pc = "regions" /\ cursor >= stop /\ world' = world /\ script' = script
        /\ cursor' = cursor /\ stop' = stop /\ regions' = regions
    BY <1>7 DEF StartVote
  <2>2. QED
    BY <2>1, CutStays
<1>8. ASSUME NEW task \in DOMAIN tasks, VoteLine(task) PROVE RegionsAreCut'
  <2>1. /\ pc = "vote" /\ world' = world /\ script' = script
        /\ cursor' = cursor /\ stop' = stop /\ regions' = regions
    BY <1>8 DEF VoteLine
  <2>2. QED
    BY <2>1, CutStays
<1>9. CASE Answer
  BY <1>1, <1>9 DEF Answer
<1>10. CASE vars' = vars
  <2>1. /\ pc' = pc /\ world' = world /\ script' = script
        /\ cursor' = cursor /\ stop' = stop /\ regions' = regions
    BY <1>10 DEF vars
  <2>2. CASE pc = "idle"
    BY <2>1, <2>2 DEF RegionsAreCut
  <2>3. CASE pc # "idle"
    BY <2>1, <2>3, CutStays
  <2>4. QED
    BY <2>2, <2>3
<1>11. CASE Done
  BY <1>10, <1>11 DEF Done
<1>12. QED
  BY <1>2, <1>3, <1>4, <1>5, <1>6, <1>7, <1>8, <1>9, <1>10, <1>11 DEF Next

\* The regions are the window cut up to the cursor (span.rs region_prints).
THEOREM RegionsStayCut == Spec => []RegionsAreCut
<1>1. Init => RegionsAreCut
  BY DEF Init, RegionsAreCut
<1>2. QueryInvariant /\ QueryInvariant' /\ RegionsAreCut /\ [Next]_vars => RegionsAreCut'
  BY CutIsKept DEF QueryInvariant
<1>3. QED
  BY <1>1, <1>2, QueryIsInvariant, PTL DEF Spec

\* What the invariant says of the window of a request that is not over.
LEMMA WindowOfRequest ==
    ASSUME QueryTypes, RegionsAreCut, pc # "idle", request.verb # "match", IsOnGrid(request.window)
    PROVE  /\ world \in Worlds /\ request.key \in DOMAIN world.a
           /\ WindowStart(request) \in Nat /\ stop \in 0 .. MaxBin /\ cursor \in 0 .. MaxBin
           /\ WindowStart(request) < stop /\ WindowStart(request) <= cursor
           /\ regions \in Seq(Seq(Fingerprint))
           /\ Probed(request) = Forward(request, WindowStart(request), stop)
<1>1. /\ world \in Worlds /\ request.key \in DOMAIN world.a /\ script # <<>> /\ script \in Seq(Queries)
      /\ stop \in 0 .. MaxBin /\ cursor \in 0 .. MaxBin /\ regions \in Seq(Seq(Fingerprint))
  BY DEF QueryTypes, IsAdmitted
<1>2. request.window # None => request.window \in Nat \X Nat
  BY <1>1, RequestIsQuery
<1>3. /\ stop = WindowStop(request) /\ WindowStart(request) < stop /\ WindowStart(request) <= cursor
  BY DEF RegionsAreCut
<1>4. WindowStart(request) \in Nat
  BY <1>1, <1>2, WindowIsInTime
<1>5. QED
  BY <1>1, <1>2, <1>3, <1>4, ProbedIsForward

\* The regions hold the prints of the window each once and in order, whichever
\* bins are rounded up (span.rs region_prints, config.rs seconds_to_bin).
THEOREM ProbesAreWhole == Spec => []PrintsAreProbed
<1>1. ASSUME QueryTypes, RegionsAreCut PROVE PrintsAreProbed
  <2> SUFFICES ASSUME script # <<>>, request.verb \in {"span", "crosscheck"}, pc # "idle",
                      IsOnGrid(request.window)
               PROVE  IF pc = "regions" THEN IsPrefix(FlattenSeq(regions), Probed(request))
                      ELSE FlattenSeq(regions) = Probed(request)
    BY DEF PrintsAreProbed
  <2> DEFINE start == WindowStart(request)
  <2>1. request.verb # "match" /\ ~IsPassages(request)
    BY DEF IsPassages
  <2>2. /\ world \in Worlds /\ request.key \in DOMAIN world.a /\ start \in Nat
        /\ stop \in 0 .. MaxBin /\ cursor \in 0 .. MaxBin /\ start < stop /\ start <= cursor
        /\ Probed(request) = Forward(request, start, stop)
    BY <1>1, <2>1, WindowOfRequest
  <2>3. /\ FlattenSeq(regions) = Forward(request, start, Least(cursor, stop))
        /\ pc = "vote" => cursor >= stop
    BY <1>1, <2>1 DEF RegionsAreCut
  <2> HIDE DEF start
  <2>4. MaxBin \in Nat
    BY BinsAreInTime
  <2>5. /\ Least(cursor, stop) \in Int /\ start <= Least(cursor, stop) /\ Least(cursor, stop) <= stop
        /\ cursor >= stop => Least(cursor, stop) = stop
    BY <2>2, <2>4 DEF Least
  <2>6. IsPrefix(Forward(request, start, Least(cursor, stop)), Forward(request, start, stop))
    <3>1. start \in Int /\ stop \in Int
      BY <2>2, <2>4
    <3>2. QED
      BY <2>2, <2>5, <3>1, ForwardMeets
  <2>7. pc = "regions" \/ pc = "vote"
    BY <1>1 DEF QueryTypes
  <2>8. QED
    BY <2>2, <2>3, <2>5, <2>6, <2>7
<1>2. QueryInvariant /\ RegionsAreCut => PrintsAreProbed
  BY <1>1 DEF QueryInvariant
<1>3. QED
  BY <1>2, QueryIsInvariant, RegionsStayCut, PTL

\* Prints of the window that are close enough are in one region of the passage
\* lane (span.rs region_prints, passage.rs PASSAGE_GEOMETRY).
THEOREM CloseStaysTogether == Spec => []CloseIsTogether
<1>1. ASSUME QueryTypes, RegionsAreCut PROVE CloseIsTogether
  <2> SUFFICES ASSUME script # <<>>, pc = "vote", request.verb \in {"passages", "discover"},
                      IsOnGrid(request.window)
               PROVE  LET probed == Probed(request)
                      IN  /\ \A g \in DOMAIN regions : \E i, j \in DOMAIN probed :
                                 regions[g] = SubSeq(probed, i, j)
                          /\ \A i, j \in DOMAIN probed :
                                 (i <= j /\ probed[j].t - probed[i].t <= WindowBins - HopBins)
                                 => \E g \in DOMAIN regions : {probed[i], probed[j]} \subseteq ToSet(regions[g])
    BY DEF CloseIsTogether
  <2> DEFINE start == WindowStart(request)
             probed == Probed(request)
             probe == Probe(request)
  <2>1. request.verb # "match" /\ IsPassages(request)
    BY DEF IsPassages
  <2>2. /\ world \in Worlds /\ request.key \in DOMAIN world.a /\ start \in Nat
        /\ stop \in 0 .. MaxBin /\ cursor \in 0 .. MaxBin /\ start < stop /\ start <= cursor
        /\ probed = Forward(request, start, stop) /\ MaxBin \in Nat
        /\ start \in Int /\ stop \in Int /\ start <= stop
    <3>1. MaxBin \in Nat
      BY BinsAreInTime
    <3>2. QED
      BY <1>1, <2>1, <3>1, WindowOfRequest
  <2>3. /\ cursor >= stop
        /\ \A g \in DOMAIN regions :
               /\ regions[g] # <<>>
               /\ \E from, to \in 0 .. MaxBin :
                      start <= from /\ from <= to /\ to <= stop /\ regions[g] = Forward(request, from, to)
        /\ \A x, y \in ToSet(probed) :
               (IsClose(x, y) /\ x.t < cursor)
               => \E g \in DOMAIN regions : {x, y} \subseteq ToSet(regions[g])
    BY <1>1, <2>1, <2>2 DEF RegionsAreCut
  <2>4. probe \in Seq(Fingerprint) /\ InOrder(probe)
    BY <2>2, TimesAreBins
  <2> DEFINE a == Below(probe, start)
             d == Below(probe, stop)
  <2>5. a \in Nat /\ d \in Nat /\ a <= d /\ d <= Len(probe) /\ probed = SubSeq(probe, a + 1, d)
    BY <2>2, ForwardIsPart
  <2> HIDE DEF start, probed
  <2>6. ASSUME NEW g \in DOMAIN regions
        PROVE  \E i, j \in DOMAIN probed : regions[g] = SubSeq(probed, i, j)
    <3>1. PICK from \in 0 .. MaxBin, to \in 0 .. MaxBin :
              /\ start <= from /\ from <= to /\ to <= stop
              /\ regions[g] # <<>> /\ regions[g] = Forward(request, from, to)
      BY <2>3
    <3>2. from \in Int /\ to \in Int
      BY <2>2
    <3> DEFINE b == Below(probe, from)
               c == Below(probe, to)
    <3>3. a <= b /\ b \in Nat
      BY <2>2, <3>1, <3>2, ForwardIsPart
    <3>4. b <= c /\ c \in Nat /\ c <= Len(probe) /\ regions[g] = SubSeq(probe, b + 1, c)
      BY <2>2, <3>1, <3>2, ForwardIsPart
    <3>5. c <= d
      BY <2>2, <3>1, <3>2, ForwardIsPart
    <3> HIDE DEF a, b, c, d, probe
    <3>6. b < c
      <4>1. ASSUME b = c PROVE FALSE
        <5>1. SubSeq(probe, b + 1, b) = <<>>
          BY <2>4, <3>3, <3>4
        <5>2. QED
          BY <3>1, <3>4, <4>1, <5>1
      <4>2. QED
        BY <3>3, <3>4, <4>1
    <3>7. /\ b - a + 1 \in DOMAIN probed /\ c - a \in DOMAIN probed
          /\ SubSeq(probe, b + 1, c) = SubSeq(probed, b - a + 1, c - a)
      BY <2>4, <2>5, <3>3, <3>4, <3>5, <3>6, PartOfPart
    <3>8. QED
      BY <3>4, <3>7
  <2>7. ASSUME NEW i \in DOMAIN probed, NEW j \in DOMAIN probed, i <= j,
               probed[j].t - probed[i].t <= WindowBins - HopBins
        PROVE  \E g \in DOMAIN regions : {probed[i], probed[j]} \subseteq ToSet(regions[g])
    <3> DEFINE x == probed[i]
               y == probed[j]
    <3>1. x \in ToSet(probed) /\ y \in ToSet(probed)
      BY DEF ToSet
    <3>2. x.t < cursor
      <4>1. x.t \in 0 .. MaxBin /\ x.t < stop
        BY <2>2, <3>1, ForwardHasBins
      <4>2. QED
        BY <2>2, <2>3, <4>1
    <3>3. x.t <= y.t
      <4> HIDE DEF a, d, probe
      <4>1. /\ DOMAIN probed = 1 .. d - a
            /\ \A k \in 1 .. d - a : probed[k] = probe[a + k]
        BY <2>4, <2>5
      <4>2. x = probe[a + i] /\ y = probe[a + j] /\ i \in Int /\ j \in Int
        BY <4>1
      <4>3. a + i \in DOMAIN probe /\ a + j \in DOMAIN probe
        BY <2>4, <2>5, <4>1
      <4>4. CASE i = j
        <5>1. x.t \in 0 .. MaxBin
          BY <2>2, <3>1, ForwardHasBins
        <5>2. QED
          BY <2>2, <4>4, <5>1
      <4>5. CASE i # j
        <5>1. a + i < a + j
          BY <2>5, <2>7, <4>2, <4>5
        <5>2. probe[a + i].t <= probe[a + j].t
          BY <2>4, <4>3, <5>1 DEF InOrder
        <5>3. QED
          BY <4>2, <5>2
      <4>6. QED
        BY <4>4, <4>5
    <3>4. IsClose(x, y)
      BY <2>7, <3>3 DEF IsClose
    <3>5. QED
      BY <2>3, <3>1, <3>2, <3>4
  <2>8. QED
    BY <2>6, <2>7 DEF probed
<1>2. QueryInvariant /\ RegionsAreCut => CloseIsTogether
  BY <1>1 DEF QueryInvariant
<1>3. QED
  BY <1>2, QueryIsInvariant, RegionsStayCut, PTL

-----------------------------------------------------------------------------
(* The trace: an answer is a function of the stores and of the request.    *)
(* The window is cut region after region, a cloud is peeled round after    *)
(* round, and the answer is made of the lines.                             *)

\* What an answer says of a line, and of a resource.
Segment == [ref : Nat, start : Nat, stop : Nat, ref_start : Nat, ref_stop : Nat, score : Nat]
Finding == [ref : Nat, segments : Seq(Segment), score_total : Nat]

\* The lines of the voter have hits.
Accepted == { line \in Seq(Hits) : line # <<>> }

\* A round of the vote on a task, as Round has it.
RoundOf(q, t) ==
    LET line == IF Len(t.rest) >= MinHits THEN Vote(t.rest) ELSE <<>>
    IN  IF line = <<>> THEN [rest |-> t.rest, lines |-> t.lines, over |-> TRUE]
        ELSE [rest |-> Remaining(t.rest, line), lines |-> Append(t.lines, line),
              over |-> ~AllLines(q) \/ Len(t.lines) + 1 = RowLimit(q)]

\* A cloud is peeled round after round.
IsPeeling(q, cloud, chain, n) ==
    /\ chain[0] = [rest |-> cloud, lines |-> <<>>, over |-> FALSE]
    /\ \A k \in Nat : k < n => ~chain[k].over /\ chain[k + 1] = RoundOf(q, chain[k])

Peels(q, cloud, t) == \E n \in Nat : \E chain : chain[n] = t /\ IsPeeling(q, cloud, chain, n)

\* A window is cut region after region.
CutOf(q, c) ==
    LET prints == Forward(q, c[1], Least(RegionStop(q, c[1]), WindowStop(q)))
    IN  <<NextStart(q, c[1]), IF prints = <<>> THEN c[2] ELSE Append(c[2], prints)>>

IsCutting(q, chain, n) ==
    /\ chain[0] = <<WindowStart(q), <<>> >>
    /\ \A k \in Nat : k < n => chain[k][1] < WindowStop(q) /\ chain[k + 1] = CutOf(q, chain[k])

Cuts(q, c) == \E n \in Nat : \E chain : chain[n] = c /\ IsCutting(q, chain, n)

\* The regions of a request: the prints that are sent, or a whole window.
IsCutInto(q, probes) ==
    IF q.verb = "match" THEN probes = <<q.prints>>
    ELSE \E at \in Nat : at >= WindowStop(q) /\ Cuts(q, <<at, probes>>)

CloudOf(q, probes, task) == Cloud(probes[task[1]], world.b, Consulted(q), task[2])

\* The end of every task.
IsPeeledInto(q, probes, ends) ==
    /\ ends \in [(1 .. Len(probes)) \X Consulted(q) -> Task]
    /\ \A task \in (1 .. Len(probes)) \X Consulted(q) :
           /\ ends[task].over /\ ends[task].lines \in Seq(Accepted)
           /\ Peels(q, CloudOf(q, probes, task), ends[task])

\* What was answered.
IsAnswer(q, rows) ==
    /\ ~Refused(q)
    /\ \E probes, ends :
           /\ probes \in Seq(Seq(Fingerprint)) /\ probes # <<>> /\ IsCutInto(q, probes)
           /\ IsPeeledInto(q, probes, ends)
           /\ rows = Result(q, Len(probes), [task \in DOMAIN ends |-> ends[task].lines])

IsRefusal(q) == Refused(q) \/ IsCutInto(q, <<>>)

\* An answer is determined by the stores and the request.
IsTraced(a) ==
    /\ a.request \in Queries /\ a.ok \in BOOLEAN
    /\ a.ok => IsAdmitted(a.request)
    /\ IF a.ok THEN IsAnswer(a.request, a.rows) ELSE a.rows = <<>> /\ IsRefusal(a.request)

Answered == [request : Queries, ok : BOOLEAN, rows : Seq(Segment) \cup Seq(Finding)]

TracedAnswers == { a \in Answered : IsTraced(a) }

\* What is refused, and what the window of a request is cut into.
Refusals == { q \in Queries : Refused(q) }
WindowCuts == [q \in Queries |-> { c \in Nat \X Seq(Seq(Fingerprint)) : Cuts(q, c) }]

Traced ==
    /\ pc # "idle" => request \notin Refusals
    /\ pc = "vote" => regions # <<>>
    /\ (pc # "idle" /\ request.verb # "match") => <<cursor, regions>> \in WindowCuts[request]
    /\ (pc = "vote" /\ request.verb = "match") => regions = <<request.prints>>
    /\ pc = "vote" => \A task \in DOMAIN tasks :
           /\ tasks[task].lines \in Seq(Accepted)
           /\ Peels(request, CloudOf(request, regions, task), tasks[task])
    /\ answers \in Seq(TracedAnswers)

\* One more round, one more region.
LEMMA PeelingBegins ==
    ASSUME NEW q, NEW cloud
    PROVE  Peels(q, cloud, [rest |-> cloud, lines |-> <<>>, over |-> FALSE])
<1> DEFINE t == [rest |-> cloud, lines |-> <<>>, over |-> FALSE]
           chain == [k \in {0} |-> t]
<1>1. chain[0] = t
  OBVIOUS
<1> HIDE DEF chain
<1>2. IsPeeling(q, cloud, chain, 0)
  BY <1>1 DEF IsPeeling
<1>3. QED
  BY <1>1, <1>2 DEF Peels

LEMMA PeelingGoesOn ==
    ASSUME NEW q, NEW cloud, NEW t, Peels(q, cloud, t), ~t.over
    PROVE  Peels(q, cloud, RoundOf(q, t))
<1>1. PICK n \in Nat : \E chain : chain[n] = t /\ IsPeeling(q, cloud, chain, n)
  BY DEF Peels
<1>2. PICK chain : chain[n] = t /\ IsPeeling(q, cloud, chain, n)
  BY <1>1
<1> DEFINE next == RoundOf(q, t)
           new == [k \in 0 .. n + 1 |-> IF k = n + 1 THEN next ELSE chain[k]]
<1>3. /\ \A k \in Nat : k <= n => new[k] = chain[k]
      /\ new[n + 1] = next
  OBVIOUS
<1> HIDE DEF new, next
<1>4. new[0] = [rest |-> cloud, lines |-> <<>>, over |-> FALSE]
  BY <1>2, <1>3 DEF IsPeeling
<1>5. ASSUME NEW k \in Nat, k < n + 1 PROVE ~new[k].over /\ new[k + 1] = RoundOf(q, new[k])
  <2>1. k <= n /\ new[k] = chain[k]
    BY <1>3, <1>5
  <2>2. CASE k = n
    BY <1>2, <1>3, <2>1, <2>2 DEF next
  <2>3. CASE k # n
    <3>1. k < n /\ k + 1 \in Nat /\ k + 1 <= n
      BY <2>1, <2>3
    <3>2. ~chain[k].over /\ chain[k + 1] = RoundOf(q, chain[k])
      BY <1>2, <3>1 DEF IsPeeling
    <3>3. new[k + 1] = chain[k + 1]
      BY <1>3, <3>1
    <3>4. QED
      BY <2>1, <3>2, <3>3
  <2>4. QED
    BY <2>2, <2>3
<1>6. IsPeeling(q, cloud, new, n + 1)
  BY <1>4, <1>5 DEF IsPeeling
<1>7. n + 1 \in Nat
  OBVIOUS
<1>8. QED
  BY <1>3, <1>6, <1>7 DEF Peels, next

LEMMA CuttingBegins ==
    ASSUME NEW q
    PROVE  Cuts(q, <<WindowStart(q), <<>> >>)
<1> DEFINE c == <<WindowStart(q), <<>> >>
           chain == [k \in {0} |-> c]
<1>1. chain[0] = c
  OBVIOUS
<1> HIDE DEF chain
<1>2. IsCutting(q, chain, 0)
  BY <1>1 DEF IsCutting
<1>3. QED
  BY <1>1, <1>2 DEF Cuts

LEMMA CuttingGoesOn ==
    ASSUME NEW q, NEW c, Cuts(q, c), c[1] < WindowStop(q)
    PROVE  Cuts(q, CutOf(q, c))
<1>1. PICK n \in Nat : \E chain : chain[n] = c /\ IsCutting(q, chain, n)
  BY DEF Cuts
<1>2. PICK chain : chain[n] = c /\ IsCutting(q, chain, n)
  BY <1>1
<1> DEFINE next == CutOf(q, c)
           new == [k \in 0 .. n + 1 |-> IF k = n + 1 THEN next ELSE chain[k]]
<1>3. /\ \A k \in Nat : k <= n => new[k] = chain[k]
      /\ new[n + 1] = next
  OBVIOUS
<1> HIDE DEF new, next
<1>4. new[0] = <<WindowStart(q), <<>> >>
  BY <1>2, <1>3 DEF IsCutting
<1>5. ASSUME NEW k \in Nat, k < n + 1
      PROVE  new[k][1] < WindowStop(q) /\ new[k + 1] = CutOf(q, new[k])
  <2>1. k <= n /\ new[k] = chain[k]
    BY <1>3, <1>5
  <2>2. CASE k = n
    BY <1>2, <1>3, <2>1, <2>2 DEF next
  <2>3. CASE k # n
    <3>1. k < n /\ k + 1 \in Nat /\ k + 1 <= n
      BY <2>1, <2>3
    <3>2. chain[k][1] < WindowStop(q) /\ chain[k + 1] = CutOf(q, chain[k])
      BY <1>2, <3>1 DEF IsCutting
    <3>3. new[k + 1] = chain[k + 1]
      BY <1>3, <3>1
    <3>4. QED
      BY <2>1, <3>2, <3>3
  <2>4. QED
    BY <2>2, <2>3
<1>6. IsCutting(q, new, n + 1)
  BY <1>4, <1>5 DEF IsCutting
<1>7. n + 1 \in Nat
  OBVIOUS
<1>8. QED
  BY <1>3, <1>6, <1>7 DEF Cuts, next

\* Of the rows of the regions those of a resource, and what is found of every
\* resource.
Share(q, lines, g, r) == Selected(RegionRows(q, lines, g), LAMBDA row : row.ref = r)
Shares(q, count, lines, r) == [g \in 1 .. count |-> Share(q, lines, g, r)]
Findings(q, count, lines) == [r \in DOMAIN world.b |-> MatchOf(q, count, lines, r)]
Wanted(q, count, lines) ==
    Selected(Findings(q, count, lines), LAMBDA m : m.ref \in Targets(q) /\ m.segments # <<>>)

LEMMA SegmentsAreShares ==
    ASSUME NEW q, NEW count, NEW lines, NEW r
    PROVE  LET made == IF AllLines(q) THEN FlattenSeq(Shares(q, count, lines, r))
                       ELSE ByStart(FlattenSeq(Shares(q, count, lines, r)))
           IN  Segments(q, count, lines, r) = made /\ Segments(q, count, lines, r)' = made'
  BY DEF Segments, Shares, Share

ByTotal(s) == StableSort(s, LAMBDA m, n : m.score_total > n.score_total)

LEMMA MatchesAreWanted ==
    ASSUME NEW q, NEW count, NEW lines
    PROVE  LET order == ByTotal(Wanted(q, count, lines))
               made == IF IsPassages(q) THEN order ELSE SubSeq(order, 1, Least(q.k, Len(order)))
           IN  Matches(q, count, lines) = made /\ Matches(q, count, lines)' = made'
  BY DEF Matches, Wanted, Findings, ByTotal

\* With the stores everything that an answer is made from stays.
LEMMA WindowsStay ==
    ASSUME world' = world
    PROVE  \A q : /\ WindowStart(q)' = WindowStart(q) /\ WindowStop(q)' = WindowStop(q)
                  /\ Consulted(q)' = Consulted(q)
                  /\ IsAdmitted(q)' <=> IsAdmitted(q)
                  /\ Refused(q)' <=> Refused(q)
                  /\ \A from, to : Forward(q, from, to)' = Forward(q, from, to)
<1> TAKE q
<1>1. Probe(q)' = Probe(q)
  BY DEF Probe
<1>2. Times(q)' = Times(q)
  BY <1>1 DEF Times
<1>3. NaturalStart(q)' = NaturalStart(q) /\ NaturalStop(q)' = NaturalStop(q)
  BY <1>2 DEF NaturalStart, NaturalStop
<1>4. WindowStart(q)' = WindowStart(q) /\ WindowStop(q)' = WindowStop(q)
  BY <1>3 DEF WindowStart, WindowStop
<1>5. Consulted(q)' = Consulted(q) /\ Targets(q)' = Targets(q)
  BY DEF Consulted, Targets
<1>6. IsAdmitted(q)' <=> IsAdmitted(q)
  BY <1>5 DEF IsAdmitted
<1>7. Refused(q)' <=> Refused(q)
  BY <1>4, <1>5 DEF Refused
<1>8. \A from, to : Forward(q, from, to)' = Forward(q, from, to)
  BY <1>1 DEF Forward, Selected
<1>9. QED
  BY <1>4, <1>5, <1>6, <1>7, <1>8

LEMMA CutsStay ==
    ASSUME world' = world
    PROVE  \A q, c : Cuts(q, c)' <=> Cuts(q, c)
<1> TAKE q, c
<1>1. /\ WindowStart(q)' = WindowStart(q) /\ WindowStop(q)' = WindowStop(q)
      /\ \A from, to : Forward(q, from, to)' = Forward(q, from, to)
  BY WindowsStay
<1>2. \A x : CutOf(q, x)' = CutOf(q, x)
  BY <1>1 DEF CutOf
<1>3. QED
  BY <1>1, <1>2 DEF Cuts, IsCutting

LEMMA ResultStays ==
    ASSUME world' = world
    PROVE  \A q, count, lines : Result(q, count, lines)' = Result(q, count, lines)
<1> TAKE q, count, lines
<1>1. Consulted(q)' = Consulted(q) /\ Targets(q)' = Targets(q)
  BY DEF Consulted, Targets
<1>2. \A g : RegionRows(q, lines, g)' = RegionRows(q, lines, g)
  BY <1>1 DEF RegionRows
<1>3. \A r : Segments(q, count, lines, r)' = Segments(q, count, lines, r)
  <2> TAKE r
  <2>1. \A g : Share(q, lines, g, r)' = Share(q, lines, g, r)
    BY <1>2 DEF Share, Selected
  <2>2. Shares(q, count, lines, r)' = Shares(q, count, lines, r)
    BY <2>1 DEF Shares
  <2>3. QED
    BY <2>2, SegmentsAreShares
<1>4. Findings(q, count, lines)' = Findings(q, count, lines)
  BY <1>3 DEF Findings, MatchOf
<1>5. Matches(q, count, lines)' = Matches(q, count, lines)
  <2>1. Wanted(q, count, lines)' = Wanted(q, count, lines)
    BY <1>1, <1>4 DEF Wanted, Selected
  <2>2. QED
    BY <2>1, MatchesAreWanted
<1>6. QED
  BY <1>1, <1>2, <1>3, <1>5 DEF Result

LEMMA TracesStay ==
    ASSUME world' = world
    PROVE  \A a : IsTraced(a)' <=> IsTraced(a)
<1> TAKE a
<1>1. \A q, c : Cuts(q, c)' <=> Cuts(q, c)
  BY CutsStay
<1>2. \A q : /\ WindowStop(q)' = WindowStop(q) /\ Consulted(q)' = Consulted(q)
             /\ IsAdmitted(q)' <=> IsAdmitted(q)
             /\ Refused(q)' <=> Refused(q)
  BY WindowsStay
<1>3. \A q, probes : IsCutInto(q, probes)' <=> IsCutInto(q, probes)
  BY <1>1, <1>2 DEF IsCutInto
<1>4. \A q, probes, task : CloudOf(q, probes, task)' = CloudOf(q, probes, task)
  BY <1>2 DEF CloudOf
<1>5. \A q, probes, ends : IsPeeledInto(q, probes, ends)' <=> IsPeeledInto(q, probes, ends)
  BY <1>2, <1>4 DEF IsPeeledInto
<1>6. \A q, count, lines : Result(q, count, lines)' = Result(q, count, lines)
  BY ResultStays
<1>7. \A q, rows : IsAnswer(q, rows)' <=> IsAnswer(q, rows)
  BY <1>2, <1>3, <1>5, <1>6 DEF IsAnswer
<1>8. \A q : IsRefusal(q)' <=> IsRefusal(q)
  BY <1>2, <1>3 DEF IsRefusal
<1>9. QED
  BY <1>2, <1>7, <1>8 DEF IsTraced

LEMMA TracedAnswersStay ==
    ASSUME world' = world
    PROVE  TracedAnswers' = TracedAnswers /\ WindowCuts' = WindowCuts /\ Refusals' = Refusals
<1>1. \A a : IsTraced(a)' <=> IsTraced(a)
  BY TracesStay
<1>2. \A q, c : Cuts(q, c)' <=> Cuts(q, c)
  BY CutsStay
<1>3. TracedAnswers' = TracedAnswers
  BY <1>1 DEF TracedAnswers
<1>4. WindowCuts' = WindowCuts
  BY <1>2 DEF WindowCuts
<1>5. Refusals' = Refusals
  BY WindowsStay DEF Refusals
<1>6. QED
  BY <1>3, <1>4, <1>5

-----------------------------------------------------------------------------
(* What an answer is made of.                                              *)

\* The lines of all tasks.
IsLines(q, count, lines) == lines \in [(1 .. count) \X Consulted(q) -> Seq(Accepted)]

LEMMA RowIsSegment ==
    ASSUME NEW r \in Nat, NEW line \in Accepted
    PROVE  Row(r, line) \in Segment
<1>1. line \in Seq(Hits) /\ line # <<>>
  BY DEF Accepted
<1>2. Len(line) \in Nat /\ Len(line) >= 1
  BY <1>1
<1>3. line[1] \in Hits /\ line[Len(line)] \in Hits
  BY <1>1, <1>2, ElementOfSeq
<1>4. Last(line) = line[Len(line)]
  BY DEF Last
<1>5. /\ line[1].q \in Nat /\ line[1].ref \in Nat
      /\ line[Len(line)].q \in Nat /\ line[Len(line)].ref \in Nat
  BY <1>3 DEF Hits
<1>6. QED
  BY <1>2, <1>4, <1>5 DEF Row, Segment

\* The three orders.
RankedBefore ==
    { p \in Segment \X Segment :
        \/ p[1].score > p[2].score
        \/ p[1].score = p[2].score
           /\ \/ p[1].ref < p[2].ref
              \/ p[1].ref = p[2].ref
                 /\ \/ p[1].start < p[2].start
                    \/ p[1].start = p[2].start /\ p[1].ref_start < p[2].ref_start }

StartsBefore ==
    { p \in Segment \X Segment :
        \/ p[1].start < p[2].start
        \/ p[1].start = p[2].start
           /\ \/ p[1].ref_start < p[2].ref_start
              \/ p[1].ref_start = p[2].ref_start /\ p[1].score > p[2].score }

ScoresMore == { p \in Finding \X Finding : p[1].score_total > p[2].score_total }

LEMMA RankedIsRanking == IsRanking(Segment, RankedBefore)
<1>1. \A x \in Segment : x.score \in Nat /\ x.ref \in Nat /\ x.start \in Nat /\ x.ref_start \in Nat
  BY DEF Segment
<1>2. \A x, y \in Segment : <<x, y>> \in RankedBefore <=>
          \/ x.score > y.score
          \/ x.score = y.score
             /\ \/ x.ref < y.ref
                \/ x.ref = y.ref
                   /\ \/ x.start < y.start
                      \/ x.start = y.start /\ x.ref_start < y.ref_start
  BY DEF RankedBefore
<1> HIDE DEF RankedBefore
<1>3. \A x \in Segment : <<x, x>> \notin RankedBefore
  BY <1>1, <1>2
<1>4. \A x, y, z \in Segment :
          <<x, y>> \in RankedBefore /\ <<y, z>> \in RankedBefore => <<x, z>> \in RankedBefore
  BY <1>1, <1>2
<1>5. \A x, y, z \in Segment :
          <<x, z>> \in RankedBefore => <<x, y>> \in RankedBefore \/ <<y, z>> \in RankedBefore
  BY <1>1, <1>2
<1>6. QED
  BY <1>3, <1>4, <1>5 DEF IsRanking

LEMMA StartsIsRanking == IsRanking(Segment, StartsBefore)
<1>1. \A x \in Segment : x.score \in Nat /\ x.start \in Nat /\ x.ref_start \in Nat
  BY DEF Segment
<1>2. \A x, y \in Segment : <<x, y>> \in StartsBefore <=>
          \/ x.start < y.start
          \/ x.start = y.start
             /\ \/ x.ref_start < y.ref_start
                \/ x.ref_start = y.ref_start /\ x.score > y.score
  BY DEF StartsBefore
<1> HIDE DEF StartsBefore
<1>3. \A x \in Segment : <<x, x>> \notin StartsBefore
  BY <1>1, <1>2
<1>4. \A x, y, z \in Segment :
          <<x, y>> \in StartsBefore /\ <<y, z>> \in StartsBefore => <<x, z>> \in StartsBefore
  BY <1>1, <1>2
<1>5. \A x, y, z \in Segment :
          <<x, z>> \in StartsBefore => <<x, y>> \in StartsBefore \/ <<y, z>> \in StartsBefore
  BY <1>1, <1>2
<1>6. QED
  BY <1>3, <1>4, <1>5 DEF IsRanking

LEMMA ScoresIsRanking == IsRanking(Finding, ScoresMore)
<1>1. \A x \in Finding : x.score_total \in Nat
  BY DEF Finding
<1>2. \A x, y \in Finding : <<x, y>> \in ScoresMore <=> x.score_total > y.score_total
  BY DEF ScoresMore
<1> HIDE DEF ScoresMore
<1>3. \A x \in Finding : <<x, x>> \notin ScoresMore
  BY <1>1, <1>2
<1>4. \A x, y, z \in Finding :
          <<x, y>> \in ScoresMore /\ <<y, z>> \in ScoresMore => <<x, z>> \in ScoresMore
  BY <1>1, <1>2
<1>5. \A x, y, z \in Finding :
          <<x, z>> \in ScoresMore => <<x, y>> \in ScoresMore \/ <<y, z>> \in ScoresMore
  BY <1>1, <1>2
<1>6. QED
  BY <1>3, <1>4, <1>5 DEF IsRanking

\* The sorts of the source sort by them.
LEMMA RankedSorts ==
    ASSUME NEW s \in Seq(Segment)
    PROVE  /\ Ranked(s) = Sorted(s, RankedBefore) /\ Ranked(s) \in Seq(Segment)
           /\ ToSet(Ranked(s)) = ToSet(s)
<1>1. Ranked(s) = Sorted(s, RankedBefore)
  <2>1. \A i \in 1 .. Len(s) : s[i] \in Segment
    BY ElementOfSeq
  <2>2. { p \in (1 .. Len(s)) \X (1 .. Len(s)) :
            \/ s[p[1]].score > s[p[2]].score
            \/ s[p[1]].score = s[p[2]].score
               /\ \/ s[p[1]].ref < s[p[2]].ref
                  \/ s[p[1]].ref = s[p[2]].ref
                     /\ \/ s[p[1]].start < s[p[2]].start
                        \/ s[p[1]].start = s[p[2]].start /\ s[p[1]].ref_start < s[p[2]].ref_start }
        = Ordered(s, RankedBefore)
    BY <2>1 DEF Ordered, RankedBefore
  <2>3. QED
    BY <2>2 DEF Ranked, StableSort, Sorted
<1>2. Sorted(s, RankedBefore) \in Seq(Segment) /\ ToSet(Sorted(s, RankedBefore)) = ToSet(s)
  BY RankedIsRanking, SortedIsSorted, SortedHasSame
<1>3. QED
  BY <1>1, <1>2

LEMMA ByStartSorts ==
    ASSUME NEW s \in Seq(Segment)
    PROVE  ByStart(s) \in Seq(Segment) /\ ToSet(ByStart(s)) = ToSet(s)
<1>1. ByStart(s) = Sorted(s, StartsBefore)
  <2>1. \A i \in 1 .. Len(s) : s[i] \in Segment
    BY ElementOfSeq
  <2>2. { p \in (1 .. Len(s)) \X (1 .. Len(s)) :
            \/ s[p[1]].start < s[p[2]].start
            \/ s[p[1]].start = s[p[2]].start
               /\ \/ s[p[1]].ref_start < s[p[2]].ref_start
                  \/ s[p[1]].ref_start = s[p[2]].ref_start /\ s[p[1]].score > s[p[2]].score }
        = Ordered(s, StartsBefore)
    BY <2>1 DEF Ordered, StartsBefore
  <2>3. QED
    BY <2>2 DEF ByStart, StableSort, Sorted
<1>2. Sorted(s, StartsBefore) \in Seq(Segment) /\ ToSet(Sorted(s, StartsBefore)) = ToSet(s)
  BY StartsIsRanking, SortedIsSorted, SortedHasSame
<1>3. QED
  BY <1>1, <1>2

LEMMA ByTotalSorts ==
    ASSUME NEW s \in Seq(Finding)
    PROVE  ByTotal(s) \in Seq(Finding) /\ ToSet(ByTotal(s)) = ToSet(s) /\ Len(ByTotal(s)) = Len(s)
<1>1. ByTotal(s) = Sorted(s, ScoresMore)
  <2>1. \A i \in 1 .. Len(s) : s[i] \in Finding
    BY ElementOfSeq
  <2>2. { p \in (1 .. Len(s)) \X (1 .. Len(s)) : s[p[1]].score_total > s[p[2]].score_total }
        = Ordered(s, ScoresMore)
    BY <2>1 DEF Ordered, ScoresMore
  <2>3. QED
    BY <2>2 DEF ByTotal, StableSort, Sorted
<1>2. /\ Sorted(s, ScoresMore) \in Seq(Finding) /\ ToSet(Sorted(s, ScoresMore)) = ToSet(s)
      /\ \E place : SortsBy(Sorted(s, ScoresMore), s, ScoresMore, place)
  BY ScoresIsRanking, SortedIsSorted, SortedHasSame
<1>3. QED
  BY <1>1, <1>2 DEF SortsBy

\* The rows of a region, before they are ranked.
RowsOf(lines, g, r) == [n \in DOMAIN lines[g, r] |-> Row(r, lines[g, r][n])]
AllRows(q, lines, g) ==
    [r \in DOMAIN world.b |-> IF r \in Consulted(q) THEN RowsOf(lines, g, r) ELSE <<>>]

LEMMA RowsAreSegments ==
    ASSUME world \in Worlds, NEW q \in Queries, IsAdmitted(q), NEW count \in Nat, NEW lines,
           IsLines(q, count, lines), NEW g \in 1 .. count
    PROVE  /\ \A r \in Consulted(q) : r \in DOMAIN world.b /\ RowsOf(lines, g, r) \in Seq(Segment)
           /\ AllRows(q, lines, g) \in Seq(Seq(Segment)) /\ Len(AllRows(q, lines, g)) = Len(world.b)
           /\ \A r \in DOMAIN world.b : AllRows(q, lines, g)[r] =
                  IF r \in Consulted(q) THEN RowsOf(lines, g, r) ELSE <<>>
           /\ \A r \in Consulted(q) : \A i \in 1 .. Len(RowsOf(lines, g, r)) :
                  RowsOf(lines, g, r)[i].ref = r
           /\ RegionRows(q, lines, g) = FirstRows(q, Ranked(FlattenSeq(AllRows(q, lines, g))))
           /\ FlattenSeq(AllRows(q, lines, g)) \in Seq(Segment)
           /\ RegionRows(q, lines, g) \in Seq(Segment)
<1>1. /\ world.b \in Seq(Seq(Fingerprint)) /\ DOMAIN world.b = 1 .. Len(world.b) /\ Len(world.b) \in Nat
      /\ Consulted(q) \subseteq DOMAIN world.b
  <2>1. world.b \in Seq(Seq(Fingerprint))
    BY StoresHoldPrints
  <2>2. Consulted(q) \subseteq DOMAIN world.b
    BY DEF IsAdmitted, Consulted, IsPair
  <2>3. QED
    BY <2>1, <2>2
<1>2. \A r \in Consulted(q) : lines[g, r] \in Seq(Accepted)
  BY DEF IsLines
<1>3. ASSUME NEW r \in Consulted(q)
      PROVE  /\ r \in DOMAIN world.b /\ RowsOf(lines, g, r) \in Seq(Segment)
             /\ \A i \in 1 .. Len(RowsOf(lines, g, r)) : RowsOf(lines, g, r)[i].ref = r
  <2> DEFINE found == lines[g, r]
             rows == [n \in DOMAIN found |-> Row(r, found[n])]
  <2>1. found \in Seq(Accepted) /\ r \in Nat /\ r \in DOMAIN world.b
    <3>1. r \in DOMAIN world.b
      BY <1>1
    <3>2. r \in Nat
      BY <1>1, <3>1
    <3>3. found \in Seq(Accepted)
      BY <1>2
    <3>4. QED
      BY <3>1, <3>2, <3>3
  <2> HIDE DEF found
  <2>2. DOMAIN found = 1 .. Len(found) /\ Len(found) \in Nat
    BY <2>1
  <2>3. \A n \in 1 .. Len(found) : Row(r, found[n]) \in Segment
    BY <2>1, ElementOfSeq, RowIsSegment
  <2>4. rows \in [1 .. Len(found) -> Segment]
    BY <2>2, <2>3
  <2>5. rows \in Seq(Segment) /\ Len(rows) = Len(found)
    BY <2>2, <2>4
  <2>6. \A i \in 1 .. Len(rows) : rows[i].ref = r
    BY <2>2, <2>5 DEF Row
  <2>7. RowsOf(lines, g, r) = rows
    BY DEF RowsOf, found
  <2>8. QED
    BY <2>1, <2>5, <2>6, <2>7
<1> DEFINE all == AllRows(q, lines, g)
<1>4. /\ DOMAIN all = 1 .. Len(world.b)
      /\ \A r \in DOMAIN world.b : all[r] = IF r \in Consulted(q) THEN RowsOf(lines, g, r) ELSE <<>>
      /\ all = [r \in 1 .. Len(world.b) |-> all[r]]
  BY <1>1 DEF AllRows
<1> HIDE DEF all
<1>5. \A r \in 1 .. Len(world.b) : all[r] \in Seq(Segment)
  <2> TAKE r \in 1 .. Len(world.b)
  <2>1. r \in DOMAIN world.b /\ <<>> \in Seq(Segment)
    BY <1>1
  <2>2. CASE r \in Consulted(q)
    BY <1>3, <1>4, <2>1, <2>2
  <2>3. CASE r \notin Consulted(q)
    BY <1>4, <2>1, <2>3
  <2>4. QED
    BY <2>2, <2>3
<1>6. all \in Seq(Seq(Segment)) /\ Len(all) = Len(world.b)
  <2> DEFINE n == Len(world.b)
  <2>1. n \in Nat /\ all = [r \in 1 .. n |-> all[r]] /\ \A r \in 1 .. n : all[r] \in Seq(Segment)
    BY <1>1, <1>4, <1>5
  <2> HIDE DEF n
  <2>2. all \in [1 .. n -> Seq(Segment)]
    BY <2>1
  <2>3. all \in Seq(Seq(Segment)) /\ Len(all) = n
    BY <2>1, <2>2
  <2>4. QED
    BY <2>3 DEF n
<1>7. FlattenSeq(all) \in Seq(Segment)
  BY <1>6, FlattenedIsList
<1>8. RegionRows(q, lines, g) = FirstRows(q, Ranked(FlattenSeq(all)))
  BY DEF RegionRows, all, AllRows, RowsOf
<1>9. Ranked(FlattenSeq(all)) \in Seq(Segment)
  BY <1>7, RankedSorts
<1>10. RegionRows(q, lines, g) \in Seq(Segment)
  <2> DEFINE s == Ranked(FlattenSeq(all))
  <2>1. s \in Seq(Segment) /\ Len(s) \in Nat
    BY <1>9
  <2> HIDE DEF s
  <2>2. RowLimit(q) # None => RowLimit(q) \in Nat
    BY DEF RowLimit, Queries, Request
  <2>3. \A n \in Nat : Least(n, Len(s)) \in 0 .. Len(s)
    BY <2>1 DEF Least
  <2>4. \A n \in 0 .. Len(s) : SubSeq(s, 1, n) \in Seq(Segment)
    BY <2>1, SubSeqProperties
  <2>5. FirstRows(q, s) \in Seq(Segment)
    BY <2>1, <2>2, <2>3, <2>4 DEF FirstRows
  <2>6. QED
    BY <1>8, <2>5 DEF s
<1>11. QED
  BY <1>1, <1>3, <1>4, <1>6, <1>7, <1>8, <1>10 DEF all

\* The rows of a resource in the rows of a region.
OfResource(r) == { x \in Segment : x.ref = r }

LEMMA ShareIsPart ==
    ASSUME world \in Worlds, NEW q \in Queries, IsAdmitted(q), NEW count \in Nat, NEW lines,
           IsLines(q, count, lines), NEW g \in 1 .. count, NEW r
    PROVE  /\ Share(q, lines, g, r) = Part(RegionRows(q, lines, g), OfResource(r))
           /\ Share(q, lines, g, r) \in Seq(Segment)
<1> DEFINE rows == RegionRows(q, lines, g)
<1>1. rows \in Seq(Segment)
  BY RowsAreSegments
<1> HIDE DEF rows
<1>2. \A i \in DOMAIN rows : rows[i] \in Segment
  BY <1>1, ElementOfSeq
<1>3. { i \in DOMAIN rows : rows[i].ref = r } = Chosen(rows, OfResource(r))
  BY <1>2 DEF Chosen, OfResource
<1>4. Share(q, lines, g, r) = Part(rows, OfResource(r))
  BY <1>3 DEF Share, Selected, Part, rows
<1>5. Part(rows, OfResource(r)) \in Seq(Segment)
  BY <1>1, PartIsEnumerated
<1>6. QED
  BY <1>4, <1>5 DEF rows

\* They are the lines of its task, ranked, whatever other resources are
\* consulted.
LEMMA ShareIsRanked ==
    ASSUME world \in Worlds, NEW q \in Queries, IsAdmitted(q), RowLimit(q) = None,
           NEW count \in Nat, NEW lines, IsLines(q, count, lines), NEW g \in 1 .. count,
           NEW r \in Consulted(q)
    PROVE  /\ Share(q, lines, g, r) = Sorted(RowsOf(lines, g, r), RankedBefore)
           /\ ToSet(Share(q, lines, g, r)) = ToSet(RowsOf(lines, g, r))
<1> DEFINE all == AllRows(q, lines, g)
           flat == FlattenSeq(all)
           P == OfResource(r)
           rows == RowsOf(lines, g, r)
<1>1. /\ r \in DOMAIN world.b /\ rows \in Seq(Segment)
      /\ all \in Seq(Seq(Segment)) /\ Len(all) = Len(world.b)
      /\ \A i \in DOMAIN world.b : all[i] =
             IF i \in Consulted(q) THEN RowsOf(lines, g, i) ELSE <<>>
      /\ RegionRows(q, lines, g) = FirstRows(q, Ranked(flat))
      /\ flat \in Seq(Segment)
  BY RowsAreSegments
<1>2. \A i \in Consulted(q) :
          /\ RowsOf(lines, g, i) \in Seq(Segment)
          /\ \A k \in 1 .. Len(RowsOf(lines, g, i)) : RowsOf(lines, g, i)[k].ref = i
  BY RowsAreSegments
<1>3. DOMAIN world.b = 1 .. Len(all) /\ r \in 1 .. Len(all) /\ all[r] = rows
  <2>1. world.b \in Seq(Seq(Fingerprint))
    BY StoresHoldPrints
  <2>2. QED
    BY <1>1, <2>1
<1>4. \A i \in Consulted(q) : ToSet(RowsOf(lines, g, i)) \subseteq OfResource(i)
  <2> TAKE i \in Consulted(q)
  <2> DEFINE v == RowsOf(lines, g, i)
  <2>1. v \in Seq(Segment) /\ \A k \in 1 .. Len(v) : v[k].ref = i
    BY <1>2
  <2> HIDE DEF v
  <2>2. DOMAIN v = 1 .. Len(v) /\ \A k \in 1 .. Len(v) : v[k] \in Segment
    BY <2>1, ElementOfSeq
  <2>3. ToSet(v) \subseteq OfResource(i)
    BY <2>1, <2>2 DEF ToSet, OfResource
  <2>4. QED
    BY <2>3 DEF v
<1>5. \A i \in 1 .. Len(all) : i # r => ToSet(all[i]) \cap P = {}
  <2> TAKE i \in 1 .. Len(all)
  <2> HAVE i # r
  <2>1. CASE i \in Consulted(q)
    <3>1. ToSet(all[i]) \subseteq OfResource(i)
      BY <1>1, <1>3, <1>4, <2>1
    <3>2. OfResource(i) \cap OfResource(r) = {}
      BY DEF OfResource
    <3>3. QED
      BY <3>1, <3>2
  <2>2. CASE i \notin Consulted(q)
    <3>1. all[i] = <<>>
      BY <1>1, <1>3, <2>2
    <3>2. ToSet(<<>>) = {}
      BY DEF ToSet
    <3>3. QED
      BY <3>1, <3>2
  <2>3. QED
    BY <2>1, <2>2
<1>6. ToSet(all[r]) \subseteq P
  BY <1>3, <1>4
<1> HIDE DEF all, P, rows
<1>7. Part(flat, P) = rows
  BY <1>1, <1>3, <1>5, <1>6, PartOfFlattened
<1> HIDE DEF flat
<1>8. RegionRows(q, lines, g) = Sorted(flat, RankedBefore)
  <2>1. FirstRows(q, Ranked(flat)) = Ranked(flat)
    BY DEF FirstRows
  <2>2. Ranked(flat) = Sorted(flat, RankedBefore)
    BY <1>1, RankedSorts
  <2>3. QED
    BY <1>1, <2>1, <2>2
<1>9. Part(Sorted(flat, RankedBefore), P) = Sorted(Part(flat, P), RankedBefore)
  BY <1>1, RankedIsRanking, PartOfSorted
<1>10. Share(q, lines, g, r) = Sorted(rows, RankedBefore)
  BY <1>7, <1>8, <1>9, ShareIsPart DEF P
<1>11. ToSet(Sorted(rows, RankedBefore)) = ToSet(rows)
  BY <1>1, RankedIsRanking, SortedHasSame
<1>12. QED
  BY <1>10, <1>11 DEF rows

\* The segments of a resource are the rows of its lines in some order.
LEMMA SegmentsAreRows ==
    ASSUME world \in Worlds, NEW q \in Queries, IsAdmitted(q), NEW count \in Nat, NEW lines,
           IsLines(q, count, lines), NEW r
    PROVE  /\ Shares(q, count, lines, r) \in Seq(Seq(Segment))
           /\ Segments(q, count, lines, r) \in Seq(Segment)
           /\ (RowLimit(q) = None /\ r \in Consulted(q)) =>
                  ToSet(Segments(q, count, lines, r)) =
                      UNION { ToSet(RowsOf(lines, g, r)) : g \in 1 .. count }
<1> DEFINE shares == Shares(q, count, lines, r)
           flat == FlattenSeq(shares)
<1>1. \A g \in 1 .. count : Share(q, lines, g, r) \in Seq(Segment)
  BY ShareIsPart
<1>2. shares = [g \in 1 .. count |-> Share(q, lines, g, r)]
  BY DEF Shares
<1> HIDE DEF shares
<1>3. shares \in [1 .. count -> Seq(Segment)]
  BY <1>1, <1>2
<1>4. shares \in Seq(Seq(Segment)) /\ Len(shares) = count
  BY <1>3
<1>5. /\ flat \in Seq(Segment)
      /\ ToSet(flat) = UNION { ToSet(shares[g]) : g \in 1 .. Len(shares) }
  BY <1>4, FlattenedIsList
<1> HIDE DEF flat
<1>6. /\ Segments(q, count, lines, r) \in Seq(Segment)
      /\ ToSet(Segments(q, count, lines, r)) = ToSet(flat)
  <2>1. Segments(q, count, lines, r) = IF AllLines(q) THEN flat ELSE ByStart(flat)
    BY SegmentsAreShares DEF flat, shares
  <2>2. ByStart(flat) \in Seq(Segment) /\ ToSet(ByStart(flat)) = ToSet(flat)
    BY <1>5, ByStartSorts
  <2>3. QED
    BY <1>5, <2>1, <2>2
<1>7. ASSUME RowLimit(q) = None, r \in Consulted(q)
      PROVE  ToSet(flat) = UNION { ToSet(RowsOf(lines, g, r)) : g \in 1 .. count }
  <2>1. \A g \in 1 .. count : ToSet(shares[g]) = ToSet(RowsOf(lines, g, r))
    BY <1>2, <1>7, ShareIsRanked
  <2>2. QED
    BY <1>4, <1>5, <2>1
<1>8. QED
  BY <1>4, <1>6, <1>7 DEF shares

LEMMA TotalIsNumber ==
    ASSUME NEW s \in Seq(Segment)
    PROVE  Total(s) \in Nat
<1> DEFINE D == DOMAIN s
           f == [n \in DOMAIN s |-> s[n].score]
<1>1. D = 1 .. Len(s) /\ Len(s) \in Nat /\ \A n \in D : s[n] \in Segment
  BY ElementOfSeq
<1>2. \A n \in D : f[n] \in Nat
  BY <1>1 DEF Segment
<1>3. DOMAIN f = D
  OBVIOUS
<1>4. IsFiniteSet(D)
  BY <1>1, FS_Interval
<1>5. Total(s) = SumFunctionOnSet(f, D)
  BY <1>3 DEF Total, SumFunction
<1> HIDE DEF f, D
<1>6. QED
  BY <1>2, <1>4, <1>5, SumByElements

\* The findings of a request for more than one resource.
LEMMA FindingsAreFindings ==
    ASSUME world \in Worlds, NEW q \in Queries, IsAdmitted(q), NEW count \in Nat, NEW lines,
           IsLines(q, count, lines)
    PROVE  /\ Findings(q, count, lines) \in Seq(Finding)
           /\ Len(Findings(q, count, lines)) = Len(world.b)
           /\ \A r \in DOMAIN world.b :
                  /\ Findings(q, count, lines)[r].ref = r
                  /\ Findings(q, count, lines)[r].segments = Segments(q, count, lines, r)
<1> DEFINE n == Len(world.b)
           all == Findings(q, count, lines)
<1>1. world.b \in Seq(Seq(Fingerprint)) /\ DOMAIN world.b = 1 .. n /\ n \in Nat
  <2>1. world.b \in Seq(Seq(Fingerprint))
    BY StoresHoldPrints
  <2>2. QED
    BY <2>1
<1>2. \A r \in 1 .. n :
          /\ MatchOf(q, count, lines, r) \in Finding
          /\ MatchOf(q, count, lines, r).ref = r
          /\ MatchOf(q, count, lines, r).segments = Segments(q, count, lines, r)
  <2> TAKE r \in 1 .. n
  <2> DEFINE s == Segments(q, count, lines, r)
  <2>1. s \in Seq(Segment) /\ Total(s) \in Nat
    BY SegmentsAreRows, TotalIsNumber
  <2>2. MatchOf(q, count, lines, r) = [ref |-> r, segments |-> s, score_total |-> Total(s)]
    BY DEF MatchOf
  <2> HIDE DEF s
  <2>3. r \in Nat
    BY <1>1
  <2>4. /\ MatchOf(q, count, lines, r) \in Finding
        /\ MatchOf(q, count, lines, r).ref = r /\ MatchOf(q, count, lines, r).segments = s
    BY <2>1, <2>2, <2>3 DEF Finding
  <2>5. QED
    BY <2>4 DEF s
<1>3. all = [r \in 1 .. n |-> MatchOf(q, count, lines, r)]
  BY <1>1 DEF Findings
<1> HIDE DEF all, n
<1>4. all \in [1 .. n -> Finding]
  BY <1>2, <1>3
<1>5. all \in Seq(Finding) /\ Len(all) = n
  BY <1>1, <1>4
<1>6. QED
  BY <1>1, <1>2, <1>3, <1>5 DEF all, n

\* Of them those that are wanted, with all that is known of each.
LEMMA WantedAreFindings ==
    ASSUME world \in Worlds, NEW q \in Queries, IsAdmitted(q), NEW count \in Nat, NEW lines,
           IsLines(q, count, lines)
    PROVE  /\ Wanted(q, count, lines) \in Seq(Finding)
           /\ Len(Wanted(q, count, lines)) <= Len(world.b)
           /\ \A m : m \in ToSet(Wanted(q, count, lines)) <=>
                  \E r \in DOMAIN world.b :
                      /\ m = Findings(q, count, lines)[r]
                      /\ r \in Targets(q) /\ Segments(q, count, lines, r) # <<>>
<1> DEFINE all == Findings(q, count, lines)
           n == Len(world.b)
           chosen == { i \in DOMAIN all : all[i].ref \in Targets(q) /\ all[i].segments # <<>> }
           v == Wanted(q, count, lines)
<1>1. /\ all \in Seq(Finding) /\ Len(all) = n
      /\ \A r \in DOMAIN world.b :
             all[r].ref = r /\ all[r].segments = Segments(q, count, lines, r)
  <2>1. all \in Seq(Finding) /\ Len(all) = n
    BY FindingsAreFindings
  <2>2. ASSUME NEW r \in DOMAIN world.b
        PROVE  all[r].ref = r /\ all[r].segments = Segments(q, count, lines, r)
    BY FindingsAreFindings
  <2>3. QED
    BY <2>1, <2>2
<1>2. DOMAIN world.b = 1 .. n /\ n \in Nat
  <2>1. world.b \in Seq(Seq(Fingerprint))
    BY StoresHoldPrints
  <2>2. QED
    BY <2>1
<1>3. v = ElementsAt(all, chosen)
  BY DEF Wanted, Selected
<1> HIDE DEF all, n
<1>4. DOMAIN all = 1 .. n /\ \A i \in 1 .. n : all[i] \in Finding
  BY <1>1, ElementOfSeq
<1>5. \A i : i \in chosen <=> i \in 1 .. n /\ i \in Targets(q) /\ Segments(q, count, lines, i) # <<>>
  BY <1>1, <1>2, <1>4
<1> HIDE DEF chosen, v
<1>6. v \in Seq(Finding) /\ \E at : IsSelection(at, n, chosen, all, v)
  BY <1>1, <1>2, <1>3, <1>4, ElementsAtAreElements
<1>7. PICK at : IsSelection(at, n, chosen, all, v)
  BY <1>6
<1>8. Len(v) \in Nat /\ DOMAIN v = 1 .. Len(v)
  BY <1>6
<1>9. /\ \A k \in 1 .. Len(v) : at[k] \in chosen /\ at[k] \in 1 .. n /\ v[k] = all[at[k]]
      /\ \A k, l \in 1 .. Len(v) : k < l => at[k] < at[l]
      /\ \A i \in 1 .. n : i \in chosen => \E k \in 1 .. Len(v) : at[k] = i
  BY <1>7 DEF IsSelection
<1>10. Len(v) <= n
  <2> DEFINE t == [k \in 1 .. Len(v) |-> at[k]]
  <2>1. t \in [1 .. Len(v) -> 1 .. n]
    BY <1>9
  <2>2. \A k \in 1 .. Len(v) : t[k] = at[k]
    OBVIOUS
  <2> HIDE DEF t
  <2>3. t \in Seq(1 .. n) /\ Len(t) = Len(v)
    <3> DEFINE size == Len(v)
               S == 1 .. n
    <3>1. size \in Nat /\ t \in [1 .. size -> S]
      BY <1>8, <2>1
    <3> HIDE DEF size, S
    <3>2. t \in Seq(S) /\ Len(t) = size
      BY <3>1
    <3>3. QED
      BY <3>2 DEF size, S
  <2>4. HasNoRepeats(t)
    <3>1. ASSUME NEW k \in 1 .. Len(v), NEW l \in 1 .. Len(v), t[k] = t[l] PROVE k = l
      <4>1. at[k] \in Int /\ at[l] \in Int /\ at[k] = at[l]
        BY <1>2, <1>9, <2>2, <3>1
      <4>2. ~(k < l) /\ ~(l < k)
        BY <1>9, <4>1
      <4>3. QED
        BY <1>8, <4>2
    <3>2. QED
      BY <2>3, <3>1 DEF HasNoRepeats
  <2>5. QED
    BY <1>2, <2>3, <2>4, DistinctIsShort
<1>11. ASSUME NEW m
       PROVE  m \in ToSet(v) <=> \E r \in 1 .. n :
                  m = all[r] /\ r \in Targets(q) /\ Segments(q, count, lines, r) # <<>>
  <2>1. ASSUME m \in ToSet(v)
        PROVE  \E r \in 1 .. n :
                   m = all[r] /\ r \in Targets(q) /\ Segments(q, count, lines, r) # <<>>
    <3>1. PICK k \in 1 .. Len(v) : m = v[k]
      BY <1>8, <2>1 DEF ToSet
    <3>2. QED
      BY <1>5, <1>9, <3>1
  <2>2. ASSUME NEW r \in 1 .. n, m = all[r], r \in Targets(q), Segments(q, count, lines, r) # <<>>
        PROVE  m \in ToSet(v)
    <3>1. PICK k \in 1 .. Len(v) : at[k] = r
      BY <1>5, <1>9, <2>2
    <3>2. v[k] = m
      BY <1>9, <2>2, <3>1
    <3>3. QED
      BY <1>8, <3>2 DEF ToSet
  <2>3. QED
    BY <2>1, <2>2
<1>12. QED
  BY <1>2, <1>6, <1>10, <1>11 DEF v, n, all

LEMMA MatchesAreFindings ==
    ASSUME world \in Worlds, NEW q \in Queries, IsAdmitted(q), NEW count \in Nat, NEW lines,
           IsLines(q, count, lines)
    PROVE  /\ Matches(q, count, lines) \in Seq(Finding)
           /\ (IsPassages(q) \/ q.k >= Len(world.b)) =>
                  ToSet(Matches(q, count, lines)) = ToSet(Wanted(q, count, lines))
<1> DEFINE v == Wanted(q, count, lines)
           s == ByTotal(v)
<1>1. v \in Seq(Finding) /\ Len(v) <= Len(world.b)
  BY WantedAreFindings
<1>2. s \in Seq(Finding) /\ ToSet(s) = ToSet(v) /\ Len(s) = Len(v)
  BY <1>1, ByTotalSorts
<1>3. Matches(q, count, lines) = IF IsPassages(q) THEN s ELSE SubSeq(s, 1, Least(q.k, Len(s)))
  BY MatchesAreWanted
<1> HIDE DEF s, v
<1>4. q.k \in Nat /\ Len(s) \in Nat /\ Len(world.b) \in Nat
  <2>1. q.k \in Nat
    BY DEF Queries, Request
  <2>2. world.b \in Seq(Seq(Fingerprint))
    BY StoresHoldPrints
  <2>3. QED
    BY <1>2, <2>1, <2>2
<1>5. Least(q.k, Len(s)) \in 0 .. Len(s)
  BY <1>4 DEF Least
<1>6. SubSeq(s, 1, Least(q.k, Len(s))) \in Seq(Finding)
  BY <1>2, <1>5, SubSeqProperties
<1>7. ASSUME q.k >= Len(world.b) PROVE SubSeq(s, 1, Least(q.k, Len(s))) = s
  <2>1. Len(s) <= q.k
    BY <1>1, <1>2, <1>4, <1>7
  <2>2. Least(q.k, Len(s)) = Len(s)
    BY <1>4, <2>1 DEF Least
  <2>3. SubSeq(s, 1, Len(s)) = s
    BY <1>2
  <2>4. QED
    BY <2>2, <2>3
<1>8. QED
  BY <1>2, <1>3, <1>6, <1>7 DEF v

\* What an answer holds.
LEMMA ResultIsTyped ==
    ASSUME world \in Worlds, NEW q \in Queries, IsAdmitted(q), NEW count \in Nat, NEW lines,
           IsLines(q, count, lines), q.verb = "match" => count = 1
    PROVE  Result(q, count, lines) \in Seq(Segment) \cup Seq(Finding)
<1>1. q.verb \in {"match", "span", "crosscheck", "passages", "discover"}
  BY DEF Queries, Request
<1>2. CASE q.verb = "match"
  <2>1. Result(q, count, lines) = RegionRows(q, lines, 1)
    BY <1>2 DEF Result, IsPair
  <2>2. 1 \in 1 .. count
    BY <1>2
  <2>3. RegionRows(q, lines, 1) \in Seq(Segment)
    BY <2>2, RowsAreSegments
  <2>4. QED
    BY <2>1, <2>3
<1>3. CASE IsPair(q)
  <2>1. Result(q, count, lines) = Segments(q, count, lines, CHOOSE r \in Targets(q) : TRUE)
    BY <1>3 DEF Result, IsPair
  <2>2. QED
    BY <2>1, SegmentsAreRows
<1>4. CASE q.verb \in {"crosscheck", "discover"}
  <2>1. Result(q, count, lines) = Matches(q, count, lines)
    BY <1>4 DEF Result, IsPair
  <2>2. QED
    BY <2>1, MatchesAreFindings
<1>5. QED
  BY <1>1, <1>2, <1>3, <1>4 DEF IsPair

-----------------------------------------------------------------------------
(* Every step keeps the trace.                                             *)

LEMMA CutIsWindowCut ==
    ASSUME NEW q \in Queries, NEW at \in Nat, NEW probes \in Seq(Seq(Fingerprint))
    PROVE  <<at, probes>> \in WindowCuts[q] <=> Cuts(q, <<at, probes>>)
<1>1. WindowCuts[q] = { c \in Nat \X Seq(Seq(Fingerprint)) : Cuts(q, c) }
  BY DEF WindowCuts
<1>2. QED
  BY <1>1

LEMMA RoundAccepts ==
    ASSUME NEW q, NEW t \in Task, t.lines \in Seq(Accepted)
    PROVE  RoundOf(q, t).lines \in Seq(Accepted)
<1> DEFINE line == IF Len(t.rest) >= MinHits THEN Vote(t.rest) ELSE <<>>
<1>1. CASE line = <<>>
  BY <1>1 DEF RoundOf
<1>2. CASE line # <<>>
  <2>1. line = Vote(t.rest) /\ Vote(t.rest) # <<>>
    BY <1>2
  <2>2. line \in Seq(Hits)
    BY <2>1, RoundMovesHits
  <2>3. line \in Accepted
    BY <1>2, <2>2 DEF Accepted
  <2> DEFINE last == ~AllLines(q) \/ Len(t.lines) + 1 = RowLimit(q)
             new == [rest |-> Remaining(t.rest, line), lines |-> Append(t.lines, line), over |-> last]
  <2>4. RoundOf(q, t) = new
    BY <1>2 DEF RoundOf
  <2> HIDE DEF line
  <2>5. Append(t.lines, line) \in Seq(Accepted)
    BY <2>3
  <2>6. QED
    BY <2>4, <2>5
<1>3. QED
  BY <1>1, <1>2

LEMMA InitIsTraced == Init => Traced
<1>1. <<>> \in Seq(TracedAnswers)
  OBVIOUS
<1>2. QED
  BY <1>1 DEF Init, Traced

LEMMA ReplyIsTraced ==
    ASSUME QueryTypes, Traced, script # <<>>, NEW ok \in BOOLEAN,
           NEW rows \in Seq(Segment) \cup Seq(Finding),
           IsTraced([request |-> request, ok |-> ok, rows |-> rows]), Reply(ok, rows)
    PROVE  Traced'
<1> DEFINE a == [request |-> request, ok |-> ok, rows |-> rows]
<1>1. answers' = Append(answers, a) /\ pc' = "idle" /\ world' = world
  BY DEF Reply
<1>2. request \in Queries
  BY RequestIsQuery DEF QueryTypes
<1>3. a \in TracedAnswers
  BY <1>2 DEF TracedAnswers, Answered
<1> HIDE DEF a
<1>4. answers' \in Seq(TracedAnswers)
  BY <1>1, <1>3 DEF Traced
<1>5. TracedAnswers' = TracedAnswers
  BY <1>1, TracedAnswersStay
<1>6. QED
  BY <1>1, <1>4, <1>5 DEF Traced

\* While a request is not answered the answers stay.
LEMMA AnswersStay ==
    ASSUME Traced, world' = world, answers' = answers
    PROVE  answers' \in Seq(TracedAnswers')
  BY TracedAnswersStay DEF Traced

\* The tasks at their beginning.
LEMMA TasksAreTraced ==
    ASSUME QueryTypes, script # <<>>, IsAdmitted(request), NEW probes \in Seq(Seq(Fingerprint)),
           tasks' = Tasks(request, probes), regions' = probes, world' = world, script' = script
    PROVE  \A task \in DOMAIN tasks' :
               /\ tasks'[task].lines \in Seq(Accepted)
               /\ Peels(request', CloudOf(request, regions, task)', tasks'[task])
<1>1. request \in Queries /\ world \in Worlds
  BY RequestIsQuery DEF QueryTypes
<1>2. /\ DOMAIN tasks' = (1 .. Len(probes)) \X Consulted(request)
      /\ \A task \in (1 .. Len(probes)) \X Consulted(request) :
             tasks'[task] = [rest |-> Cloud(probes[task[1]], world.b, Consulted(request), task[2]),
                             lines |-> <<>>, over |-> FALSE]
  BY <1>1, TasksAreTasks
<1>3. request' = request /\ Consulted(request)' = Consulted(request)
  BY RequestStays
<1> TAKE task \in DOMAIN tasks'
<1> DEFINE cloud == Cloud(probes[task[1]], world.b, Consulted(request), task[2])
<1>4. tasks'[task] = [rest |-> cloud, lines |-> <<>>, over |-> FALSE]
  BY <1>2
<1>5. CloudOf(request, regions, task)' = cloud
  BY <1>3 DEF CloudOf
<1> HIDE DEF cloud
<1>6. Peels(request, cloud, tasks'[task])
  BY <1>4, PeelingBegins
<1>7. <<>> \in Seq(Accepted)
  OBVIOUS
<1>8. QED
  BY <1>3, <1>4, <1>5, <1>6, <1>7

LEMMA VoteLineIsTraced ==
    ASSUME QueryTypes, Traced, NEW task \in DOMAIN tasks, VoteLine(task)
    PROVE  Traced'
<1>1. /\ pc = "vote" /\ pc' = pc /\ world' = world /\ script' = script /\ answers' = answers
      /\ cursor' = cursor /\ regions' = regions
  BY DEF VoteLine
<1>2. /\ DOMAIN tasks' = DOMAIN tasks /\ tasks' = [tasks EXCEPT ![task] = Round(task)]
      /\ tasks[task] \in Task /\ ~tasks[task].over
  BY VoteLineIsTyped
<1>3. Round(task) = RoundOf(request, tasks[task])
  BY DEF Round, RoundOf
<1>4. request' = request /\ Consulted(request)' = Consulted(request)
  BY <1>1, RequestStays
<1>5. \A other \in DOMAIN tasks :
          /\ tasks[other].lines \in Seq(Accepted)
          /\ Peels(request, CloudOf(request, regions, other), tasks[other])
  BY <1>1 DEF Traced
<1>6. \A other \in DOMAIN tasks :
          /\ tasks'[other].lines \in Seq(Accepted)
          /\ Peels(request, CloudOf(request, regions, other), tasks'[other])
  <2> TAKE other \in DOMAIN tasks
  <2>1. CASE other # task
    <3>1. tasks'[other] = tasks[other]
      BY <1>2, <2>1
    <3>2. QED
      BY <1>5, <3>1
  <2>2. CASE other = task
    <3>1. tasks'[task] = RoundOf(request, tasks[task])
      BY <1>2, <1>3
    <3>2. RoundOf(request, tasks[task]).lines \in Seq(Accepted)
      BY <1>2, <1>5, RoundAccepts
    <3>3. Peels(request, CloudOf(request, regions, task), RoundOf(request, tasks[task]))
      BY <1>2, <1>5, PeelingGoesOn
    <3>4. QED
      BY <2>2, <3>1, <3>2, <3>3
  <2>3. QED
    BY <2>1, <2>2
<1>7. \A other : CloudOf(request, regions, other)' = CloudOf(request, regions, other)
  BY <1>1, <1>4 DEF CloudOf
<1>8. \A other \in DOMAIN tasks' :
          /\ tasks'[other].lines \in Seq(Accepted)
          /\ Peels(request', CloudOf(request, regions, other)', tasks'[other])
  BY <1>2, <1>4, <1>6, <1>7
<1>9. (request'.verb # "match") => <<cursor', regions'>> \in WindowCuts'[request']
  BY <1>1, <1>4, TracedAnswersStay DEF Traced
<1>10. answers' \in Seq(TracedAnswers')
  BY <1>1, AnswersStay
<1>11. request'.verb = "match" => regions' = <<request'.prints>>
  BY <1>1, <1>4 DEF Traced
<1>12. request' \notin Refusals' /\ regions' # <<>>
  BY <1>1, <1>4, TracedAnswersStay DEF Traced
<1>13. QED
  BY <1>8, <1>9, <1>10, <1>11, <1>12 DEF Traced

LEMMA NextRegionIsTraced ==
    ASSUME QueryTypes, QueryTypes', RegionsAreCut, Traced, NextRegion
    PROVE  Traced'
<1> DEFINE c == <<cursor, regions>>
           prints == Forward(request, cursor, Least(RegionStop(request, cursor), stop))
<1>1. /\ pc = "regions" /\ pc' = pc /\ cursor < stop /\ cursor' = NextStart(request, cursor)
      /\ regions' = IF prints = <<>> THEN regions ELSE Append(regions, prints)
      /\ world' = world /\ script' = script /\ answers' = answers
  BY DEF NextRegion
<1>2. /\ script # <<>> /\ script \in Seq(Queries) /\ request.verb # "match"
      /\ cursor \in 0 .. MaxBin /\ regions \in Seq(Seq(Fingerprint))
      /\ cursor' \in 0 .. MaxBin /\ regions' \in Seq(Seq(Fingerprint)) /\ MaxBin \in Nat
  BY <1>1, BinsAreInTime DEF QueryTypes
<1>3. request \in Queries /\ request' = request
  BY <1>1, <1>2, RequestIsQuery, RequestStays
<1>4. stop = WindowStop(request)
  BY <1>1, <1>2 DEF RegionsAreCut
<1>5. Cuts(request, c)
  <2>1. c \in WindowCuts[request]
    BY <1>1, <1>2 DEF Traced
  <2>2. QED
    BY <1>2, <1>3, <2>1, CutIsWindowCut
<1>6. c[1] = cursor /\ c[2] = regions
  OBVIOUS
<1>7. CutOf(request, c) = <<cursor', regions'>>
  BY <1>1, <1>4, <1>6 DEF CutOf
<1> HIDE DEF c, prints
<1>8. Cuts(request, <<cursor', regions'>>)
  BY <1>1, <1>4, <1>5, <1>6, <1>7, CuttingGoesOn
<1>9. <<cursor', regions'>> \in WindowCuts[request]
  <2>1. cursor' \in Nat
    BY <1>2
  <2>2. QED
    BY <1>2, <1>3, <1>8, <2>1, CutIsWindowCut
<1>10. <<cursor', regions'>> \in WindowCuts'[request']
  BY <1>1, <1>3, <1>9, TracedAnswersStay
<1>11. answers' \in Seq(TracedAnswers') /\ pc' # "vote"
  BY <1>1, AnswersStay
<1>12. request' \notin Refusals'
  BY <1>1, <1>3, TracedAnswersStay DEF Traced
<1>13. QED
  BY <1>10, <1>11, <1>12 DEF Traced

LEMMA AnswerIsTraced ==
    ASSUME QueryTypes, RegionsAreCut, Traced, Conserved, Answer
    PROVE  Traced'
<1> DEFINE lines == [task \in DOMAIN tasks |-> tasks[task].lines]
           rows == Result(request, Len(regions), lines)
           a == [request |-> request, ok |-> TRUE, rows |-> rows]
<1>1. pc = "vote" /\ (\A task \in DOMAIN tasks : tasks[task].over) /\ Reply(TRUE, rows)
  BY DEF Answer
<1>2. /\ script # <<>> /\ script \in Seq(Queries) /\ world \in Worlds /\ IsAdmitted(request)
      /\ cursor \in 0 .. MaxBin /\ regions \in Seq(Seq(Fingerprint))
      /\ tasks \in [(1 .. Len(regions)) \X Consulted(request) -> Task]
  BY <1>1 DEF QueryTypes
<1>3. request \in Queries /\ cursor \in Nat /\ Len(regions) \in Nat
  BY <1>2, RequestIsQuery, BinsAreInTime
<1>4. /\ DOMAIN tasks = (1 .. Len(regions)) \X Consulted(request)
      /\ \A task \in DOMAIN tasks :
             /\ tasks[task].lines \in Seq(Accepted)
             /\ Peels(request, CloudOf(request, regions, task), tasks[task])
  BY <1>1, <1>2 DEF Traced
<1>5. IsLines(request, Len(regions), lines)
  BY <1>4 DEF IsLines
<1>6. request.verb = "match" => regions = <<request.prints>> /\ Len(regions) = 1
  BY <1>1 DEF Traced
<1>7. rows \in Seq(Segment) \cup Seq(Finding)
  BY <1>2, <1>3, <1>5, <1>6, ResultIsTyped
<1>8. IsAnswer(request, rows)
  <2>1. request.verb = "match" => IsCutInto(request, regions)
    BY <1>6 DEF IsCutInto
  <2>2. ASSUME request.verb # "match" PROVE IsCutInto(request, regions)
    <3>1. <<cursor, regions>> \in WindowCuts[request]
      BY <1>1, <2>2 DEF Traced
    <3>2. Cuts(request, <<cursor, regions>>)
      BY <1>2, <1>3, <3>1, CutIsWindowCut
    <3>3. cursor >= WindowStop(request)
      BY <1>1, <2>2 DEF RegionsAreCut
    <3>4. QED
      BY <1>3, <2>2, <3>2, <3>3 DEF IsCutInto
  <2>3. IsCutInto(request, regions)
    BY <2>1, <2>2
  <2>4. IsPeeledInto(request, regions, tasks)
    BY <1>1, <1>2, <1>4 DEF IsPeeledInto
  <2>5. ~Refused(request) /\ regions # <<>>
    BY <1>1, <1>3 DEF Traced, Refusals
  <2>6. QED
    BY <1>2, <2>3, <2>4, <2>5 DEF IsAnswer
<1> HIDE DEF rows
<1>9. IsTraced(a)
  BY <1>2, <1>3, <1>8 DEF IsTraced
<1>10. QED
  BY <1>1, <1>2, <1>7, <1>9, ReplyIsTraced

LEMMA TracedIsKept ==
    ASSUME QueryInvariant, QueryInvariant', RegionsAreCut, Traced, [Next]_vars
    PROVE  Traced'
<1>1. QueryTypes /\ QueryTypes' /\ Conserved
  BY DEF QueryInvariant
<1>2. <<>> \in Seq(Segment) \cup Seq(Finding)
  OBVIOUS
<1>3. ASSUME script # <<>>, IsRefusal(request), Reply(FALSE, <<>>) PROVE Traced'
  <2>1. request \in Queries
    BY <1>1, <1>3, RequestIsQuery DEF QueryTypes
  <2> DEFINE a == [request |-> request, ok |-> FALSE, rows |-> <<>>]
  <2>2. IsTraced(a)
    BY <1>3, <2>1 DEF IsTraced
  <2>3. QED
    BY <1>1, <1>2, <1>3, <2>2, ReplyIsTraced
<1>4. CASE Refuse
  <2>1. script # <<>> /\ Refused(request) /\ Reply(FALSE, <<>>)
    BY <1>4 DEF Refuse
  <2>2. QED
    BY <1>3, <2>1 DEF IsRefusal
<1>5. CASE Match
  <2>1. /\ script # <<>> /\ ~Refused(request) /\ request.verb = "match" /\ pc' = "vote"
        /\ regions' = <<request.prints>> /\ tasks' = Tasks(request, <<request.prints>>)
        /\ world' = world /\ script' = script /\ answers' = answers
    BY <1>5 DEF Match
  <2>2. request' = request /\ IsAdmitted(request) /\ <<request.prints>> \in Seq(Seq(Fingerprint))
    <3>1. request.prints \in Seq(Fingerprint)
      BY <1>1, <2>1, RequestIsQuery DEF QueryTypes
    <3>2. QED
      BY <2>1, <3>1, RequestStays DEF IsAdmitted
  <2>3. \A task \in DOMAIN tasks' :
            /\ tasks'[task].lines \in Seq(Accepted)
            /\ Peels(request', CloudOf(request, regions, task)', tasks'[task])
    BY <1>1, <2>1, <2>2, TasksAreTraced
  <2>4. answers' \in Seq(TracedAnswers')
    BY <2>1, AnswersStay
  <2>5. request' \notin Refusals' /\ regions' # <<>>
    BY <2>1, <2>2, TracedAnswersStay DEF Refusals
  <2>6. QED
    BY <2>1, <2>2, <2>3, <2>4, <2>5 DEF Traced
<1>6. CASE StartRegions
  <2>1. /\ script # <<>> /\ pc = "idle" /\ pc' = "regions" /\ cursor' = WindowStart(request)
        /\ regions' = regions /\ world' = world /\ script' = script /\ answers' = answers
        /\ ~Refused(request)
    BY <1>6 DEF StartRegions
  <2>2. request \in Queries /\ request' = request /\ regions = <<>> /\ world \in Worlds
    BY <1>1, <2>1, RequestIsQuery, RequestStays DEF QueryTypes
  <2>3. Cuts(request, <<cursor', regions'>>)
    BY <2>1, <2>2, CuttingBegins
  <2>4. cursor' \in Nat /\ regions' \in Seq(Seq(Fingerprint))
    <3>1. cursor' \in 0 .. MaxBin /\ regions' \in Seq(Seq(Fingerprint))
      BY <1>1 DEF QueryTypes
    <3>2. QED
      BY <3>1, BinsAreInTime
  <2>5. <<cursor', regions'>> \in WindowCuts[request]
    BY <2>2, <2>3, <2>4, CutIsWindowCut
  <2>6. <<cursor', regions'>> \in WindowCuts'[request']
    BY <2>1, <2>2, <2>5, TracedAnswersStay
  <2>7. answers' \in Seq(TracedAnswers') /\ pc' # "vote"
    BY <2>1, AnswersStay
  <2>8. request' \notin Refusals'
    BY <2>1, <2>2, TracedAnswersStay DEF Refusals
  <2>9. QED
    BY <2>6, <2>7, <2>8 DEF Traced
<1>7. CASE NextRegion
  BY <1>1, <1>7, NextRegionIsTraced
<1>8. CASE NoRegion
  <2>1. pc = "regions" /\ cursor >= stop /\ regions = <<>> /\ Reply(FALSE, <<>>)
    BY <1>8 DEF NoRegion
  <2>2. script # <<>> /\ script \in Seq(Queries) /\ request.verb # "match" /\ cursor \in 0 .. MaxBin
    BY <1>1, <2>1 DEF QueryTypes
  <2>3. stop = WindowStop(request) /\ request \in Queries /\ cursor \in Nat
    BY <2>1, <2>2, RequestIsQuery, BinsAreInTime DEF RegionsAreCut
  <2>4. Cuts(request, <<cursor, <<>> >>)
    <3>1. <<cursor, <<>> >> \in WindowCuts[request]
      BY <2>1, <2>2 DEF Traced
    <3>2. <<>> \in Seq(Seq(Fingerprint))
      OBVIOUS
    <3>3. QED
      BY <2>3, <3>1, <3>2, CutIsWindowCut
  <2>5. IsRefusal(request)
    BY <2>1, <2>2, <2>3, <2>4 DEF IsRefusal, IsCutInto
  <2>6. QED
    BY <1>3, <2>1, <2>2, <2>5
<1>9. CASE StartVote
  <2>1. /\ pc = "regions" /\ pc' = "vote" /\ tasks' = Tasks(request, regions) /\ regions' = regions
        /\ cursor' = cursor /\ world' = world /\ script' = script /\ answers' = answers
    BY <1>9 DEF StartVote
  <2>2. /\ script # <<>> /\ IsAdmitted(request) /\ regions \in Seq(Seq(Fingerprint))
        /\ request.verb # "match" /\ request' = request
    BY <1>1, <2>1, RequestStays DEF QueryTypes
  <2>3. \A task \in DOMAIN tasks' :
            /\ tasks'[task].lines \in Seq(Accepted)
            /\ Peels(request', CloudOf(request, regions, task)', tasks'[task])
    BY <1>1, <2>1, <2>2, TasksAreTraced
  <2>4. <<cursor', regions'>> \in WindowCuts'[request']
    BY <2>1, <2>2, TracedAnswersStay DEF Traced
  <2>5. answers' \in Seq(TracedAnswers')
    BY <2>1, AnswersStay
  <2>6. request' \notin Refusals' /\ regions' # <<>>
    <3>1. regions # <<>>
      BY <1>9 DEF StartVote
    <3>2. QED
      BY <2>1, <2>2, <3>1, TracedAnswersStay DEF Traced
  <2>7. QED
    BY <2>2, <2>3, <2>4, <2>5, <2>6 DEF Traced
<1>10. ASSUME NEW task \in DOMAIN tasks, VoteLine(task) PROVE Traced'
  BY <1>1, <1>10, VoteLineIsTraced
<1>11. CASE Answer
  BY <1>1, <1>11, AnswerIsTraced
<1>12. CASE vars' = vars
  <2>1. /\ world' = world /\ script' = script /\ pc' = pc /\ cursor' = cursor /\ regions' = regions
        /\ tasks' = tasks /\ answers' = answers
    BY <1>12 DEF vars
  <2>2. request' = request /\ Consulted(request)' = Consulted(request)
    BY <2>1, RequestStays
  <2>3. \A task : CloudOf(request, regions, task)' = CloudOf(request, regions, task)
    BY <2>1, <2>2 DEF CloudOf
  <2>4. TracedAnswers' = TracedAnswers /\ WindowCuts' = WindowCuts /\ Refusals' = Refusals
    BY <2>1, TracedAnswersStay
  <2>5. QED
    BY <2>1, <2>2, <2>3, <2>4 DEF Traced
<1>13. CASE Done
  BY <1>12, <1>13 DEF Done
<1>14. QED
  BY <1>4, <1>5, <1>6, <1>7, <1>8, <1>9, <1>10, <1>11, <1>12, <1>13 DEF Next

\* Every answer is what the stores and the request determine.
THEOREM AnswersAreTraced == Spec => []Traced
<1>1. Init => Traced
  BY InitIsTraced
<1>2. QueryInvariant /\ QueryInvariant' /\ RegionsAreCut /\ Traced /\ [Next]_vars => Traced'
  BY TracedIsKept
<1>3. QED
  BY <1>1, <1>2, QueryIsInvariant, RegionsStayCut, PTL DEF Spec

-----------------------------------------------------------------------------
(* What two answers have in common.                                        *)

\* Requests for one window in one lane cut it alike.
LEMMA CuttingIsUnique ==
    ASSUME world \in Worlds, NEW q \in Queries, NEW p \in Queries, IsAdmitted(q), SameProbe(q, p),
           IsPassages(q) <=> IsPassages(p), NEW u, NEW v, IsCutInto(q, u), IsCutInto(p, v)
    PROVE  u = v
<1>1. Probe(q) = Probe(p) /\ Times(q) = Times(p)
  BY DEF SameProbe, Probe, Times
<1>2. NaturalStart(q) = NaturalStart(p) /\ NaturalStop(q) = NaturalStop(p)
  BY <1>1 DEF NaturalStart, NaturalStop
<1>3. WindowStart(q) = WindowStart(p) /\ WindowStop(q) = WindowStop(p)
  BY <1>2 DEF SameProbe, WindowStart, WindowStop
<1>4. \A c : CutOf(q, c) = CutOf(p, c)
  <2> TAKE c
  <2>1. RegionStop(q, c[1]) = RegionStop(p, c[1]) /\ NextStart(q, c[1]) = NextStart(p, c[1])
    BY DEF RegionStop, NextStart
  <2>2. \A from, to : Forward(q, from, to) = Forward(p, from, to)
    BY <1>1 DEF Forward, Selected
  <2>3. QED
    BY <1>3, <2>1, <2>2 DEF CutOf
<1> DEFINE limit == WindowStop(q)
<1>5. limit \in Nat
  <2>1. q.key \in DOMAIN world.a
    BY DEF IsAdmitted, SameProbe
  <2>2. q.window # None => q.window \in Nat \X Nat
    BY DEF Queries, Request
  <2>3. limit \in 0 .. MaxBin
    BY <2>1, <2>2, WindowIsInTime
  <2>4. QED
    BY <2>3, BinsAreInTime
<1>6. PICK x \in Nat : x >= limit /\ Cuts(q, <<x, u>>)
  BY DEF IsCutInto, SameProbe
<1>7. PICK y \in Nat : y >= limit /\ Cuts(p, <<y, v>>)
  BY <1>3 DEF IsCutInto, SameProbe
<1>8. PICK m \in Nat : \E f : f[m] = <<x, u>> /\ IsCutting(q, f, m)
  BY <1>6 DEF Cuts
<1>9. PICK f : f[m] = <<x, u>> /\ IsCutting(q, f, m)
  BY <1>8
<1>10. PICK n \in Nat : \E g : g[n] = <<y, v>> /\ IsCutting(p, g, n)
  BY <1>7 DEF Cuts
<1>11. PICK g : g[n] = <<y, v>> /\ IsCutting(p, g, n)
  BY <1>10
<1>12. f[0] = g[0]
  BY <1>3, <1>9, <1>11 DEF IsCutting
<1>13. \A k \in Nat : k < m => f[k][1] < limit /\ f[k + 1] = CutOf(q, f[k])
  BY <1>9 DEF IsCutting
<1>14. \A k \in Nat : k < n => g[k][1] < limit /\ g[k + 1] = CutOf(q, g[k])
  BY <1>3, <1>4, <1>11 DEF IsCutting
<1>15. f[m][1] = x /\ g[n][1] = y
  BY <1>9, <1>11
<1> HIDE DEF limit
<1>16. \A k \in Nat : (k < m /\ k < n /\ f[k] = g[k]) => f[k + 1] = g[k + 1]
  BY <1>13, <1>14
<1>17. \A k \in Nat : (k <= m /\ k <= n /\ f[k] = g[k]) => (k = m <=> k = n)
  <2> TAKE k \in Nat
  <2> HAVE k <= m /\ k <= n /\ f[k] = g[k]
  <2>1. ASSUME k = m PROVE k = n
    <3>1. ~(g[k][1] < limit)
      BY <1>5, <1>6, <1>15, <2>1
    <3>2. ~(k < n)
      BY <1>14, <3>1
    <3>3. QED
      BY <3>2
  <2>2. ASSUME k = n PROVE k = m
    <3>1. ~(f[k][1] < limit)
      BY <1>5, <1>7, <1>15, <2>2
    <3>2. ~(k < m)
      BY <1>13, <3>1
    <3>3. QED
      BY <3>2
  <2>3. QED
    BY <2>1, <2>2
<1>18. RunAlike(f, m, g, n)
  BY <1>12, <1>16, <1>17 DEF RunAlike
<1>19. f[m] = g[n]
  BY <1>18, RunsAreTheSame
<1>20. QED
  BY <1>9, <1>11, <1>19

\* A cloud is peeled alike for requests that want as many lines.
LEMMA PeelingIsUnique ==
    ASSUME NEW q, NEW p, AllLines(q) <=> AllLines(p), RowLimit(q) = RowLimit(p), NEW cloud,
           NEW s, NEW t, Peels(q, cloud, s), Peels(p, cloud, t), s.over, t.over
    PROVE  s = t
<1>1. \A x : RoundOf(q, x) = RoundOf(p, x)
  BY DEF RoundOf
<1>2. PICK m \in Nat : \E f : f[m] = s /\ IsPeeling(q, cloud, f, m)
  BY DEF Peels
<1>3. PICK f : f[m] = s /\ IsPeeling(q, cloud, f, m)
  BY <1>2
<1>4. PICK n \in Nat : \E g : g[n] = t /\ IsPeeling(p, cloud, g, n)
  BY DEF Peels
<1>5. PICK g : g[n] = t /\ IsPeeling(p, cloud, g, n)
  BY <1>4
<1>6. f[0] = g[0]
  BY <1>3, <1>5 DEF IsPeeling
<1>7. \A k \in Nat : k < m => ~f[k].over /\ f[k + 1] = RoundOf(q, f[k])
  BY <1>3 DEF IsPeeling
<1>8. \A k \in Nat : k < n => ~g[k].over /\ g[k + 1] = RoundOf(q, g[k])
  BY <1>1, <1>5 DEF IsPeeling
<1>9. \A k \in Nat : (k < m /\ k < n /\ f[k] = g[k]) => f[k + 1] = g[k + 1]
  BY <1>7, <1>8
<1>10. \A k \in Nat : (k <= m /\ k <= n /\ f[k] = g[k]) => (k = m <=> k = n)
  BY <1>3, <1>5, <1>7, <1>8
<1>11. RunAlike(f, m, g, n)
  BY <1>6, <1>9, <1>10 DEF RunAlike
<1>12. f[m] = g[n]
  BY <1>11, RunsAreTheSame
<1>13. QED
  BY <1>3, <1>5, <1>12

\* A pair query queues the hashes that the whole store has, as the fan-out does.
LEMMA QueueIsOfTheStore ==
    ASSUME NEW probe, NEW library, NEW refs \in SUBSET (DOMAIN library), NEW r
    PROVE  Cloud(probe, library, refs, r) = Cloud(probe, library, DOMAIN library, r)
<1>1. \A h : Present(library, refs, h) <=> Present(library, DOMAIN library, h)
  BY DEF Present, Found
<1>2. { h \in Hashes(probe) : Present(library, refs, h) }
      = { h \in Hashes(probe) : Present(library, DOMAIN library, h) }
  BY <1>1
<1>3. Queued(probe, library, refs) = Queued(probe, library, DOMAIN library)
  <2> DEFINE Order(present) ==
                 LET capacity == TableCapacity(Cardinality(present))
                     firsts == { Min(Occurrences(probe, h)) : h \in present }
                 IN  StableSort(ElementsAt(Places(probe), firsts), LAMBDA i, j :
                         HashBucket(probe[i].hash, capacity) < HashBucket(probe[j].hash, capacity))
  <2>1. \A some : Queued(probe, library, some) =
                     Order({ h \in Hashes(probe) : Present(library, some, h) })
    BY DEF Queued
  <2> HIDE DEF Order
  <2>2. QED
    BY <1>2, <2>1
<1>4. QED
  BY <1>3 DEF Cloud

\* What the lines of an answered request are.
LinesOf(ends) == [task \in DOMAIN ends |-> ends[task].lines]

LEMMA EndsAreLines ==
    ASSUME NEW q \in Queries, NEW probes \in Seq(Seq(Fingerprint)), NEW ends,
           IsPeeledInto(q, probes, ends)
    PROVE  /\ IsLines(q, Len(probes), LinesOf(ends))
           /\ \A g \in 1 .. Len(probes), r \in Consulted(q) :
                  /\ LinesOf(ends)[g, r] = ends[<<g, r>>].lines /\ ends[<<g, r>>].over
                  /\ Peels(q, CloudOf(q, probes, <<g, r>>), ends[<<g, r>>])
<1>1. /\ DOMAIN ends = (1 .. Len(probes)) \X Consulted(q)
      /\ \A task \in (1 .. Len(probes)) \X Consulted(q) :
             /\ ends[task].over /\ ends[task].lines \in Seq(Accepted)
             /\ Peels(q, CloudOf(q, probes, task), ends[task])
  BY DEF IsPeeledInto
<1>2. IsLines(q, Len(probes), LinesOf(ends))
  BY <1>1 DEF IsLines, LinesOf
<1>3. \A g \in 1 .. Len(probes), r \in Consulted(q) : LinesOf(ends)[g, r] = ends[<<g, r>>].lines
  BY <1>1 DEF LinesOf
<1>4. QED
  BY <1>1, <1>2, <1>3

\* A pair query and the fan-out over the same probe.
IsFanOf(p, q) ==
    /\ \/ q.verb = "span" /\ p.verb = "crosscheck"
       \/ q.verb = "passages" /\ p.verb = "discover"
    /\ SameProbe(q, p) /\ q.multi = p.multi

LEMMA FanIsAlike ==
    ASSUME NEW q \in Queries, NEW p \in Queries, IsFanOf(p, q)
    PROVE  /\ IsPair(q) /\ ~IsPair(p) /\ Consulted(p) = DOMAIN world.b
           /\ AllLines(q) <=> AllLines(p)
           /\ RowLimit(q) = None /\ RowLimit(p) = None
           /\ IsPassages(q) <=> IsPassages(p)
           /\ Targets(q) = q.targets /\ Consulted(q) = q.targets
           /\ \E r \in q.targets : q.targets = {r}
<1>1. /\ IsPair(q) /\ ~IsPair(p) /\ RowLimit(q) = None /\ RowLimit(p) = None
      /\ IsPassages(q) <=> IsPassages(p)
  BY DEF IsFanOf, IsPair, RowLimit, IsPassages
<1>2. AllLines(q) <=> AllLines(p)
  BY <1>1 DEF IsFanOf, AllLines
<1>3. q.targets # None /\ \E r \in q.targets : q.targets = {r}
  BY <1>1 DEF Queries
<1>4. Targets(q) = q.targets /\ Consulted(q) = q.targets /\ Consulted(p) = DOMAIN world.b
  BY <1>1, <1>3 DEF Targets, Consulted
<1>5. QED
  BY <1>1, <1>2, <1>3, <1>4

\* They make the same of a resource.
LEMMA FanHasSegments ==
    ASSUME world \in Worlds, NEW q \in Queries, NEW p \in Queries, IsAdmitted(q), IsAdmitted(p),
           IsFanOf(p, q), NEW r \in q.targets, NEW probes \in Seq(Seq(Fingerprint)),
           NEW s, NEW t, IsPeeledInto(q, probes, s), IsPeeledInto(p, probes, t)
    PROVE  Segments(q, Len(probes), LinesOf(s), r) = Segments(p, Len(probes), LinesOf(t), r)
<1> DEFINE count == Len(probes)
<1>1. /\ Consulted(p) = DOMAIN world.b /\ (AllLines(q) <=> AllLines(p))
      /\ RowLimit(q) = None /\ RowLimit(p) = None
      /\ Consulted(q) = q.targets /\ Targets(q) = q.targets /\ IsPair(q)
  BY FanIsAlike
<1>2. Consulted(q) \subseteq DOMAIN world.b /\ r \in Consulted(q) /\ r \in Consulted(p)
  BY <1>1 DEF IsAdmitted, IsPair
<1>3. count \in Nat
  OBVIOUS
<1>4. /\ IsLines(q, count, LinesOf(s))
      /\ \A g \in 1 .. count :
             /\ LinesOf(s)[g, r] = s[<<g, r>>].lines /\ s[<<g, r>>].over
             /\ Peels(q, CloudOf(q, probes, <<g, r>>), s[<<g, r>>])
  BY <1>2, EndsAreLines
<1>5. /\ IsLines(p, count, LinesOf(t))
      /\ \A g \in 1 .. count :
             /\ LinesOf(t)[g, r] = t[<<g, r>>].lines /\ t[<<g, r>>].over
             /\ Peels(p, CloudOf(p, probes, <<g, r>>), t[<<g, r>>])
  BY <1>2, EndsAreLines
<1>6. \A g : CloudOf(q, probes, <<g, r>>) = CloudOf(p, probes, <<g, r>>)
  <2> TAKE g
  <2> DEFINE probe == probes[g]
             library == world.b
             refs == Consulted(q)
  <2>1. refs \in SUBSET (DOMAIN library)
    BY <1>2
  <2> HIDE DEF probe, library, refs
  <2>2. Cloud(probe, library, refs, r) = Cloud(probe, library, DOMAIN library, r)
    BY <2>1, QueueIsOfTheStore
  <2>3. /\ CloudOf(q, probes, <<g, r>>) = Cloud(probe, library, refs, r)
        /\ CloudOf(p, probes, <<g, r>>) = Cloud(probe, library, DOMAIN library, r)
    BY <1>1 DEF CloudOf, probe, library, refs
  <2>4. QED
    BY <2>2, <2>3
<1> HIDE DEF count
<1>7. \A g \in 1 .. count : s[<<g, r>>] = t[<<g, r>>]
  <2> TAKE g \in 1 .. count
  <2> DEFINE cloud == CloudOf(q, probes, <<g, r>>)
             x == s[<<g, r>>]
             y == t[<<g, r>>]
  <2>1. Peels(q, cloud, x) /\ x.over /\ Peels(p, cloud, y) /\ y.over
    BY <1>4, <1>5, <1>6
  <2> HIDE DEF cloud, x, y
  <2>2. x = y
    BY <1>1, <2>1, PeelingIsUnique
  <2>3. QED
    BY <2>2 DEF x, y
<1>8. \A g \in 1 .. count : RowsOf(LinesOf(s), g, r) = RowsOf(LinesOf(t), g, r)
  <2> TAKE g \in 1 .. count
  <2>1. LinesOf(s)[g, r] = LinesOf(t)[g, r]
    BY <1>4, <1>5, <1>7
  <2>2. QED
    BY <2>1 DEF RowsOf
<1>9. \A g \in 1 .. count : Share(q, LinesOf(s), g, r) = Share(p, LinesOf(t), g, r)
  <2> TAKE g \in 1 .. count
  <2> DEFINE v == LinesOf(s)
             w == LinesOf(t)
  <2>1. IsLines(q, count, v) /\ IsLines(p, count, w)
    BY <1>4, <1>5
  <2>2. RowsOf(v, g, r) = RowsOf(w, g, r)
    BY <1>8
  <2> HIDE DEF v, w
  <2>3. Share(q, v, g, r) = Sorted(RowsOf(v, g, r), RankedBefore)
    BY <1>1, <1>2, <1>3, <2>1, ShareIsRanked
  <2>4. Share(p, w, g, r) = Sorted(RowsOf(w, g, r), RankedBefore)
    BY <1>1, <1>2, <1>3, <2>1, ShareIsRanked
  <2>5. QED
    BY <2>2, <2>3, <2>4 DEF v, w
<1>10. Shares(q, count, LinesOf(s), r) = Shares(p, count, LinesOf(t), r)
  BY <1>9 DEF Shares
<1>11. QED
  BY <1>1, <1>10, SegmentsAreShares DEF count

\* What the matches say of a resource is what was found of it.
LEMMA MatchesSay ==
    ASSUME world \in Worlds, NEW p \in Queries, IsAdmitted(p), NEW count \in Nat, NEW lines,
           IsLines(p, count, lines), IsPassages(p) \/ p.k >= Len(world.b),
           NEW r \in DOMAIN world.b, r \in Targets(p), NEW a, ~IsPair(a.request),
           a.rows = Matches(p, count, lines)
    PROVE  SegmentsOf(a, r) = Segments(p, count, lines, r)
<1> DEFINE rows == a.rows
           chosen == { i \in DOMAIN rows : rows[i].ref = r }
           found == ElementsAt(rows, chosen)
           all == Findings(p, count, lines)
<1>1. rows \in Seq(Finding) /\ ToSet(rows) = ToSet(Wanted(p, count, lines))
  BY MatchesAreFindings
<1>2. \A m : m \in ToSet(Wanted(p, count, lines)) <=>
          \E i \in DOMAIN world.b :
              m = all[i] /\ i \in Targets(p) /\ Segments(p, count, lines, i) # <<>>
  BY WantedAreFindings
<1>3. \A i \in DOMAIN world.b : all[i].ref = i /\ all[i].segments = Segments(p, count, lines, i)
  BY FindingsAreFindings
<1>4. SegmentsOf(a, r) = IF found = <<>> THEN <<>> ELSE found[1].segments
  BY DEF SegmentsOf, Selected
<1>5. DOMAIN rows = 1 .. Len(rows) /\ Len(rows) \in Nat /\ \A i \in 1 .. Len(rows) : rows[i] \in Finding
  BY <1>1, ElementOfSeq
<1> HIDE DEF rows, all
<1>6. \A i : i \in chosen <=> i \in 1 .. Len(rows) /\ rows[i].ref = r
  BY <1>5
<1> HIDE DEF chosen
<1>7. found \in Seq(Finding) /\ \E at : IsSelection(at, Len(rows), chosen, rows, found)
  BY <1>5, ElementsAtAreElements
<1> HIDE DEF found
<1>8. PICK at : IsSelection(at, Len(rows), chosen, rows, found)
  BY <1>7
<1>9. /\ \A k \in 1 .. Len(found) : at[k] \in 1 .. Len(rows) /\ at[k] \in chosen /\ found[k] = rows[at[k]]
      /\ \A i \in 1 .. Len(rows) : i \in chosen => \E k \in 1 .. Len(found) : at[k] = i
  BY <1>8 DEF IsSelection
<1>10. \A k \in 1 .. Len(found) :
           found[k] = all[r] /\ Segments(p, count, lines, r) # <<>>
  <2> TAKE k \in 1 .. Len(found)
  <2>1. found[k] \in ToSet(rows) /\ found[k].ref = r
    BY <1>5, <1>6, <1>9 DEF ToSet
  <2>2. PICK i \in DOMAIN world.b :
            found[k] = all[i] /\ i \in Targets(p) /\ Segments(p, count, lines, i) # <<>>
    BY <1>1, <1>2, <2>1
  <2>3. i = r
    BY <1>3, <2>1, <2>2
  <2>4. QED
    BY <2>2, <2>3
<1>11. Len(found) \in Nat /\ (found = <<>> <=> Len(found) = 0)
  BY <1>7
<1>12. CASE Segments(p, count, lines, r) = <<>>
  <2>1. ~(1 \in 1 .. Len(found))
    BY <1>10, <1>12
  <2>2. Len(found) = 0
    BY <1>11, <2>1
  <2>3. QED
    BY <1>4, <1>11, <1>12, <2>2
<1>13. CASE Segments(p, count, lines, r) # <<>>
  <2>1. all[r] \in ToSet(rows)
    BY <1>1, <1>2, <1>13
  <2>2. PICK i \in 1 .. Len(rows) : rows[i] = all[r]
    BY <1>5, <2>1 DEF ToSet
  <2>3. i \in chosen
    BY <1>3, <1>6, <2>2
  <2>4. PICK k \in 1 .. Len(found) : at[k] = i
    BY <1>9, <2>3
  <2>5. 1 \in 1 .. Len(found) /\ found # <<>>
    BY <1>11, <2>4
  <2>6. found[1].segments = Segments(p, count, lines, r)
    BY <1>3, <1>10, <2>5
  <2>7. QED
    BY <1>4, <2>5, <2>6
<1>14. QED
  BY <1>12, <1>13

LEMMA FanSaysTheSame ==
    ASSUME world \in Worlds, NEW span, NEW fan, IsTraced(span), IsTraced(fan), span.ok, fan.ok,
           IsFanOf(fan.request, span.request),
           fan.request.verb = "crosscheck" => fan.request.k >= Len(world.b),
           NEW r \in span.request.targets, r \in Targets(fan.request)
    PROVE  span.rows = SegmentsOf(fan, r)
<1> DEFINE q == span.request
           p == fan.request
<1>1. /\ q \in Queries /\ p \in Queries /\ IsAdmitted(q) /\ IsAdmitted(p)
      /\ IsAnswer(q, span.rows) /\ IsAnswer(p, fan.rows)
  BY DEF IsTraced
<1> HIDE DEF q, p
<1>2. /\ IsFanOf(p, q) /\ (p.verb = "crosscheck" => p.k >= Len(world.b))
      /\ r \in q.targets /\ r \in Targets(p)
  BY DEF q, p
<1>3. /\ IsPair(q) /\ ~IsPair(p) /\ (IsPassages(q) <=> IsPassages(p))
      /\ Targets(q) = q.targets /\ q.targets = {r}
  BY <1>1, <1>2, FanIsAlike
<1>4. PICK u, s :
          /\ u \in Seq(Seq(Fingerprint)) /\ IsCutInto(q, u) /\ IsPeeledInto(q, u, s)
          /\ span.rows = Result(q, Len(u), LinesOf(s))
  BY <1>1 DEF IsAnswer, LinesOf
<1>5. PICK v, t :
          /\ v \in Seq(Seq(Fingerprint)) /\ IsCutInto(p, v) /\ IsPeeledInto(p, v, t)
          /\ fan.rows = Result(p, Len(v), LinesOf(t))
  BY <1>1 DEF IsAnswer, LinesOf
<1>6. u = v
  <2>1. SameProbe(q, p)
    BY <1>2 DEF IsFanOf
  <2>2. QED
    BY <1>1, <1>3, <1>4, <1>5, <2>1, CuttingIsUnique
<1>7. Segments(q, Len(u), LinesOf(s), r) = Segments(p, Len(u), LinesOf(t), r)
  BY <1>1, <1>2, <1>4, <1>5, <1>6, FanHasSegments
<1>8. span.rows = Segments(q, Len(u), LinesOf(s), r)
  <2>1. (CHOOSE x \in Targets(q) : TRUE) = r
    BY <1>3
  <2>2. q.verb # "match"
    BY <1>3 DEF IsPair
  <2>3. Result(q, Len(u), LinesOf(s)) = Segments(q, Len(u), LinesOf(s), CHOOSE x \in Targets(q) : TRUE)
    BY <1>3, <2>2 DEF Result, IsPair
  <2>4. QED
    BY <1>4, <2>1, <2>3
<1>9. p.verb \in {"crosscheck", "discover"} /\ (IsPassages(p) \/ p.k >= Len(world.b))
  BY <1>2 DEF IsFanOf, IsPassages
<1>10. fan.rows = Matches(p, Len(u), LinesOf(t))
  BY <1>3, <1>5, <1>6, <1>9 DEF Result
<1>11. SegmentsOf(fan, r) = Segments(p, Len(u), LinesOf(t), r)
  <2>1. IsLines(p, Len(u), LinesOf(t)) /\ Len(u) \in Nat
    <3>1. u \in Seq(Seq(Fingerprint)) /\ IsPeeledInto(p, u, t)
      BY <1>4, <1>5, <1>6
    <3>2. IsLines(p, Len(u), LinesOf(t))
      BY <1>1, <3>1, EndsAreLines
    <3>3. QED
      BY <3>1, <3>2
  <2>2. r \in DOMAIN world.b
    BY <1>1, <1>2, <1>9 DEF IsAdmitted
  <2>3. ~IsPair(fan.request)
    BY <1>3 DEF p
  <2>4. QED
    BY <1>1, <1>2, <1>9, <1>10, <2>1, <2>2, <2>3, MatchesSay
<1>12. QED
  BY <1>7, <1>8, <1>11

LEMMA AnswersAreOfTheTrace ==
    ASSUME Traced
    PROVE  \A n \in DOMAIN answers : IsTraced(answers[n])
<1>1. answers \in Seq(TracedAnswers)
  BY DEF Traced
<1>2. \A n \in DOMAIN answers : answers[n] \in TracedAnswers
  BY <1>1
<1>3. QED
  BY <1>2 DEF TracedAnswers

\* The pair query and the fan-out say the same of a resource.
THEOREM SpanStaysCrosscheck == Spec => []SpanIsCrosscheck
<1>1. ASSUME QueryTypes, Traced PROVE SpanIsCrosscheck
  <2> SUFFICES ASSUME NEW m \in DOMAIN answers, NEW n \in DOMAIN answers,
                      \/ /\ answers[m].request.verb = "span" /\ answers[n].request.verb = "crosscheck"
                         /\ answers[n].request.k >= Cardinality(DOMAIN world.b)
                      \/ answers[m].request.verb = "passages" /\ answers[n].request.verb = "discover",
                      SameProbe(answers[m].request, answers[n].request),
                      answers[m].request.multi = answers[n].request.multi,
                      answers[m].ok, answers[n].ok,
                      NEW r \in answers[m].request.targets \cap Targets(answers[n].request)
               PROVE  answers[m].rows = SegmentsOf(answers[n], r)
    BY DEF SpanIsCrosscheck
  <2>1. world \in Worlds /\ IsTraced(answers[m]) /\ IsTraced(answers[n])
    BY <1>1, AnswersAreOfTheTrace DEF QueryTypes
  <2>2. IsFanOf(answers[n].request, answers[m].request)
    BY DEF IsFanOf
  <2>3. Cardinality(DOMAIN world.b) = Len(world.b)
    <3>1. world.b \in Seq(Seq(Fingerprint))
      BY <2>1, StoresHoldPrints
    <3>2. Len(world.b) \in Nat /\ DOMAIN world.b = 1 .. Len(world.b)
      BY <3>1
    <3>3. \A k \in Nat : Cardinality(1 .. k) = k
      <4> TAKE k \in Nat
      <4>1. 1 \in Int /\ k \in Int /\ (1 > k => k = 0) /\ (1 <= k => k - 1 + 1 = k)
        OBVIOUS
      <4>2. QED
        BY ONLY <4>1, FS_Interval
    <3>4. QED
      BY <3>2, <3>3
  <2>4. answers[n].request.verb = "crosscheck" => answers[n].request.k >= Len(world.b)
    BY <2>3
  <2>5. QED
    BY <2>1, <2>2, <2>4, FanSaysTheSame
<1>2. QueryInvariant /\ Traced => SpanIsCrosscheck
  BY <1>1 DEF QueryInvariant
<1>3. QED
  BY <1>2, QueryIsInvariant, AnswersAreTraced, PTL

\* A round adds a line or none.
LEMMA RoundKeepsLines ==
    ASSUME NEW q, NEW t \in Task
    PROVE  /\ RoundOf(q, t) \in Task
           /\ \A j \in 1 .. Len(t.lines) :
                  j \in 1 .. Len(RoundOf(q, t).lines) /\ RoundOf(q, t).lines[j] = t.lines[j]
<1> DEFINE line == IF Len(t.rest) >= MinHits THEN Vote(t.rest) ELSE <<>>
           last == ~AllLines(q) \/ Len(t.lines) + 1 = RowLimit(q)
           new == IF line = <<>> THEN [rest |-> t.rest, lines |-> t.lines, over |-> TRUE]
                  ELSE [rest |-> Remaining(t.rest, line), lines |-> Append(t.lines, line), over |-> last]
<1>1. last \in BOOLEAN
  OBVIOUS
<1>2. RoundOf(q, t) = new
  BY DEF RoundOf
<1> HIDE DEF last
<1>3. new \in Task
  BY <1>1, RoundKeepsTask
<1>4. t.lines \in Seq(Seq(Hits))
  BY DEF Task
<1>5. CASE line = <<>>
  BY <1>2, <1>3, <1>5
<1>6. CASE line # <<>>
  <2>1. line = Vote(t.rest) /\ Vote(t.rest) # <<>>
    BY <1>6
  <2>2. line \in Seq(Hits)
    BY <2>1, RoundMovesHits
  <2> DEFINE lines == t.lines
  <2>3. new.lines = Append(lines, line)
    BY <1>6
  <2> HIDE DEF line, lines, new
  <2>4. \A j \in 1 .. Len(lines) :
            j \in 1 .. Len(Append(lines, line)) /\ Append(lines, line)[j] = lines[j]
    BY <1>4, <2>2 DEF lines
  <2>5. QED
    BY <1>2, <1>3, <2>3, <2>4 DEF lines
<1>7. QED
  BY <1>5, <1>6

\* The default's line is the first of all lines.
LEMMA FirstLineStays ==
    ASSUME NEW q, NEW p, ~AllLines(q), NEW cloud \in Seq(Hits), NEW s, NEW t,
           Peels(q, cloud, s), Peels(p, cloud, t), s.over, t.over
    PROVE  \A k \in 1 .. Len(s.lines) : k \in 1 .. Len(t.lines) /\ t.lines[k] = s.lines[k]
<1> DEFINE first == [rest |-> cloud, lines |-> <<>>, over |-> FALSE]
           one == RoundOf(q, first)
           other == RoundOf(p, first)
<1>1. first \in Task
  <2>1. <<>> \in Seq(Seq(Hits))
    OBVIOUS
  <2>2. QED
    BY <2>1 DEF Task
<1>2. one.over /\ one.lines = other.lines
  BY DEF RoundOf
<1>3. one \in Task /\ other \in Task
  BY <1>1, RoundKeepsLines
<1>4. PICK m \in Nat : \E f : f[m] = s /\ IsPeeling(q, cloud, f, m)
  BY DEF Peels
<1>5. PICK f : f[m] = s /\ IsPeeling(q, cloud, f, m)
  BY <1>4
<1>6. PICK n \in Nat : \E g : g[n] = t /\ IsPeeling(p, cloud, g, n)
  BY DEF Peels
<1>7. PICK g : g[n] = t /\ IsPeeling(p, cloud, g, n)
  BY <1>6
<1>8. ~first.over
  OBVIOUS
<1>9. f[0] = first /\ \A k \in Nat : k < m => ~f[k].over /\ f[k + 1] = RoundOf(q, f[k])
  BY <1>5 DEF IsPeeling
<1>10. g[0] = first /\ \A k \in Nat : k < n => ~g[k].over /\ g[k + 1] = RoundOf(p, g[k])
  BY <1>7 DEF IsPeeling
<1>11. m # 0 /\ n # 0
  BY <1>5, <1>7, <1>8, <1>9, <1>10
<1>12. f[1] = one /\ g[1] = other
  <2>1. 0 < m /\ 0 < n /\ 0 + 1 = 1
    BY <1>11
  <2>2. f[0 + 1] = one /\ g[0 + 1] = other
    BY <1>9, <1>10, <2>1
  <2>3. QED
    BY <2>1, <2>2
<1> HIDE DEF first, one, other
<1>13. m = 1
  <2>1. ~(1 < m)
    BY <1>2, <1>9, <1>12
  <2>2. QED
    BY <1>11, <2>1
<1>14. s = one
  BY <1>5, <1>12, <1>13
<1> DEFINE Begins(x) == /\ x \in Task
                        /\ \A j \in 1 .. Len(s.lines) : j \in 1 .. Len(x.lines) /\ x.lines[j] = s.lines[j]
           P == { k \in Nat : k = 0 \/ k > n \/ Begins(g[k]) }
<1>15. Begins(other)
  BY <1>2, <1>3, <1>14
<1>16. \A x : Begins(x) => Begins(RoundOf(p, x))
  <2> TAKE x
  <2> HAVE Begins(x)
  <2>1. /\ RoundOf(p, x) \in Task
        /\ \A j \in 1 .. Len(x.lines) :
               j \in 1 .. Len(RoundOf(p, x).lines) /\ RoundOf(p, x).lines[j] = x.lines[j]
    BY RoundKeepsLines
  <2>2. QED
    BY <2>1
<1> HIDE DEF Begins
<1>17. 0 \in P
  OBVIOUS
<1>18. ASSUME NEW k \in Nat, k \in P PROVE k + 1 \in P
  <2> DEFINE j == k + 1
  <2>1. j \in Nat
    OBVIOUS
  <2>2. CASE k = 0
    BY <1>12, <1>15, <2>2
  <2>3. CASE k >= n
    BY <2>3
  <2>4. CASE k # 0 /\ k < n
    <3>1. Begins(g[k])
      BY <1>18, <2>4
    <3>2. g[j] = RoundOf(p, g[k])
      BY <1>10, <2>4
    <3>3. Begins(g[j])
      BY <1>16, <3>1, <3>2
    <3> HIDE DEF j
    <3>4. j \in P
      BY <2>1, <3>3
    <3>5. QED
      BY <3>4 DEF j
  <2>5. QED
    BY <2>2, <2>3, <2>4
<1>19. Nat \subseteq P
  <2> HIDE DEF P
  <2>1. QED
    BY <1>17, <1>18, SetInduction
<1>20. n \in P
  BY <1>19
<1>21. Begins(g[n])
  BY <1>11, <1>20
<1>22. QED
  BY <1>7, <1>21 DEF Begins

\* The lines of a request are of hits.
LEMMA CloudsAreOfHits ==
    ASSUME world \in Worlds, NEW q \in Queries, IsAdmitted(q), NEW probes \in Seq(Seq(Fingerprint)),
           NEW g \in 1 .. Len(probes), NEW r \in Consulted(q)
    PROVE  CloudOf(q, probes, <<g, r>>) \in Seq(Hits)
<1>1. Consulted(q) \subseteq DOMAIN world.b
  BY DEF IsAdmitted, Consulted, IsPair
<1>2. world.b[r] \in Seq(Fingerprint) /\ probes[g] \in Seq(Fingerprint)
  BY <1>1, StoresHoldPrints
<1> DEFINE probe == probes[g]
           library == world.b
           refs == Consulted(q)
<1>3. CloudOf(q, probes, <<g, r>>) = Cloud(probe, library, refs, r)
  BY DEF CloudOf
<1> HIDE DEF probe, library, refs
<1>4. Cloud(probe, library, refs, r) \in Seq(Hits)
  BY <1>2, CloudIsOfHits DEF probe, library
<1>5. QED
  BY <1>3, <1>4

\* The rows of the lines of a task.
RowsMade(r, found) == [k \in 1 .. Len(found) |-> Row(r, found[k])]

LEMMA RowsAreMade ==
    ASSUME NEW lines, NEW g, NEW r, lines[g, r] \in Seq(Accepted)
    PROVE  RowsOf(lines, g, r) = RowsMade(r, lines[g, r])
<1> DEFINE found == lines[g, r]
<1>1. found \in Seq(Accepted)
  OBVIOUS
<1>2. RowsOf(lines, g, r) = [k \in DOMAIN found |-> Row(r, found[k])]
  BY DEF RowsOf
<1> HIDE DEF found
<1>3. DOMAIN found = 1 .. Len(found)
  BY ONLY <1>1
<1>4. RowsOf(lines, g, r) = RowsMade(r, found)
  BY <1>2, <1>3 DEF RowsMade
<1>5. QED
  BY <1>4 DEF found

\* And the rows of a resource in all regions.
RowsOfAll(lines, count, r) == UNION { ToSet(RowsOf(lines, g, r)) : g \in 1 .. count }

\* Two spans over one probe and one resource, of the default and of all lines.
IsAllOf(p, q) ==
    /\ q.verb = "span" /\ p.verb = "span" /\ SameProbe(q, p) /\ q.targets = p.targets

LEMMA SpansAreAlike ==
    ASSUME NEW q \in Queries, NEW p \in Queries, IsAllOf(p, q)
    PROVE  /\ IsPair(q) /\ IsPair(p) /\ ~IsPassages(q) /\ ~IsPassages(p)
           /\ RowLimit(q) = None /\ RowLimit(p) = None
           /\ Consulted(q) = Targets(q) /\ Consulted(p) = Consulted(q) /\ Targets(p) = Targets(q)
           /\ \E r \in Targets(q) : Targets(q) = {r}
           /\ Refused(p) <=> Refused(q)
<1>1. /\ IsPair(q) /\ IsPair(p) /\ ~IsPassages(q) /\ ~IsPassages(p)
      /\ RowLimit(q) = None /\ RowLimit(p) = None
  BY DEF IsAllOf, IsPair, IsPassages, RowLimit
<1>2. q.targets # None /\ \E r \in q.targets : q.targets = {r}
  BY <1>1 DEF Queries
<1>3. /\ Targets(q) = q.targets /\ Targets(p) = Targets(q)
      /\ Consulted(q) = Targets(q) /\ Consulted(p) = Consulted(q)
  BY <1>1, <1>2 DEF IsAllOf, Targets, Consulted
<1>4. WindowStart(q) = WindowStart(p) /\ WindowStop(q) = WindowStop(p)
  <2>1. Probe(q) = Probe(p)
    BY DEF IsAllOf, SameProbe, Probe
  <2>2. Times(q) = Times(p)
    BY <2>1 DEF Times
  <2>3. NaturalStart(q) = NaturalStart(p) /\ NaturalStop(q) = NaturalStop(p)
    BY <1>1, <2>2 DEF NaturalStart, NaturalStop
  <2>4. QED
    BY <2>3 DEF IsAllOf, SameProbe, WindowStart, WindowStop
<1>5. Refused(p) <=> Refused(q)
  BY <1>3, <1>4 DEF Refused, IsAllOf, SameProbe
<1>6. QED
  BY <1>1, <1>2, <1>3, <1>5

\* What a span that was answered is made of.
LEMMA SpanIsMadeOf ==
    ASSUME world \in Worlds, NEW a, IsTraced(a), a.ok, a.request.verb = "span", NEW r,
           Targets(a.request) = {r}
    PROVE  /\ a.request \in Queries /\ IsAdmitted(a.request) /\ ~Refused(a.request)
           /\ \E probes, ends :
                  /\ probes \in Seq(Seq(Fingerprint)) /\ probes # <<>>
                  /\ IsCutInto(a.request, probes) /\ IsPeeledInto(a.request, probes, ends)
                  /\ IsLines(a.request, Len(probes), LinesOf(ends))
                  /\ ToSet(a.rows) = RowsOfAll(LinesOf(ends), Len(probes), r)
<1> DEFINE q == a.request
           rows == a.rows
<1>1. q \in Queries /\ IsAdmitted(q) /\ IsAnswer(q, rows)
  BY DEF IsTraced
<1>2. q.verb = "span" /\ Targets(q) = {r}
  OBVIOUS
<1> HIDE DEF q, rows
<1>3. ~Refused(q)
  BY <1>1 DEF IsAnswer
<1>4. PICK u, s :
          /\ u \in Seq(Seq(Fingerprint)) /\ u # <<>> /\ IsCutInto(q, u) /\ IsPeeledInto(q, u, s)
          /\ rows = Result(q, Len(u), LinesOf(s))
  BY <1>1 DEF IsAnswer, LinesOf
<1>5. IsPair(q) /\ RowLimit(q) = None /\ Consulted(q) = {r}
  BY <1>2 DEF IsPair, RowLimit, Consulted
<1>6. rows = Segments(q, Len(u), LinesOf(s), r)
  <2>1. (CHOOSE x \in Targets(q) : TRUE) = r
    BY <1>2
  <2>2. Result(q, Len(u), LinesOf(s)) = Segments(q, Len(u), LinesOf(s), CHOOSE x \in Targets(q) : TRUE)
    BY <1>2, <1>5 DEF Result, IsPair
  <2>3. QED
    BY <1>4, <2>1, <2>2
<1>7. IsLines(q, Len(u), LinesOf(s))
  BY <1>1, <1>4, EndsAreLines
<1>8. ToSet(rows) = RowsOfAll(LinesOf(s), Len(u), r)
  <2> DEFINE count == Len(u)
             lines == LinesOf(s)
  <2>1. count \in Nat /\ IsLines(q, count, lines) /\ r \in Consulted(q)
    BY <1>4, <1>5, <1>7
  <2> HIDE DEF count, lines
  <2>2. ToSet(Segments(q, count, lines, r)) = UNION { ToSet(RowsOf(lines, g, r)) : g \in 1 .. count }
    BY <1>1, <1>5, <2>1, SegmentsAreRows
  <2>3. ToSet(Segments(q, count, lines, r)) = RowsOfAll(lines, count, r)
    BY <2>2 DEF RowsOfAll
  <2>4. QED
    BY <1>6, <2>3 DEF count, lines
<1>9. QED
  BY <1>1, <1>3, <1>4, <1>7, <1>8 DEF q, rows

\* Two answers over one probe are cut alike, and the default's line is one of all.
LEMMA DefaultIsOneOfAll ==
    ASSUME world \in Worlds, NEW one, NEW all, IsTraced(one), IsTraced(all),
           IsAllOf(all.request, one.request), ~one.request.multi
    PROVE  ToSet(one.rows) \subseteq ToSet(all.rows)
<1> DEFINE q == one.request
           p == all.request
<1>1. q \in Queries /\ p \in Queries /\ IsAllOf(p, q) /\ ~q.multi
      /\ one.ok \in BOOLEAN /\ all.ok \in BOOLEAN
  BY DEF IsTraced
<1>2. CASE ~one.ok
  <2>1. one.rows = <<>>
    BY <1>2 DEF IsTraced
  <2>2. ToSet(<<>>) = {}
    BY DEF ToSet
  <2>3. QED
    BY <2>1, <2>2
<1>3. CASE one.ok
  <2>1. q.verb = "span" /\ p.verb = "span" /\ SameProbe(q, p)
    BY <1>1 DEF IsAllOf
  <2>2. /\ IsPair(q) /\ IsPair(p) /\ ~IsPassages(q) /\ ~IsPassages(p)
        /\ Consulted(q) = Targets(q) /\ Consulted(p) = Consulted(q) /\ Targets(p) = Targets(q)
        /\ \E r \in Targets(q) : Targets(q) = {r}
        /\ (Refused(p) <=> Refused(q))
    BY <1>1, SpansAreAlike
  <2>3. PICK r : Targets(q) = {r}
    BY <2>2
  <2>4. /\ IsAdmitted(q) /\ ~Refused(q)
        /\ \E probes, ends :
               /\ probes \in Seq(Seq(Fingerprint)) /\ probes # <<>>
               /\ IsCutInto(q, probes) /\ IsPeeledInto(q, probes, ends)
               /\ IsLines(q, Len(probes), LinesOf(ends))
               /\ ToSet(one.rows) = RowsOfAll(LinesOf(ends), Len(probes), r)
    BY <1>3, <2>1, <2>3, SpanIsMadeOf
  <2>5. PICK u, s :
            /\ u \in Seq(Seq(Fingerprint)) /\ u # <<>> /\ IsCutInto(q, u) /\ IsPeeledInto(q, u, s)
            /\ IsLines(q, Len(u), LinesOf(s))
            /\ ToSet(one.rows) = RowsOfAll(LinesOf(s), Len(u), r)
    BY <2>4
  <2>6. \A v : IsCutInto(p, v) => u = v
    <3> TAKE v
    <3> HAVE IsCutInto(p, v)
    <3> HIDE DEF q, p
    <3>1. QED
      BY <1>1, <2>1, <2>2, <2>4, <2>5, CuttingIsUnique
  <2>7. all.ok
    <3>1. SUFFICES ASSUME ~all.ok PROVE FALSE
      BY <1>1
    <3>2. Refused(p) \/ IsCutInto(p, <<>>)
      BY <3>1 DEF IsTraced, IsRefusal
    <3>3. QED
      BY <2>2, <2>4, <2>5, <2>6, <3>2
  <2>8. /\ IsAdmitted(p)
        /\ \E probes, ends :
               /\ probes \in Seq(Seq(Fingerprint)) /\ probes # <<>>
               /\ IsCutInto(p, probes) /\ IsPeeledInto(p, probes, ends)
               /\ IsLines(p, Len(probes), LinesOf(ends))
               /\ ToSet(all.rows) = RowsOfAll(LinesOf(ends), Len(probes), r)
    BY <2>1, <2>2, <2>3, <2>7, SpanIsMadeOf
  <2>9. PICK t :
            /\ IsPeeledInto(p, u, t) /\ IsLines(p, Len(u), LinesOf(t))
            /\ ToSet(all.rows) = RowsOfAll(LinesOf(t), Len(u), r)
    BY <2>6, <2>8
  <2> HIDE DEF q, p
  <2>10. r \in Consulted(q) /\ r \in Consulted(p)
    BY <2>2, <2>3
  <2>11. \A g \in 1 .. Len(u) :
             /\ LinesOf(s)[g, r] = s[<<g, r>>].lines /\ s[<<g, r>>].over
             /\ Peels(q, CloudOf(q, u, <<g, r>>), s[<<g, r>>])
    BY <1>1, <2>5, <2>10, EndsAreLines
  <2>12. \A g \in 1 .. Len(u) :
             /\ LinesOf(t)[g, r] = t[<<g, r>>].lines /\ t[<<g, r>>].over
             /\ Peels(p, CloudOf(p, u, <<g, r>>), t[<<g, r>>])
    BY <1>1, <2>5, <2>9, <2>10, EndsAreLines
  <2>13. \A g \in 1 .. Len(u) :
             LinesOf(s)[g, r] \in Seq(Accepted) /\ LinesOf(t)[g, r] \in Seq(Accepted)
    BY <2>5, <2>9, <2>10 DEF IsLines
  <2>14. ~AllLines(q)
    BY <1>1, <2>2 DEF AllLines
  <2>15. ASSUME NEW g \in 1 .. Len(u)
         PROVE  ToSet(RowsOf(LinesOf(s), g, r)) \subseteq ToSet(RowsOf(LinesOf(t), g, r))
    <3> DEFINE cloud == CloudOf(q, u, <<g, r>>)
               x == s[<<g, r>>]
               y == t[<<g, r>>]
               few == LinesOf(s)
               many == LinesOf(t)
    <3>1. cloud \in Seq(Hits)
      BY <1>1, <2>4, <2>5, <2>10, CloudsAreOfHits
    <3>2. CloudOf(p, u, <<g, r>>) = cloud
      BY <2>2 DEF CloudOf
    <3>3. Peels(q, cloud, x) /\ Peels(p, cloud, y) /\ x.over /\ y.over
      BY <2>11, <2>12, <3>2
    <3>4. few[g, r] = x.lines /\ x.lines \in Seq(Accepted) /\ many[g, r] = y.lines /\ y.lines \in Seq(Accepted)
      BY <2>11, <2>12, <2>13
    <3> HIDE DEF cloud, x, y, few, many
    <3>5. \A k \in 1 .. Len(x.lines) : k \in 1 .. Len(y.lines) /\ y.lines[k] = x.lines[k]
      BY <2>14, <3>1, <3>3, FirstLineStays
    <3>6. RowsOf(few, g, r) = RowsMade(r, x.lines)
      <4>1. few[g, r] \in Seq(Accepted)
        BY <3>4
      <4>2. RowsOf(few, g, r) = RowsMade(r, few[g, r])
        BY <4>1, RowsAreMade
      <4>3. QED
        BY <3>4, <4>2
    <3>7. RowsOf(many, g, r) = RowsMade(r, y.lines)
      <4>1. many[g, r] \in Seq(Accepted)
        BY <3>4
      <4>2. RowsOf(many, g, r) = RowsMade(r, many[g, r])
        BY <4>1, RowsAreMade
      <4>3. QED
        BY <3>4, <4>2
    <3>8. ToSet(RowsMade(r, x.lines)) \subseteq ToSet(RowsMade(r, y.lines))
      <4> DEFINE v == x.lines
                 w == y.lines
      <4>1. \A k \in 1 .. Len(v) : k \in 1 .. Len(w) /\ w[k] = v[k]
        BY <3>5
      <4> HIDE DEF v, w
      <4>2. ToSet(RowsMade(r, v)) \subseteq ToSet(RowsMade(r, w))
        BY <4>1 DEF ToSet, RowsMade
      <4>3. QED
        BY <4>2 DEF v, w
    <3>9. QED
      BY <3>6, <3>7, <3>8 DEF few, many
  <2>16. QED
    BY <2>5, <2>9, <2>15 DEF RowsOfAll
<1>4. QED
  BY <1>1, <1>2, <1>3

\* The default's rows are among those of all lines.
THEOREM DefaultStaysAmongLines == Spec => []DefaultIsAmongLines
<1>1. ASSUME QueryTypes, Traced PROVE DefaultIsAmongLines
  <2> SUFFICES ASSUME NEW m \in DOMAIN answers, NEW n \in DOMAIN answers,
                      answers[m].request.verb = "span", answers[n].request.verb = "span",
                      SameProbe(answers[m].request, answers[n].request),
                      answers[m].request.targets = answers[n].request.targets,
                      ~answers[m].request.multi, answers[n].request.multi
               PROVE  ToSet(answers[m].rows) \subseteq ToSet(answers[n].rows)
    BY DEF DefaultIsAmongLines
  <2>1. world \in Worlds /\ IsTraced(answers[m]) /\ IsTraced(answers[n])
    BY <1>1, AnswersAreOfTheTrace DEF QueryTypes
  <2>2. IsAllOf(answers[n].request, answers[m].request)
    BY DEF IsAllOf
  <2>3. QED
    BY <2>1, <2>2, DefaultIsOneOfAll
<1>2. QueryInvariant /\ Traced => DefaultIsAmongLines
  BY <1>1 DEF QueryInvariant
<1>3. QED
  BY <1>2, QueryIsInvariant, AnswersAreTraced, PTL

-----------------------------------------------------------------------------
(* The regions of a span.                                                  *)

\* Where the regions start, while the numbers are not saturated.
StartAt(q, j) == WindowStart(q) + j * RegionBins

\* The prints of a region of a span.
IsRegionAt(q, j, v) ==
    /\ v # <<>> /\ StartAt(q, j) < WindowStop(q)
    /\ v = Forward(q, StartAt(q, j), Least(StartAt(q, j) + RegionBins, WindowStop(q)))

IsRegion(q, v) == \E j \in Nat : IsRegionAt(q, j, v)

LEMMA StartsGrow ==
    ASSUME NEW q, WindowStart(q) \in Nat
    PROVE  /\ RegionBins \in Nat \ {0} /\ StartAt(q, 0) = WindowStart(q)
           /\ \A j \in Nat : StartAt(q, j) \in Nat /\ StartAt(q, j + 1) = StartAt(q, j) + RegionBins
           /\ \A i, j \in Nat : i <= j => StartAt(q, i) <= StartAt(q, j)
<1>1. RegionBins \in Nat \ {0}
  BY QueryAssumption
<1>2. \A j \in Nat : j * RegionBins \in Nat /\ (j + 1) * RegionBins = j * RegionBins + RegionBins
  BY <1>1
<1>3. \A i, j \in Nat : i <= j => i * RegionBins <= j * RegionBins
  BY <1>1
<1>4. 0 * RegionBins = 0
  BY <1>1
<1>5. QED
  BY <1>1, <1>2, <1>3, <1>4 DEF StartAt

\* What the loop has after k regions.
HasCut(q, k, c) ==
    /\ c[1] = Saturate(StartAt(q, k)) /\ c[2] \in Seq(Seq(Fingerprint))
    /\ \A v : v \in ToSet(c[2]) <=> \E j \in Nat : j < k /\ IsRegionAt(q, j, v)

LEMMA OneMoreElement ==
    ASSUME NEW T, NEW s \in Seq(T), NEW e \in T
    PROVE  /\ Append(s, e) \in Seq(T)
           /\ \A x : x \in ToSet(Append(s, e)) <=> x \in ToSet(s) \/ x = e
<1> DEFINE n == Len(s)
           w == Append(s, e)
<1>1. /\ n \in Nat /\ DOMAIN s = 1 .. n /\ w \in Seq(T) /\ DOMAIN w = 1 .. n + 1
      /\ w[n + 1] = e /\ \A i \in 1 .. n : w[i] = s[i]
  OBVIOUS
<1>2. \A i : i \in 1 .. n + 1 <=> i \in 1 .. n \/ i = n + 1
  BY <1>1
<1> HIDE DEF n, w
<1>3. \A x : x \in ToSet(w) <=> x \in ToSet(s) \/ x = e
  BY <1>1, <1>2 DEF ToSet
<1>4. QED
  BY <1>1, <1>3 DEF w

LEMMA CutGrows ==
    ASSUME world \in Worlds, NEW q, q.key \in DOMAIN world.a, ~IsPassages(q),
           WindowStart(q) \in Nat, WindowStop(q) \in 0 .. MaxBin,
           NEW k \in Nat, NEW c, HasCut(q, k, c), c[1] < WindowStop(q)
    PROVE  HasCut(q, k + 1, CutOf(q, c))
<1> DEFINE at == StartAt(q, k)
           limit == WindowStop(q)
           prints == Forward(q, c[1], Least(RegionStop(q, c[1]), limit))
           j == k + 1
           cut == CutOf(q, c)
<1>1. /\ MaxBin \in Nat /\ RegionBins \in Nat \ {0} /\ at \in Nat /\ j \in Nat
      /\ StartAt(q, j) = at + RegionBins /\ limit \in Nat /\ limit <= MaxBin
  BY StartsGrow, BinsAreInTime
<1>2. c[1] = at /\ at < limit
  BY <1>1 DEF HasCut, Saturate, Least
<1>3. RegionStop(q, c[1]) = Saturate(at + RegionBins) /\ NextStart(q, c[1]) = Saturate(at + RegionBins)
  BY <1>2 DEF RegionStop, NextStart
<1>4. Least(Saturate(at + RegionBins), limit) = Least(at + RegionBins, limit)
  BY <1>1 DEF Saturate, Least
<1>5. prints = Forward(q, at, Least(at + RegionBins, limit)) /\ prints \in Seq(Fingerprint)
  BY <1>2, <1>3, <1>4, ForwardHolds
<1>6. cut = <<NextStart(q, c[1]), IF prints = <<>> THEN c[2] ELSE Append(c[2], prints)>>
  BY DEF CutOf
<1>7. \A v : IsRegionAt(q, k, v) <=> v # <<>> /\ v = prints
  BY <1>2, <1>5 DEF IsRegionAt
<1>8. /\ c[2] \in Seq(Seq(Fingerprint))
      /\ \A v : v \in ToSet(c[2]) <=> \E i \in Nat : i < k /\ IsRegionAt(q, i, v)
  BY DEF HasCut
<1> HIDE DEF at, limit, prints, cut
<1>9. \A v : (\E i \in Nat : i < j /\ IsRegionAt(q, i, v)) <=>
             (\E i \in Nat : i < k /\ IsRegionAt(q, i, v)) \/ IsRegionAt(q, k, v)
  <2>1. \A i \in Nat : i < j <=> i < k \/ i = k
    OBVIOUS
  <2>2. QED
    BY <2>1
<1>10. cut[1] = Saturate(StartAt(q, j))
  BY <1>1, <1>3, <1>6
<1>11. /\ cut[2] \in Seq(Seq(Fingerprint))
       /\ \A v : v \in ToSet(cut[2]) <=> v \in ToSet(c[2]) \/ (v # <<>> /\ v = prints)
  <2>1. CASE prints = <<>>
    BY <1>6, <1>8, <2>1
  <2>2. CASE prints # <<>>
    <3>1. cut[2] = Append(c[2], prints)
      BY <1>6, <2>2
    <3> DEFINE s == c[2]
    <3>2. s \in Seq(Seq(Fingerprint)) /\ prints \in Seq(Fingerprint)
      BY <1>5, <1>8
    <3> HIDE DEF s
    <3>3. /\ Append(s, prints) \in Seq(Seq(Fingerprint))
          /\ \A x : x \in ToSet(Append(s, prints)) <=> x \in ToSet(s) \/ x = prints
      BY <3>2, OneMoreElement
    <3>4. QED
      BY <2>2, <3>1, <3>3 DEF s
  <2>3. QED
    BY <2>1, <2>2
<1> HIDE DEF j
<1>12. \A v : v \in ToSet(cut[2]) <=> \E i \in Nat : i < j /\ IsRegionAt(q, i, v)
  BY <1>7, <1>8, <1>9, <1>11
<1>13. HasCut(q, j, cut)
  BY <1>10, <1>11, <1>12 DEF HasCut
<1>14. QED
  BY <1>13 DEF j, cut

\* A window is cut into its regions.
LEMMA CutIsRegions ==
    ASSUME world \in Worlds, NEW q \in Queries, q.key \in DOMAIN world.a, q.verb = "span",
           NEW u, IsCutInto(q, u)
    PROVE  \A v : v \in ToSet(u) <=> IsRegion(q, v)
<1> DEFINE limit == WindowStop(q)
<1>1. WindowStart(q) \in 0 .. MaxBin /\ limit \in 0 .. MaxBin /\ MaxBin \in Nat /\ ~IsPassages(q)
  <2>1. q.window # None => q.window \in Nat \X Nat
    BY DEF Queries, Request
  <2>2. QED
    BY <2>1, WindowIsInTime, BinsAreInTime DEF IsPassages
<1>2. WindowStart(q) \in Nat /\ limit \in Nat /\ limit <= MaxBin
  BY <1>1
<1>3. PICK end \in Nat : end >= limit /\ Cuts(q, <<end, u>>)
  BY DEF IsCutInto
<1>4. PICK n \in Nat : \E f : f[n] = <<end, u>> /\ IsCutting(q, f, n)
  BY <1>3 DEF Cuts
<1>5. PICK f : f[n] = <<end, u>> /\ IsCutting(q, f, n)
  BY <1>4
<1>6. /\ f[0] = <<WindowStart(q), <<>> >>
      /\ \A k \in Nat : k < n => f[k][1] < limit /\ f[k + 1] = CutOf(q, f[k])
  BY <1>5 DEF IsCutting
<1>7. HasCut(q, 0, f[0])
  <2>1. Saturate(StartAt(q, 0)) = WindowStart(q)
    BY <1>1, <1>2, StartsGrow DEF Saturate, Least
  <2>2. <<>> \in Seq(Seq(Fingerprint)) /\ ToSet(<<>>) = {}
    BY DEF ToSet
  <2>3. \A j \in Nat : ~(j < 0)
    OBVIOUS
  <2>4. f[0][1] = WindowStart(q) /\ f[0][2] = <<>>
    BY <1>6
  <2>5. QED
    BY <2>1, <2>2, <2>3, <2>4 DEF HasCut
<1> HIDE DEF limit
<1> DEFINE P == { k \in Nat : k > n \/ HasCut(q, k, f[k]) }
<1>8. 0 \in P
  BY <1>7
<1>9. ASSUME NEW k \in Nat, k \in P PROVE k + 1 \in P
  <2> DEFINE j == k + 1
  <2>1. j \in Nat /\ (j > n \/ k < n)
    OBVIOUS
  <2>2. ASSUME k < n PROVE HasCut(q, j, f[j])
    <3>1. HasCut(q, k, f[k])
      BY <1>9, <2>2
    <3>2. f[k][1] < limit /\ f[j] = CutOf(q, f[k])
      BY <1>6, <2>2
    <3> DEFINE c == f[k]
    <3>3. HasCut(q, k, c) /\ c[1] < WindowStop(q)
      BY <3>1, <3>2 DEF limit
    <3> HIDE DEF c
    <3>4. HasCut(q, k + 1, CutOf(q, c))
      BY <1>1, <1>2, <3>3, CutGrows DEF limit
    <3>5. QED
      BY <3>2, <3>4 DEF c
  <2> HIDE DEF j
  <2>3. j \in P
    BY <2>1, <2>2
  <2>4. QED
    BY <2>3 DEF j
<1>10. n \in P
  <2> HIDE DEF P
  <2>1. Nat \subseteq P
    BY <1>8, <1>9, SetInduction
  <2>2. QED
    BY <2>1
<1>11. HasCut(q, n, f[n])
  BY <1>10
<1>12. /\ end = Saturate(StartAt(q, n))
       /\ \A v : v \in ToSet(u) <=> \E j \in Nat : j < n /\ IsRegionAt(q, j, v)
  BY <1>5, <1>11 DEF HasCut
<1>13. \A j \in Nat : StartAt(q, j) < limit => j < n
  <2> TAKE j \in Nat
  <2> HAVE StartAt(q, j) < limit
  <2>1. StartAt(q, n) \in Nat /\ StartAt(q, j) \in Nat /\ (n <= j => StartAt(q, n) <= StartAt(q, j))
    BY <1>2, StartsGrow
  <2>2. limit <= StartAt(q, n)
    BY <1>1, <1>2, <1>3, <1>12, <2>1 DEF Saturate, Least
  <2>3. ~(n <= j)
    BY <1>2, <2>1, <2>2
  <2>4. QED
    BY <2>3
<1>14. \A v : IsRegion(q, v) <=> \E j \in Nat : j < n /\ IsRegionAt(q, j, v)
  BY <1>13 DEF IsRegion, IsRegionAt, limit
<1>15. QED
  BY <1>12, <1>14

\* A row that a vote on the prints of a region makes.
IsRowOf(q, r, v, x) ==
    \E t : Peels(q, Cloud(v, world.b, Consulted(q), r), t) /\ t.over /\ x \in ToSet(RowsMade(r, t.lines))

\* The rows of a span are those of its regions.
LEMMA SpanRowsAre ==
    ASSUME world \in Worlds, NEW a, IsTraced(a), a.ok, a.request.verb = "span", NEW r,
           Targets(a.request) = {r}
    PROVE  \A x : x \in ToSet(a.rows) <=>
               \E v : IsRegion(a.request, v) /\ IsRowOf(a.request, r, v, x)
<1> DEFINE q == a.request
           rows == a.rows
<1>1. /\ q \in Queries /\ IsAdmitted(q)
      /\ \E probes, ends :
             /\ probes \in Seq(Seq(Fingerprint)) /\ probes # <<>>
             /\ IsCutInto(q, probes) /\ IsPeeledInto(q, probes, ends)
             /\ IsLines(q, Len(probes), LinesOf(ends))
             /\ ToSet(rows) = RowsOfAll(LinesOf(ends), Len(probes), r)
  BY SpanIsMadeOf
<1>2. q.verb = "span" /\ Targets(q) = {r}
  OBVIOUS
<1> HIDE DEF q, rows
<1>3. PICK u, s :
          /\ u \in Seq(Seq(Fingerprint)) /\ IsCutInto(q, u) /\ IsPeeledInto(q, u, s)
          /\ IsLines(q, Len(u), LinesOf(s)) /\ ToSet(rows) = RowsOfAll(LinesOf(s), Len(u), r)
  BY <1>1
<1>4. Consulted(q) = {r} /\ r \in Consulted(q)
  BY <1>2 DEF Consulted, IsPair
<1>5. \A v : v \in ToSet(u) <=> IsRegion(q, v)
  <2>1. q.key \in DOMAIN world.a
    BY <1>1, <1>2 DEF IsAdmitted
  <2>2. QED
    BY <1>1, <1>2, <1>3, <2>1, CutIsRegions
<1> DEFINE count == Len(u)
           End(g) == s[<<g, r>>]
           CloudAt(g) == Cloud(u[g], world.b, Consulted(q), r)
<1>6. \A v : v \in ToSet(u) <=> \E g \in 1 .. count : v = u[g]
  <2>1. DOMAIN u = 1 .. count
    BY <1>3
  <2>2. QED
    BY <2>1 DEF ToSet
<1>7. ASSUME NEW g \in 1 .. count
      PROVE  /\ End(g).over /\ Peels(q, CloudAt(g), End(g))
             /\ RowsOf(LinesOf(s), g, r) = RowsMade(r, End(g).lines)
  <2>1. /\ LinesOf(s)[g, r] = s[<<g, r>>].lines /\ s[<<g, r>>].over
        /\ Peels(q, CloudOf(q, u, <<g, r>>), s[<<g, r>>])
    BY <1>1, <1>3, <1>4, EndsAreLines
  <2>2. CloudOf(q, u, <<g, r>>) = CloudAt(g)
    BY DEF CloudOf
  <2>3. LinesOf(s)[g, r] \in Seq(Accepted)
    BY <1>3, <1>4 DEF IsLines
  <2>4. RowsOf(LinesOf(s), g, r) = RowsMade(r, LinesOf(s)[g, r])
    BY <2>3, RowsAreMade
  <2>5. QED
    BY <2>1, <2>2, <2>4
<1> HIDE DEF End, count
<1>8. \A x : x \in ToSet(rows) <=> \E g \in 1 .. count : x \in ToSet(RowsMade(r, End(g).lines))
  <2>1. \A x : x \in RowsOfAll(LinesOf(s), count, r) <=>
            \E g \in 1 .. count : x \in ToSet(RowsOf(LinesOf(s), g, r))
    BY DEF RowsOfAll
  <2>2. ToSet(rows) = RowsOfAll(LinesOf(s), count, r)
    BY <1>3 DEF count
  <2>3. QED
    BY <1>7, <2>1, <2>2
<1>9. \A g \in 1 .. count : \A x : IsRowOf(q, r, u[g], x) <=> x \in ToSet(RowsMade(r, End(g).lines))
  <2> TAKE g \in 1 .. count
  <2> TAKE x
  <2> DEFINE cloud == CloudAt(g)
  <2>1. \A t : Peels(q, cloud, t) /\ t.over => t = End(g)
    <3> TAKE t
    <3> HAVE Peels(q, cloud, t) /\ t.over
    <3> DEFINE e == End(g)
    <3>1. Peels(q, cloud, e) /\ e.over
      BY <1>7
    <3> HIDE DEF e, cloud
    <3>2. t = e
      BY <3>1, PeelingIsUnique
    <3>3. QED
      BY <3>2 DEF e
  <2>2. IsRowOf(q, r, u[g], x) <=>
            \E t : Peels(q, cloud, t) /\ t.over /\ x \in ToSet(RowsMade(r, t.lines))
    BY DEF IsRowOf
  <2>3. Peels(q, cloud, End(g)) /\ End(g).over
    BY <1>7
  <2> HIDE DEF cloud
  <2>4. QED
    BY <2>1, <2>2, <2>3
<1> HIDE DEF CloudAt
<1>10. \A x : x \in ToSet(rows) <=> \E v : IsRegion(q, v) /\ IsRowOf(q, r, v, x)
  <2> TAKE x
  <2>1. ASSUME x \in ToSet(rows) PROVE \E v : IsRegion(q, v) /\ IsRowOf(q, r, v, x)
    <3>1. PICK g \in 1 .. count : x \in ToSet(RowsMade(r, End(g).lines))
      BY <1>8, <2>1
    <3>2. IsRegion(q, u[g]) /\ IsRowOf(q, r, u[g], x)
      BY <1>5, <1>6, <1>9, <3>1
    <3>3. QED
      BY <3>2
  <2>2. ASSUME NEW v, IsRegion(q, v), IsRowOf(q, r, v, x) PROVE x \in ToSet(rows)
    <3>1. PICK g \in 1 .. count : v = u[g]
      BY <1>5, <1>6, <2>2
    <3>2. x \in ToSet(RowsMade(r, End(g).lines))
      BY <1>9, <2>2, <3>1
    <3>3. QED
      BY <1>8, <3>2
  <2>3. QED
    BY <2>1, <2>2
<1>11. QED
  BY <1>10 DEF q, rows

\* What every request of a key and its targets is refused for.
IsBarred(q) ==
    ~world.compatible \/ ~(Targets(q) \subseteq DOMAIN world.b) \/ q.key \notin DOMAIN world.a

\* A window whose seconds are on the time grid.
IsPlaced(q) ==
    /\ q.window \in Nat \X Nat /\ q.window # None
    /\ Latency <= q.window[1] /\ q.window[1] <= q.window[2] /\ q.window[1] < Ticks(MaxBin)

\* A span that is refused, or has no prints, has no regions.
LEMMA RefusedHasNoRegion ==
    ASSUME world \in Worlds, NEW q \in Queries, q.verb = "span", ~IsBarred(q), IsPlaced(q),
           IsRefusal(q)
    PROVE  \A v : ~IsRegion(q, v)
<1>1. q.key \in DOMAIN world.a /\ q.window \in Nat \X Nat
  BY DEF IsBarred, IsPlaced
<1>2. /\ WindowStart(q) \in 0 .. MaxBin /\ WindowStop(q) \in 0 .. MaxBin /\ MaxBin \in Nat
      /\ NaturalStop(q) \in 0 .. MaxBin
  BY <1>1, WindowIsInTime, BinsAreInTime
<1>3. CASE IsCutInto(q, <<>>)
  <2>1. \A v : v \in ToSet(<<>>) <=> IsRegion(q, v)
    BY <1>1, <1>3, CutIsRegions
  <2>2. ToSet(<<>>) = {}
    BY DEF ToSet
  <2>3. QED
    BY <2>1, <2>2
<1>4. CASE Refused(q)
  <2>1. q.window[1] >= q.window[2] \/ WindowStart(q) >= WindowStop(q)
    BY <1>4 DEF Refused, IsBarred
  <2>2. WindowStart(q) >= WindowStop(q)
    <3>1. ASSUME q.window[1] >= q.window[2] PROVE WindowStart(q) >= WindowStop(q)
      <4> DEFINE s == q.window[1]
      <4>1. s \in Nat /\ q.window[2] = s /\ Latency <= s /\ s < Ticks(MaxBin)
        BY <3>1 DEF IsPlaced
      <4>2. WindowStart(q) = OrElse(SecondsToBin(s), 0)
        BY DEF IsPlaced, WindowStart
      <4>3. WindowStop(q) = Least(OrElse(SecondsToBin(s), MaxBin), NaturalStop(q))
        BY <4>1 DEF IsPlaced, WindowStop
      <4> HIDE DEF s
      <4>4. SecondsToBin(s) \in 0 .. MaxBin /\ SecondsToBin(s) # None
        BY <4>1, BinIsFirst
      <4>5. QED
        BY <1>2, <4>2, <4>3, <4>4 DEF OrElse, Least
    <3>2. QED
      BY <2>1, <3>1
  <2>3. \A j \in Nat : ~(StartAt(q, j) < WindowStop(q))
    <3> TAKE j \in Nat
    <3>1. 0 <= j /\ WindowStart(q) \in Nat
      BY <1>2
    <3>2. StartAt(q, 0) = WindowStart(q) /\ StartAt(q, 0) <= StartAt(q, j) /\ StartAt(q, j) \in Nat
      BY <3>1, StartsGrow
    <3>3. QED
      BY <1>2, <2>2, <3>1, <3>2
  <2>4. QED
    BY <2>3 DEF IsRegion, IsRegionAt
<1>5. QED
  BY <1>3, <1>4 DEF IsRefusal

\* Answered or refused, the rows of a span are those of its regions.
LEMMA RowsAreOfRegions ==
    ASSUME world \in Worlds, NEW a, IsTraced(a), a.request.verb = "span", NEW r,
           Targets(a.request) = {r}, ~IsBarred(a.request), IsPlaced(a.request)
    PROVE  \A x : x \in ToSet(a.rows) <=>
               \E v : IsRegion(a.request, v) /\ IsRowOf(a.request, r, v, x)
<1>1. CASE a.ok
  BY <1>1, SpanRowsAre
<1>2. CASE ~a.ok
  <2>1. a.request \in Queries /\ a.rows = <<>> /\ IsRefusal(a.request)
    BY <1>2 DEF IsTraced
  <2>2. \A v : ~IsRegion(a.request, v)
    BY <2>1, RefusedHasNoRegion
  <2>3. ToSet(<<>>) = {}
    BY DEF ToSet
  <2>4. QED
    BY <2>1, <2>2, <2>3
<1>3. QED
  BY <1>1, <1>2 DEF IsTraced

\* A second whose bin is at the start of a region is whole regions later.
LEMMA RegionsApart ==
    ASSUME NEW s \in Nat, NEW d \in Nat, Latency <= s, s <= d, d < Ticks(MaxBin),
           (SecondsToBin(d) - SecondsToBin(s)) % RegionBins = 0
    PROVE  \E n \in Nat : SecondsToBin(d) = SecondsToBin(s) + n * RegionBins
<1> DEFINE gap == SecondsToBin(d) - SecondsToBin(s)
<1>1. /\ MaxBin \in Nat /\ Latency \in Nat /\ RegionBins \in Nat \ {0} /\ None \notin Nat
      /\ Ticks(MaxBin) \in Nat
  BY QueryAssumption DEF Ticks
<1>2. Latency <= d /\ s < Ticks(MaxBin)
  BY <1>1
<1>3. /\ SecondsToBin(s) \in Nat /\ SecondsToBin(d) \in Nat
      /\ SecondsToBin(s) # None /\ SecondsToBin(d) # None
  BY <1>1, <1>2, BinIsFirst
<1>4. SecondsToBin(s) = RoundedBin(s)
  BY <1>3, BinIsRounded
<1>5. SecondsToBin(d) = RoundedBin(d)
  BY <1>3, BinIsRounded
<1>6. gap \in Nat /\ gap % RegionBins = 0 /\ SecondsToBin(d) = SecondsToBin(s) + gap
  BY <1>3, <1>4, <1>5, BinsGrow
<1> HIDE DEF gap
<1> DEFINE n == gap \div RegionBins
<1>7. n \in Nat /\ gap = RegionBins * n + (gap % RegionBins)
  BY <1>1, <1>6
<1> HIDE DEF n
<1>8. n \in Nat /\ gap = n * RegionBins
  <2>1. RegionBins * n = n * RegionBins /\ RegionBins * n \in Nat
    BY <1>1, <1>7
  <2>2. QED
    BY <1>6, <1>7, <2>1
<1>9. QED
  BY <1>6, <1>8

\* The span of a window, and those of its two parts.
IsCutInTwo(w, l, x) ==
    /\ w \in Queries /\ l \in Queries /\ x \in Queries
    /\ w.verb = "span" /\ l.verb = "span" /\ x.verb = "span"
    /\ w.key = l.key /\ w.key = x.key /\ w.targets = l.targets /\ w.targets = x.targets
    /\ w.multi = l.multi /\ w.multi = x.multi
    /\ w.window # None /\ l.window # None /\ x.window # None
    /\ w.window \in Nat \X Nat /\ l.window \in Nat \X Nat /\ x.window \in Nat \X Nat
    /\ w.window[1] = l.window[1] /\ w.window[2] = x.window[2] /\ l.window[2] = x.window[1]
    /\ Latency <= l.window[1] /\ l.window[1] <= l.window[2] /\ l.window[2] <= x.window[2]
    /\ l.window[2] < Ticks(MaxBin)
    /\ (SecondsToBin(l.window[2]) - SecondsToBin(l.window[1])) % RegionBins = 0

LEMMA PartsAreAlike ==
    ASSUME NEW w, NEW l, NEW x, IsCutInTwo(w, l, x), NEW p \in {l, x}
    PROVE  /\ IsPlaced(w) /\ IsPlaced(p) /\ (IsBarred(w) <=> IsBarred(p))
           /\ Targets(w) = w.targets /\ Targets(p) = w.targets /\ \E r : w.targets = {r}
           /\ NaturalStop(w) = NaturalStop(p)
           /\ \A from, to : Forward(w, from, to) = Forward(p, from, to)
           /\ \A r, v, row : IsRowOf(w, r, v, row) <=> IsRowOf(p, r, v, row)
<1>1. /\ w \in Queries /\ p \in Queries /\ w.verb = "span" /\ p.verb = "span" /\ w.key = p.key
      /\ w.targets = p.targets /\ w.multi = p.multi /\ p.window # None /\ w.window # None
      /\ w.window \in Nat \X Nat /\ p.window \in Nat \X Nat
  BY DEF IsCutInTwo
<1>2. IsPlaced(w) /\ IsPlaced(p)
  <2>1. Ticks(MaxBin) \in Nat /\ Latency \in Nat
    BY QueryAssumption DEF Ticks
  <2>2. \A q \in {w, l, x} : q.window[1] \in Nat /\ q.window[2] \in Nat
    BY DEF IsCutInTwo
  <2>3. QED
    BY <1>1, <2>1, <2>2 DEF IsCutInTwo, IsPlaced
<1>3. w.targets # None /\ \E r : w.targets = {r}
  BY <1>1 DEF Queries, IsPair
<1>4. Targets(w) = w.targets /\ Targets(p) = w.targets
  BY <1>1, <1>3 DEF Targets
<1>5. Probe(w) = Probe(p)
  BY <1>1 DEF Probe
<1>6. Times(w) = Times(p)
  BY <1>5 DEF Times
<1>7. NaturalStop(w) = NaturalStop(p)
  BY <1>6 DEF NaturalStop
<1>8. \A from, to : Forward(w, from, to) = Forward(p, from, to)
  BY <1>5 DEF Forward, Selected
<1>9. Consulted(w) = Consulted(p) /\ RowLimit(w) = RowLimit(p) /\ (AllLines(w) <=> AllLines(p))
  BY <1>1, <1>4 DEF Consulted, IsPair, RowLimit, AllLines, IsPassages
<1>10. \A t : RoundOf(w, t) = RoundOf(p, t)
  BY <1>9 DEF RoundOf
<1>11. \A cloud, t : Peels(w, cloud, t) <=> Peels(p, cloud, t)
  <2>1. \A cloud, chain, n : IsPeeling(w, cloud, chain, n) <=> IsPeeling(p, cloud, chain, n)
    <3> TAKE cloud, chain, n
    <3>1. IsPeeling(w, cloud, chain, n) <=> IsPeeling(p, cloud, chain, n)
      BY <1>10, Zenon DEF IsPeeling
    <3>2. QED
      BY <3>1
  <2>2. QED
    BY <2>1, Zenon DEF Peels
<1>12. \A r, v, row : IsRowOf(w, r, v, row) <=> IsRowOf(p, r, v, row)
  BY <1>9, <1>11 DEF IsRowOf
<1>13. IsBarred(w) <=> IsBarred(p)
  BY <1>1, <1>4 DEF IsBarred
<1>14. QED
  BY <1>2, <1>3, <1>4, <1>7, <1>8, <1>12, <1>13

\* The bins of the three windows.
LEMMA WindowsMeet ==
    ASSUME world \in Worlds, NEW w, NEW l, NEW x, IsCutInTwo(w, l, x), ~IsBarred(w)
    PROVE  \E n \in Nat, meet \in Nat :
               /\ WindowStart(w) \in Nat /\ WindowStart(l) = WindowStart(w) /\ WindowStart(x) = meet
               /\ meet = WindowStart(w) + n * RegionBins
               /\ WindowStop(w) \in Nat /\ WindowStop(x) = WindowStop(w)
               /\ WindowStop(l) = Least(meet, WindowStop(w))
<1> DEFINE from == w.window[1]
           at == l.window[2]
           to == w.window[2]
           start == SecondsToBin(from)
           meet == SecondsToBin(at)
           end == OrElse(SecondsToBin(to), MaxBin)
           natural == NaturalStop(w)
<1>1. /\ from \in Nat /\ at \in Nat /\ to \in Nat
      /\ l.window = <<from, at>> /\ x.window = <<at, to>> /\ w.window = <<from, to>>
      /\ Latency <= from /\ from <= at /\ at <= to /\ at < Ticks(MaxBin)
      /\ (SecondsToBin(at) - SecondsToBin(from)) % RegionBins = 0
      /\ w.window # None /\ l.window # None /\ x.window # None
  BY DEF IsCutInTwo
<1>2. MaxBin \in Nat /\ Latency \in Nat /\ Ticks(MaxBin) \in Nat /\ None \notin Nat
  BY QueryAssumption DEF Ticks
<1>3. natural \in 0 .. MaxBin /\ NaturalStop(l) = natural /\ NaturalStop(x) = natural
  <2>1. w.key \in DOMAIN world.a /\ w.window \in Nat \X Nat
    BY <1>1 DEF IsBarred
  <2>2. natural \in 0 .. MaxBin
    BY <2>1, WindowIsInTime
  <2>3. NaturalStop(w) = NaturalStop(l)
    BY PartsAreAlike
  <2>4. NaturalStop(w) = NaturalStop(x)
    BY PartsAreAlike
  <2>5. QED
    BY <2>2, <2>3, <2>4
<1>4. /\ WindowStart(w) = OrElse(start, 0) /\ WindowStart(l) = OrElse(start, 0)
      /\ WindowStart(x) = OrElse(meet, 0)
      /\ WindowStop(w) = Least(end, natural) /\ WindowStop(x) = Least(end, natural)
      /\ WindowStop(l) = Least(OrElse(meet, MaxBin), natural)
  <2>1. /\ w.window[1] = from /\ w.window[2] = to /\ l.window[1] = from /\ l.window[2] = at
        /\ x.window[1] = at /\ x.window[2] = to
    BY <1>1
  <2>2. QED
    BY <1>1, <1>3, <2>1 DEF WindowStart, WindowStop
<1> HIDE DEF from, at, to, natural
<1>5. start \in 0 .. MaxBin /\ start # None
  <2>1. from < Ticks(MaxBin)
    BY <1>1, <1>2
  <2>2. QED
    BY <1>1, <2>1, BinIsFirst
<1>6. meet \in 0 .. MaxBin /\ meet # None
  <2>1. Latency <= at
    BY <1>1, <1>2
  <2>2. QED
    BY <1>1, <2>1, BinIsFirst
<1>7. PICK n \in Nat : meet = start + n * RegionBins
  BY <1>1, RegionsApart
<1>8. end \in 0 .. MaxBin
  BY <1>1, BinsAreInTime
<1>9. meet <= end
  <2>1. SecondsToBin(to) # None => meet <= SecondsToBin(to)
    <3>1. ASSUME SecondsToBin(to) # None
          PROVE  SecondsToBin(at) <= SecondsToBin(to)
      <4>1. SecondsToBin(at) = RoundedBin(at)
        BY <1>1, <1>6, BinIsRounded
      <4>2. SecondsToBin(to) = RoundedBin(to)
        BY <1>1, <3>1, BinIsRounded
      <4>3. Latency <= at
        BY <1>1, <1>2
      <4>4. QED
        BY <1>1, <4>1, <4>2, <4>3, BinsGrow
    <3>2. QED
      BY <3>1
  <2> HIDE DEF meet
  <2>2. QED
    BY <1>2, <1>6, <2>1 DEF OrElse
<1> HIDE DEF start, meet, end
<1>10. /\ WindowStart(w) = start /\ WindowStart(l) = start /\ WindowStart(x) = meet
       /\ WindowStop(l) = Least(meet, natural)
  BY <1>4, <1>5, <1>6 DEF OrElse
<1>11. Least(meet, natural) = Least(meet, Least(end, natural)) /\ Least(end, natural) \in Nat
  BY <1>2, <1>3, <1>6, <1>8, <1>9 DEF Least
<1>12. start \in Nat /\ meet \in Nat
  BY <1>5, <1>6
<1>13. QED
  BY <1>4, <1>7, <1>10, <1>11, <1>12

\* A region of the whole is one of the first part or one of the second.
LEMMA PartsShareRegions ==
    ASSUME world \in Worlds, NEW w, NEW l, NEW x, IsCutInTwo(w, l, x), ~IsBarred(w)
    PROVE  \A v : IsRegion(w, v) <=> IsRegion(l, v) \/ IsRegion(x, v)
<1>1. PICK n \in Nat, meet \in Nat :
          /\ WindowStart(w) \in Nat /\ WindowStart(l) = WindowStart(w) /\ WindowStart(x) = meet
          /\ meet = WindowStart(w) + n * RegionBins
          /\ WindowStop(w) \in Nat /\ WindowStop(x) = WindowStop(w)
          /\ WindowStop(l) = Least(meet, WindowStop(w))
  BY WindowsMeet
<1> DEFINE start == WindowStart(w)
           end == WindowStop(w)
           F(from, to) == Forward(w, from, to)
<1>2. /\ \A from, to : Forward(l, from, to) = F(from, to)
      /\ \A from, to : Forward(x, from, to) = F(from, to)
  <2>1. \A from, to : Forward(w, from, to) = Forward(l, from, to)
    BY PartsAreAlike
  <2>2. \A from, to : Forward(w, from, to) = Forward(x, from, to)
    BY PartsAreAlike
  <2>3. QED
    BY <2>1, <2>2
<1>3. start \in Nat /\ end \in Nat /\ RegionBins \in Nat \ {0} /\ meet = start + n * RegionBins
  BY <1>1, QueryAssumption
<1>4. /\ \A j : StartAt(w, j) = start + j * RegionBins
      /\ \A j : StartAt(l, j) = start + j * RegionBins
      /\ \A j : StartAt(x, j) = meet + j * RegionBins
  BY <1>1 DEF StartAt
<1>5. WindowStop(l) = Least(meet, end) /\ WindowStop(x) = end
  BY <1>1
<1> HIDE DEF start, end, F
<1>6. ASSUME NEW j \in Nat, NEW v
      PROVE  IsRegionAt(l, j, v) <=> j < n /\ IsRegionAt(w, j, v)
  <2> DEFINE at == start + j * RegionBins
             after == at + RegionBins
  <2>1. at \in Nat /\ after \in Nat
    BY <1>3
  <2>2. at < meet <=> j < n
    BY <1>3
  <2>3. j < n => after <= meet
    <3>1. j < n => (j + 1) * RegionBins <= n * RegionBins
      BY <1>3
    <3>2. (j + 1) * RegionBins = j * RegionBins + RegionBins
      BY <1>3
    <3>3. QED
      BY <1>3, <3>1, <3>2
  <2>4. /\ IsRegionAt(w, j, v) <=> (v # <<>> /\ at < end /\ v = F(at, Least(after, end)))
        /\ IsRegionAt(l, j, v) <=>
               (v # <<>> /\ at < Least(meet, end) /\ v = F(at, Least(after, Least(meet, end))))
    BY <1>2, <1>4, <1>5 DEF IsRegionAt, end, F
  <2> HIDE DEF at, after
  <2>5. at < Least(meet, end) <=> j < n /\ at < end
    BY <1>3, <2>1, <2>2 DEF Least
  <2>6. j < n => Least(after, Least(meet, end)) = Least(after, end)
    BY <1>3, <2>1, <2>3 DEF Least
  <2>7. QED
    BY <2>4, <2>5, <2>6
<1>7. ASSUME NEW j \in Nat, NEW i \in Nat, i = n + j, NEW v
      PROVE  IsRegionAt(x, j, v) <=> IsRegionAt(w, i, v)
  <2>1. StartAt(w, i) = StartAt(x, j)
    <3> DEFINE skipped == n * RegionBins
               gone == j * RegionBins
               both == i * RegionBins
    <3>1. both = skipped + gone /\ skipped \in Nat /\ gone \in Nat /\ both \in Nat
      BY <1>3, <1>7
    <3>2. StartAt(w, i) = start + both /\ StartAt(x, j) = meet + gone /\ meet = start + skipped
      BY <1>3, <1>4
    <3> HIDE DEF skipped, gone, both
    <3>3. QED
      BY <1>3, <3>1, <3>2
  <2>2. QED
    BY <1>2, <1>5, <2>1 DEF IsRegionAt, end, F
<1> TAKE v
<1>8. ASSUME NEW j \in Nat, IsRegionAt(w, j, v) PROVE IsRegion(l, v) \/ IsRegion(x, v)
  <2>1. CASE j < n
    BY <1>6, <1>8, <2>1 DEF IsRegion
  <2>2. CASE ~(j < n)
    <3>1. PICK i \in Nat : j = n + i
      <4>1. j - n \in Nat /\ j = n + (j - n)
        BY <2>2
      <4>2. QED
        BY <4>1
    <3>2. IsRegionAt(x, i, v)
      BY <1>7, <1>8, <3>1
    <3>3. QED
      BY <3>2 DEF IsRegion
  <2>3. QED
    BY <2>1, <2>2
<1>9. ASSUME NEW j \in Nat, IsRegionAt(l, j, v) PROVE IsRegion(w, v)
  BY <1>6, <1>9 DEF IsRegion
<1>10. ASSUME NEW j \in Nat, IsRegionAt(x, j, v) PROVE IsRegion(w, v)
  <2>1. PICK i \in Nat : i = n + j
    OBVIOUS
  <2>2. IsRegionAt(w, i, v)
    BY <1>7, <1>10, <2>1
  <2>3. QED
    BY <2>2 DEF IsRegion
<1>11. QED
  BY <1>8, <1>9, <1>10 DEF IsRegion

\* So are the rows.
LEMMA PartsShareRows ==
    ASSUME world \in Worlds, NEW whole, NEW left, NEW right,
           IsTraced(whole), IsTraced(left), IsTraced(right),
           IsCutInTwo(whole.request, left.request, right.request)
    PROVE  ToSet(whole.rows) = ToSet(left.rows) \cup ToSet(right.rows)
<1> DEFINE w == whole.request
           l == left.request
           x == right.request
           all == ToSet(whole.rows)
           first == ToSet(left.rows)
           second == ToSet(right.rows)
<1>1. w.verb = "span" /\ l.verb = "span" /\ x.verb = "span" /\ IsCutInTwo(w, l, x)
  BY DEF IsCutInTwo
<1>2. CASE IsBarred(w)
  <2>1. IsBarred(l) /\ IsBarred(x)
    <3>1. IsBarred(w) <=> IsBarred(l)
      BY <1>1, PartsAreAlike
    <3>2. IsBarred(w) <=> IsBarred(x)
      BY <1>1, PartsAreAlike
    <3>3. QED
      BY <1>2, <3>1, <3>2
  <2>2. Refused(w) /\ Refused(l) /\ Refused(x)
    BY <1>1, <1>2, <2>1 DEF Refused, IsBarred
  <2>3. whole.rows = <<>> /\ left.rows = <<>> /\ right.rows = <<>>
    BY <2>2 DEF IsTraced, IsAnswer
  <2>4. ToSet(<<>>) = {}
    BY DEF ToSet
  <2>5. QED
    BY <2>3, <2>4
<1>3. CASE ~IsBarred(w)
  <2>1. /\ IsPlaced(w) /\ IsPlaced(l) /\ (IsBarred(w) <=> IsBarred(l))
        /\ Targets(w) = w.targets /\ Targets(l) = w.targets /\ \E r : w.targets = {r}
        /\ \A r, v, row : IsRowOf(w, r, v, row) <=> IsRowOf(l, r, v, row)
    BY <1>1, PartsAreAlike
  <2>2. /\ IsPlaced(x) /\ (IsBarred(w) <=> IsBarred(x)) /\ Targets(x) = w.targets
        /\ \A r, v, row : IsRowOf(w, r, v, row) <=> IsRowOf(x, r, v, row)
    BY <1>1, PartsAreAlike
  <2>3. PICK r : w.targets = {r}
    BY <2>1
  <2>4. \A row : row \in all <=> \E v : IsRegion(w, v) /\ IsRowOf(w, r, v, row)
    BY <1>1, <1>3, <2>1, <2>3, RowsAreOfRegions
  <2>5. \A row : row \in first <=> \E v : IsRegion(l, v) /\ IsRowOf(l, r, v, row)
    BY <1>1, <1>3, <2>1, <2>3, RowsAreOfRegions
  <2>6. \A row : row \in second <=> \E v : IsRegion(x, v) /\ IsRowOf(x, r, v, row)
    BY <1>1, <1>3, <2>2, <2>3, RowsAreOfRegions
  <2>7. \A v : IsRegion(w, v) <=> IsRegion(l, v) \/ IsRegion(x, v)
    BY <1>1, <1>3, PartsShareRegions
  <2> HIDE DEF all, first, second, w, l, x
  <2>8. \A row : row \in all <=> row \in first \/ row \in second
    BY <2>1, <2>2, <2>4, <2>5, <2>6, <2>7
  <2>9. all = first \cup second
    BY <2>8
  <2>10. QED
    BY <2>9 DEF all, first, second
<1>4. QED
  BY <1>2, <1>3

\* The two spans of a window that is cut at the start of a region have
\* together the rows of the whole one (span.rs region_prints and span_segments).
THEOREM RegionsStayIndependent == Spec => []RegionsAreIndependent
<1>1. ASSUME QueryTypes, Traced PROVE RegionsAreIndependent
  <2> SUFFICES ASSUME NEW m \in DOMAIN answers, NEW n \in DOMAIN answers, NEW o \in DOMAIN answers,
                      \A x \in { answers[m].request, answers[n].request, answers[o].request } :
                          x.verb = "span" /\ x.window # None,
                      \A x, y \in { answers[m].request, answers[n].request, answers[o].request } :
                          x.key = y.key /\ x.targets = y.targets /\ x.multi = y.multi,
                      answers[m].request.window[1] = answers[n].request.window[1],
                      answers[m].request.window[2] = answers[o].request.window[2],
                      answers[n].request.window[2] = answers[o].request.window[1],
                      Latency <= answers[n].request.window[1],
                      answers[n].request.window[1] <= answers[n].request.window[2],
                      answers[n].request.window[2] <= answers[o].request.window[2],
                      answers[n].request.window[2] < Ticks(MaxBin),
                      (SecondsToBin(answers[n].request.window[2])
                           - SecondsToBin(answers[n].request.window[1])) % RegionBins = 0
               PROVE  ToSet(answers[m].rows) = ToSet(answers[n].rows) \cup ToSet(answers[o].rows)
    BY DEF RegionsAreIndependent
  <2>1. /\ world \in Worlds
        /\ IsTraced(answers[m]) /\ IsTraced(answers[n]) /\ IsTraced(answers[o])
    BY <1>1, AnswersAreOfTheTrace DEF QueryTypes
  <2>2. \A x \in { answers[m].request, answers[n].request, answers[o].request } :
            x \in Queries /\ x.window \in Nat \X Nat
    <3> TAKE x \in { answers[m].request, answers[n].request, answers[o].request }
    <3>1. x \in Queries
      BY <2>1 DEF IsTraced
    <3>2. x.window \in {None} \cup (Nat \X Nat) /\ x.window # None
      BY <3>1 DEF Queries, Request
    <3>3. QED
      BY <3>1, <3>2
  <2>3. IsCutInTwo(answers[m].request, answers[n].request, answers[o].request)
    BY <2>2 DEF IsCutInTwo
  <2>4. QED
    BY <2>1, <2>3, PartsShareRows
<1>2. QueryInvariant /\ Traced => RegionsAreIndependent
  BY <1>1 DEF QueryInvariant
<1>3. QED
  BY <1>2, QueryIsInvariant, AnswersAreTraced, PTL
=============================================================================
