------------------------- MODULE StoreContentProofs -------------------------
(***************************************************************************)
(* What the shard files hold, under any number of shards, keys, contents,  *)
(* durations and requests, with crashes and errors at any step: the files  *)
(* of every generation hold exactly what its manifest lists.               *)
(*                                                                         *)
(* FInv carries this through the rebuilding, shard by shard                *)
(* (TargetHoldsShards); a shard that is not rebuilt has none of its        *)
(* resources changed.  To rebuild one, the writer reads its old file: that *)
(* forward returns a resource's own prints follows from the invariant on   *)
(* that file, because postings lie in the order of the ids, which are not  *)
(* shared, so only one resource owns each position, and a range owned by   *)
(* one id throughout is that resource's block.  So the hypothesis          *)
(* ForwardNeverLies of StoreProofs holds where it is needed, and Known,    *)
(* all invariants together, is inductive.                                  *)
(*                                                                         *)
(* PrintsAreInTime stays a hypothesis: forward without a window reads the  *)
(* half-open range (0, u32::MAX), so a print at the largest time bin would *)
(* be stored, found and never read back.                                   *)
(***************************************************************************)
EXTENDS StoreProofs

-----------------------------------------------------------------------------
(* One shard file.                                                         *)

\* A shard file whose members have ids of their own.
IsFile(file) ==
    /\ IsFiniteSet(file.members)
    /\ HasUniqueIds(file.members)
    /\ \A m \in file.members : m.id \in Nat /\ m.hash.prints \in Seq(Fingerprint)

\* The blocks of a file lie in the order of the ids and do not overlap.
LEMMA BlocksFollow ==
    ASSUME NEW file, IsFile(file)
    PROVE  /\ \A m \in file.members : BlockStart(file, m) \in Nat
           /\ \A l, m \in file.members : l.id < m.id =>
                BlockStart(file, l) + Len(l.hash.prints) <= BlockStart(file, m)
<1> DEFINE D == file.members
           f == [r \in D |-> Len(r.hash.prints)]
           Before(m) == { r \in D : r.id < m.id }
<1>1. IsFiniteSet(D) /\ \A x \in D : f[x] = Len(x.hash.prints) /\ f[x] \in Nat
  BY DEF IsFile
<1>2. \A m : BlockStart(file, m) = SumFunctionOnSet(f, Before(m)) /\ Before(m) \in SUBSET D
  BY DEF BlockStart
<1> HIDE DEF f
<1>3. ASSUME NEW m \in D
      PROVE  BlockStart(file, m) \in Nat
  <2> HIDE DEF Before
  <2>1. SumFunctionOnSet(f, Before(m)) \in Nat
    BY <1>1, <1>2, SumOfFinite
  <2>2. QED
    BY <1>2, <2>1
<1>4. ASSUME NEW l \in D, NEW m \in D, l.id < m.id
      PROVE  BlockStart(file, l) + Len(l.hash.prints) <= BlockStart(file, m)
  <2> DEFINE U == Before(m)
             T == Before(l)
  <2>1. U \in SUBSET D /\ l \in U /\ T \in SUBSET U /\ l \notin T
    <3>1. \A r \in D : r.id \in Nat
      BY DEF IsFile
    <3>2. QED
      BY <1>4, <3>1
  <2> HIDE DEF U, T
  <2>2. SumFunctionOnSet(f, T) + f[l] <= SumFunctionOnSet(f, U)
    BY <1>1, <2>1, SumGrows
  <2>3. QED
    BY <1>1, <1>2, <2>2 DEF U, T
<1>5. QED
  BY <1>3, <1>4

\* A position of a member's block holds one posting, the member's.
LEMMA OnePosting ==
    ASSUME NEW file, IsFile(file), NEW m \in file.members, NEW i \in 1 .. Len(m.hash.prints)
    PROVE  PostingsAt(file, BlockStart(file, m) + i - 1) =
             {[id |-> m.id, print |-> m.hash.prints[i]]}
<1> DEFINE position == BlockStart(file, m) + i - 1
           D == file.members
           At(r) == /\ BlockStart(file, r) <= position
                    /\ position < BlockStart(file, r) + Len(r.hash.prints)
<1>1. \A r \in D : r.id \in Nat /\ Len(r.hash.prints) \in Nat /\ BlockStart(file, r) \in Nat
  BY BlocksFollow DEF IsFile
<1>2. At(m) /\ position - BlockStart(file, m) + 1 = i
  BY <1>1
<1>3. ASSUME NEW r \in D, At(r) PROVE r = m
  <2>1. ~(r.id < m.id)
    <3>1. r.id < m.id => BlockStart(file, r) + Len(r.hash.prints) <= BlockStart(file, m)
      BY BlocksFollow
    <3>2. QED
      BY <1>1, <1>2, <1>3, <3>1
  <2>2. ~(m.id < r.id)
    <3>1. m.id < r.id => BlockStart(file, m) + Len(m.hash.prints) <= BlockStart(file, r)
      BY BlocksFollow
    <3>2. QED
      BY <1>1, <1>2, <1>3, <3>1
  <2>3. r.id = m.id
    BY <1>1, <2>1, <2>2
  <2>4. QED
    BY <2>3 DEF IsFile, HasUniqueIds
<1>4. { r \in D : At(r) } = {m}
  BY <1>2, <1>3
<1>5. PostingsAt(file, position) =
        { [id |-> r.id, print |-> r.hash.prints[position - BlockStart(file, r) + 1]] :
            r \in { r \in D : At(r) } }
  BY DEF PostingsAt
<1>6. QED
  BY <1>2, <1>4, <1>5

\* A range that the id check accepts starts where the resource's block does.
LEMMA RangeIsBlock ==
    ASSUME NEW file, IsFile(file), NEW m \in file.members, NEW info,
           info.id = m.id, info.hash.prints = m.hash.prints, info.forward_start \in Nat,
           m.hash.prints # <<>>, ForwardReadable(file, info)
    PROVE  info.forward_start = BlockStart(file, m)
<1> DEFINE n == Len(m.hash.prints)
           start == info.forward_start
<1>1. \A r \in file.members : r.id \in Nat /\ Len(r.hash.prints) \in Nat /\ BlockStart(file, r) \in Nat
  BY BlocksFollow DEF IsFile
<1>2. n \in Nat /\ n # 0 /\ Postings(info) = n
  BY EmptySeq DEF IsFile, Postings
<1>3. ASSUME NEW position \in start .. start + n - 1
      PROVE  BlockStart(file, m) <= position /\ position < BlockStart(file, m) + n
  <2>1. PICK posting \in PostingsAt(file, position) : posting.id = info.id
    BY <1>2, <1>3 DEF ForwardReadable
  <2>2. PICK r \in file.members :
          /\ posting.id = r.id
          /\ BlockStart(file, r) <= position
          /\ position < BlockStart(file, r) + Len(r.hash.prints)
    BY <2>1 DEF PostingsAt
  <2>3. r = m
    BY <2>1, <2>2 DEF IsFile, HasUniqueIds
  <2>4. QED
    BY <2>2, <2>3
<1> HIDE DEF n
<1>4. start \in start .. start + n - 1 /\ start + n - 1 \in start .. start + n - 1
  BY <1>2
<1>5. BlockStart(file, m) <= start /\ start + n - 1 < BlockStart(file, m) + n
  BY <1>3, <1>4
<1>6. QED
  BY <1>1, <1>2, <1>5

\* What forward returns of a range it accepts is what was written there.
LEMMA ReadsBack ==
    ASSUME NEW file, IsFile(file), NEW m \in file.members, NEW info,
           info.id = m.id, info.hash.prints = m.hash.prints, info.forward_start \in Nat,
           \A i \in 1 .. Len(m.hash.prints) : m.hash.prints[i].t < MaxTime,
           ForwardReadable(file, info)
    PROVE  Forward(file, info) = info.hash.prints
<1> DEFINE prints == m.hash.prints
           n == Len(prints)
           At(i) == (CHOOSE posting \in PostingsAt(file, info.forward_start + i - 1) : TRUE).print
           Step(k, i) == IF i = 0 THEN <<>>
                         ELSE IF 0 <= At(i).t /\ At(i).t < MaxTime THEN Append(k[i - 1], At(i))
                         ELSE k[i - 1]
           IsKept_(k) == k = [i \in 0 .. Postings(info) |-> Step(k, i)]
           kept == CHOOSE k : IsKept_(k)
           front == [i \in 0 .. n |-> SubSeq(prints, 1, i)]
<1>1. prints \in Seq(Fingerprint) /\ n \in Nat /\ Postings(info) = n
  BY DEF IsFile, Postings
<1>2. ASSUME NEW i \in 1 .. n
      PROVE  At(i) = prints[i] /\ prints[i] \in Fingerprint /\ 0 <= At(i).t /\ At(i).t < MaxTime
  <2>1. prints # <<>> /\ prints[i] \in Fingerprint
    BY <1>1, <1>2, EmptySeq, ElementOfSeq
  <2>2. info.forward_start = BlockStart(file, m)
    BY <2>1, RangeIsBlock
  <2>3. PostingsAt(file, info.forward_start + i - 1) = {[id |-> m.id, print |-> prints[i]]}
    BY <1>2, <2>2, OnePosting
  <2>4. At(i) = prints[i]
    <3> DEFINE posting == [id |-> m.id, print |-> prints[i]]
    <3>1. posting.print = prints[i]
      OBVIOUS
    <3> HIDE DEF posting
    <3>2. (CHOOSE p \in {posting} : TRUE) = posting
      OBVIOUS
    <3>3. At(i) = (CHOOSE p \in {posting} : TRUE).print
      BY <2>3, Zenon DEF posting
    <3>4. QED
      BY <3>1, <3>2, <3>3
  <2>5. prints[i].t \in Nat /\ prints[i].t < MaxTime
    BY <2>1 DEF Fingerprint
  <2>6. QED
    BY <2>1, <2>4, <2>5
<1>3. Forward(file, info) = kept[n]
  BY <1>1 DEF Forward, ForwardRange
<1> HIDE DEF At
<1>4. ASSUME NEW i \in 1 .. n
      PROVE  SubSeq(prints, 1, i) = Append(SubSeq(prints, 1, i - 1), prints[i])
  <2>1. 1 \in 1 .. n /\ i \in 1 .. n
    BY <1>1, <1>4
  <2>2. SubSeq(prints, 1, i) = SubSeq(prints, 1, i - 1) \o <<prints[i]>>
    BY <1>1, <2>1, SubSeqRecursiveSecond
  <2>3. SubSeq(prints, 1, i - 1) \in Seq(Fingerprint)
    <3>1. \A j \in 1 .. i - 1 : prints[j] \in Fingerprint
      BY <1>1, <2>1, ElementOfSeq
    <3>2. QED
      BY <1>1, <2>1, <3>1, SubSeqProperties
  <2>4. QED
    BY <1>2, <2>1, <2>2, <2>3, AppendIsConcat
<1>5. SubSeq(prints, 1, 0) = <<>> /\ SubSeq(prints, 1, n) = prints
  BY <1>1, SubSeqEmpty, SubSeqFull
<1> HIDE DEF prints, n
<1>6. IsKept_(front)
  <2>1. ASSUME NEW i \in 0 .. n PROVE front[i] = Step(front, i)
    <3>1. CASE i = 0
      BY <1>1, <1>5, <3>1
    <3>2. CASE i # 0
      <4>1. i \in 1 .. n /\ i - 1 \in 0 .. n
        BY <1>1, <3>2
      <4>2. front[i] = Append(front[i - 1], prints[i])
        BY <1>4, <4>1
      <4>3. QED
        BY <1>2, <3>2, <4>1, <4>2
    <3>3. QED
      BY <3>1, <3>2
  <2>2. QED
    BY <1>1, <2>1
<1>7. IsKept_(kept)
  BY <1>6
<1> HIDE DEF kept
<1> DEFINE P == { i \in Nat : i \in 0 .. n => kept[i] = front[i] }
<1>8. 0 \in P
  BY <1>1, <1>5, <1>7
<1>9. ASSUME NEW i \in Nat, i \in P
      PROVE  i + 1 \in P
  <2> SUFFICES ASSUME i + 1 \in 0 .. n PROVE kept[i + 1] = front[i + 1]
    OBVIOUS
  <2>1. i \in 0 .. n /\ i + 1 \in 1 .. n /\ (i + 1) - 1 = i /\ i + 1 # 0
    BY <1>1
  <2>2. kept[i] = front[i]
    BY <1>9, <2>1
  <2>3. kept[i + 1] = Append(kept[i], prints[i + 1])
    BY <1>1, <1>2, <1>7, <2>1
  <2>4. front[i + 1] = Append(front[i], prints[i + 1])
    BY <1>4, <2>1
  <2>5. QED
    BY <2>2, <2>3, <2>4
<1>10. Nat \subseteq P
  <2> HIDE DEF P
  <2>1. QED
    BY <1>8, <1>9, SetInduction
<1>11. n \in Nat /\ n \in 0 .. n
  BY <1>1
<1>12. kept[n] = front[n]
  BY <1>10, <1>11
<1>13. front[n] = prints
  BY <1>5, <1>11
<1>14. QED
  BY <1>3, <1>12, <1>13 DEF prints

-----------------------------------------------------------------------------
(* Manifests and their files.                                              *)

\* The prints of the resources lie below the largest time bin.
AreInTime(S) == \A r \in S : \A i \in 1 .. Len(r.hash.prints) : r.hash.prints[i].t < MaxTime

InShard(m, n) == { r \in m.resources : ShardOf[r.key] = n }

\* A shard's file lists the resources of the shard, all under one profile.
FileOf(n, S, legacy) ==
    [number |-> n,
     members |-> { [key |-> r.key, id |-> r.id,
                    hash |-> [legacy |-> legacy, prints |-> r.hash.prints]] : r \in S }]

HoldsShard(m, n) == \E legacy \in BOOLEAN : m.files[n] = FileOf(n, InShard(m, n), legacy)

\* A manifest whose files hold what it lists.
IsWhole(m) ==
    /\ m.profile \in BOOLEAN
    /\ m.resources \subseteq ResourceInfo
    /\ IsFiniteSet(m.resources)
    /\ HasUniqueIds(m.resources)
    /\ AreInTime(m.resources)
    /\ \A n \in Numbers : HoldsShard(m, n)

\* The types of what a resource has.
LEMMA InfoTypes ==
    ASSUME NEW r \in ResourceInfo
    PROVE  /\ r.key \in Keys /\ r.id \in Nat /\ r.duration \in Nat /\ r.forward_start \in Nat
           /\ r.hash \in HashType /\ r.hash.legacy \in BOOLEAN
           /\ r.hash.prints \in Seq(Fingerprint)
           /\ ShardOf[r.key] \in Numbers
BY ShardOfAssumption DEF ResourceInfo, HashType, Numbers

\* Each member stands for a resource, each resource has a member.
LEMMA FileMembers ==
    ASSUME NEW n, NEW S, NEW legacy
    PROVE  /\ \A a \in FileOf(n, S, legacy).members :
                \E r \in S : a.id = r.id /\ a.hash.prints = r.hash.prints
           /\ \A r \in S : \E a \in FileOf(n, S, legacy).members :
                a.id = r.id /\ a.hash.prints = r.hash.prints
<1> DEFINE Member(r) == [key |-> r.key, id |-> r.id,
                         hash |-> [legacy |-> legacy, prints |-> r.hash.prints]]
<1>1. FileOf(n, S, legacy).members = { Member(r) : r \in S }
  BY DEF FileOf
<1>2. \A r : Member(r).id = r.id /\ Member(r).hash.prints = r.hash.prints
  OBVIOUS
<1> HIDE DEF Member
<1>3. QED
  BY <1>1, <1>2

\* Such a file can be read: it is finite and its ids are its own.
LEMMA WholeFiles ==
    ASSUME NEW S, S \subseteq ResourceInfo, IsFiniteSet(S), HasUniqueIds(S),
           NEW n \in Numbers, \A r \in S : ShardOf[r.key] = n, NEW legacy \in BOOLEAN
    PROVE  /\ IsFile(FileOf(n, S, legacy))
           /\ FileOf(n, S, legacy) \in ShardFile
<1> DEFINE Member(r) == [key |-> r.key, id |-> r.id,
                         hash |-> [legacy |-> legacy, prints |-> r.hash.prints]]
           D == { Member(r) : r \in S }
           file == FileOf(n, S, legacy)
<1>1. file = [number |-> n, members |-> D]
  BY DEF FileOf
<1>2. ASSUME NEW r \in S
      PROVE  /\ Member(r) \in [key: Keys, id: Nat, hash: HashType]
             /\ Member(r).id = r.id /\ r.id \in Nat
             /\ Member(r).hash.prints = r.hash.prints /\ r.hash.prints \in Seq(Fingerprint)
  <2>1. r \in ResourceInfo
    OBVIOUS
  <2>2. r.key \in Keys /\ r.id \in Nat /\ r.hash.prints \in Seq(Fingerprint)
    BY <2>1, InfoTypes
  <2>3. QED
    BY <2>2 DEF HashType
<1> HIDE DEF Member
<1>3. IsFiniteSet(D)
  <2> DEFINE f == [r \in S |-> Member(r)]
  <2>1. DOMAIN f = S /\ D = { f[r] : r \in S }
    OBVIOUS
  <2> HIDE DEF f, D
  <2>2. QED
    BY <2>1, ImageIsFinite
<1>4. ASSUME NEW a \in D, NEW b \in D, a.id = b.id
      PROVE  a = b
  <2>1. PICK r \in S, s \in S : a = Member(r) /\ b = Member(s)
    OBVIOUS
  <2>2. r = s
    BY <1>2, <1>4, <2>1 DEF HasUniqueIds
  <2>3. QED
    BY <2>1, <2>2
<1>5. \A a \in D : a.id \in Nat /\ a.hash.prints \in Seq(Fingerprint)
  BY <1>2
<1>6. D \in SUBSET [key: Keys, id: Nat, hash: HashType]
  BY <1>2
<1> HIDE DEF D
<1>7. file.members = D
  BY <1>1
<1>8. IsFile(file)
  BY <1>3, <1>4, <1>5, <1>7 DEF IsFile, HasUniqueIds
<1>9. file \in ShardFile
  BY <1>1, <1>6 DEF ShardFile
<1>10. QED
  BY <1>8, <1>9

\* What can be read back from a whole manifest is what it lists.
LEMMA StoredIsListed ==
    ASSUME NEW m, IsWhole(m), NEW r \in m.resources, Readable(m, r)
    PROVE  Stored(m, r) = r.hash.prints
<1> DEFINE n == ShardOf[r.key]
           S == InShard(m, n)
<1>1. /\ r \in ResourceInfo /\ n \in Numbers /\ r \in S
      /\ r.id \in Nat /\ r.forward_start \in Nat
  BY InfoTypes DEF IsWhole, InShard
<1>2. PICK legacy \in BOOLEAN : m.files[n] = FileOf(n, S, legacy)
  BY <1>1 DEF IsWhole, HoldsShard
<1> DEFINE file == FileOf(n, S, legacy)
           member == [key |-> r.key, id |-> r.id,
                      hash |-> [legacy |-> legacy, prints |-> r.hash.prints]]
<1>3. S \subseteq ResourceInfo /\ IsFiniteSet(S) /\ HasUniqueIds(S) /\ \A s \in S : ShardOf[s.key] = n
  <2>1. S \subseteq m.resources
    BY DEF InShard
  <2>2. QED
    BY <2>1, FS_Subset DEF IsWhole, HasUniqueIds, InShard
<1>4. IsFile(file)
  <2> HIDE DEF S, n
  <2>1. QED
    BY <1>1, <1>3, WholeFiles
<1>5. /\ member \in file.members
      /\ r.id = member.id /\ r.hash.prints = member.hash.prints
  BY <1>1 DEF FileOf
<1>6. \A i \in 1 .. Len(member.hash.prints) : member.hash.prints[i].t < MaxTime
  BY <1>5 DEF IsWhole, AreInTime
<1>7. ForwardReadable(file, r)
  BY <1>2 DEF Readable
<1> HIDE DEF file, member
<1>8. Forward(file, r) = r.hash.prints
  BY <1>1, <1>4, <1>5, <1>6, <1>7, ReadsBack
<1>9. QED
  BY <1>2, <1>8 DEF Stored, file

\* A hit on a posting of r is shown under the key of r alone.
LEMMA HitsAreNear ==
    ASSUME NEW m, IsWhole(m), NEW probe \in Nat, NEW r \in m.resources
    PROVE  /\ { q.key : q \in { q \in m.resources : q.id = r.id } } = {r.key}
           /\ \A i \in 1 .. Postings(r) :
                  (r.hash.prints[i].hash \in probe - QueryRange .. probe + QueryRange) <=>
                     (/\ probe <= r.hash.prints[i].hash + QueryRange
                      /\ r.hash.prints[i].hash <= probe + QueryRange)
<1>1. { q \in m.resources : q.id = r.id } = {r}
  BY DEF IsWhole, HasUniqueIds
<1>2. { q.key : q \in { q \in m.resources : q.id = r.id } } = {r.key}
  BY <1>1
<1>3. r.hash.prints \in Seq(Fingerprint)
  BY InfoTypes DEF IsWhole
<1>4. ASSUME NEW i \in 1 .. Postings(r)
      PROVE  r.hash.prints[i].hash \in Nat
  <2>1. r.hash.prints[i] \in Fingerprint
    BY <1>3, <1>4, ElementOfSeq DEF Postings
  <2>2. QED
    BY <2>1 DEF Fingerprint
<1>5. \A h \in Nat : (h \in probe - 2 .. probe + 2) <=> (probe <= h + 2 /\ h <= probe + 2)
  OBVIOUS
<1>6. QED
  BY <1>2, <1>4, <1>5 DEF QueryRange

\* A lookup in a whole manifest finds the postings near the probe and no other.
LEMMA LookupIsNear ==
    ASSUME NEW m, IsWhole(m), NEW probe \in Nat
    PROVE  Lookup(m, probe) = UNION { Near(r, probe) : r \in m.resources }
<1> DEFINE Keys_(id) == { q.key : q \in { q \in m.resources : q.id = id } }
           Hits == UNION { LookupRange(m.files[n], probe) : n \in Numbers }
           Shows(hit) == [keys |-> Keys_(hit.id), t |-> hit.t, hash |-> hit.hash]
           Hit(r, i) == [id |-> r.id, t |-> r.hash.prints[i].t, hash |-> r.hash.prints[i].hash]
           IsNear(r, i) == /\ probe <= r.hash.prints[i].hash + QueryRange
                           /\ r.hash.prints[i].hash <= probe + QueryRange
<1>1. Lookup(m, probe) = { Shows(hit) : hit \in Hits }
  BY DEF Lookup
<1>2. \A n \in Numbers : \E legacy \in BOOLEAN : m.files[n] = FileOf(n, InShard(m, n), legacy)
  BY DEF IsWhole, HoldsShard
<1>3. \A r \in m.resources : ShardOf[r.key] \in Numbers /\ Keys_(r.id) = {r.key}
  BY InfoTypes, HitsAreNear DEF IsWhole
<1>4. ASSUME NEW hit \in Hits
      PROVE  \E r \in m.resources : \E i \in 1 .. Postings(r) : IsNear(r, i) /\ hit = Hit(r, i)
  <2>1. PICK n \in Numbers : hit \in LookupRange(m.files[n], probe)
    BY <1>4
  <2>2. PICK a \in m.files[n].members :
          \E i \in 1 .. Len(a.hash.prints) : IsNear(a, i) /\ hit = Hit(a, i)
    BY <2>1 DEF LookupRange
  <2>3. PICK r \in InShard(m, n) : a.id = r.id /\ a.hash.prints = r.hash.prints
    BY <1>2, <2>2, FileMembers
  <2>4. r \in m.resources /\ \E i \in 1 .. Postings(r) : IsNear(r, i) /\ hit = Hit(r, i)
    BY <2>2, <2>3 DEF InShard, Postings
  <2>5. QED
    BY <2>4
<1>5. ASSUME NEW r \in m.resources, NEW i \in 1 .. Postings(r), IsNear(r, i)
      PROVE  Hit(r, i) \in Hits
  <2> DEFINE n == ShardOf[r.key]
  <2>1. n \in Numbers /\ r \in InShard(m, n)
    BY <1>3 DEF InShard
  <2>2. PICK legacy \in BOOLEAN : m.files[n] = FileOf(n, InShard(m, n), legacy)
    BY <1>2, <2>1
  <2>3. PICK a \in m.files[n].members : a.id = r.id /\ a.hash.prints = r.hash.prints
    BY <2>1, <2>2, FileMembers
  <2>4. Hit(r, i) = Hit(a, i) /\ i \in 1 .. Len(a.hash.prints) /\ IsNear(a, i)
    BY <1>5, <2>3 DEF Postings
  <2>5. Hit(a, i) \in LookupRange(m.files[n], probe)
    BY <2>3, <2>4 DEF LookupRange
  <2>6. QED
    BY <2>1, <2>4, <2>5
<1>6. ASSUME NEW r \in m.resources
      PROVE  Near(r, probe) = { Shows(Hit(r, i)) : i \in { i \in 1 .. Postings(r) : IsNear(r, i) } }
  <2>1. \A i : Shows(Hit(r, i)) =
          [keys |-> {r.key}, t |-> r.hash.prints[i].t, hash |-> r.hash.prints[i].hash]
    BY <1>3
  <2>2. \A i \in 1 .. Postings(r) :
          r.hash.prints[i].hash \in probe - QueryRange .. probe + QueryRange <=> IsNear(r, i)
    BY HitsAreNear
  <2> DEFINE J == { i \in 1 .. Postings(r) : IsNear(r, i) }
             Record(i) == [keys |-> {r.key}, t |-> r.hash.prints[i].t, hash |-> r.hash.prints[i].hash]
  <2>3. { i \in 1 .. Postings(r) :
            r.hash.prints[i].hash \in probe - QueryRange .. probe + QueryRange } = J
    BY <2>2
  <2>4. Near(r, probe) = { Record(i) : i \in J }
    BY <2>3 DEF Near
  <2>5. \A i : Shows(Hit(r, i)) = Record(i)
    BY <2>1
  <2> HIDE DEF J, Record
  <2>6. { Shows(Hit(r, i)) : i \in J } = { Record(i) : i \in J }
    BY <2>5
  <2>7. QED
    BY <2>4, <2>6 DEF J
<1> HIDE DEF Shows, Hit, IsNear, Hits
<1>7. { Shows(hit) : hit \in Hits } =
        UNION { { Shows(Hit(r, i)) : i \in { i \in 1 .. Postings(r) : IsNear(r, i) } } :
                  r \in m.resources }
  BY <1>4, <1>5
<1>8. QED
  BY <1>1, <1>6, <1>7

-----------------------------------------------------------------------------
(* The invariant.                                                          *)

\* Every print of every dump lies below the largest time bin.
PrintsAreInTime ==
    \A batch \in Batches : \A r \in batch : \A i \in 1 .. Len(r.prints) : r.prints[i].t < MaxTime

GenerationsAreWhole == \A g \in DOMAIN generations : IsWhole(generations[g])

\* The shards of the target that are not to be rebuilt, or have been.
TargetHoldsShards ==
    /\ pc \in {"shards", "fill", "publish", "rename"} => target \in Manifest
    /\ pc \in {"shards", "fill"} => \A n \in Numbers \ todo : HoldsShard(target, n)
    /\ pc \in {"publish", "rename"} => \A n \in Numbers : HoldsShard(target, n)

FInv == TypeOK /\ GenerationsAreWhole /\ TargetHoldsShards

\* Everything that is known of a state, nothing assumed.
Known == IInv /\ RInv /\ CInv /\ FInv

\* The published manifest is one of the generations.
LEMMA CurrentIsWhole ==
    ASSUME Known, current # None
    PROVE  current \in DOMAIN generations /\ IsWhole(generations[current])
BY DEF Known, IInv, PublishedIsListed, FInv, GenerationsAreWhole

\* Where the files hold what is listed, reading is right.
LEMMA KnownIsSound == Known => Sound
<1> SUFFICES ASSUME Known PROVE Sound
  OBVIOUS
<1>1. ForwardNeverLies
  BY CurrentIsWhole, StoredIsListed DEF ForwardNeverLies
<1>2. QED
  BY <1>1 DEF Known, Sound

\* A record with a resource's fields.
LEMMA InfoType ==
    ASSUME NEW r, IsInfo(r), r.key \in Keys, IsTyped(r), r.forward_start \in Nat
    PROVE  r \in ResourceInfo
BY DEF IsInfo, IsTyped, ResourceInfo

\* A record with a manifest's fields.
LEMMA ManifestType ==
    ASSUME NEW m, IsManifest(m), m.profile \in BOOLEAN, m.resources \subseteq ResourceInfo,
           \A n \in Numbers : m.files[n] \in ShardFile
    PROVE  m \in Manifest
<1>1. [n \in Numbers |-> m.files[n]] \in [Numbers -> ShardFile]
  OBVIOUS
<1>2. QED
  BY <1>1 DEF IsManifest, Manifest

\* A whole manifest has the type of one.
LEMMA WholeIsManifest ==
    ASSUME NEW m, IsManifest(m), IsWhole(m)
    PROVE  m \in Manifest
<1>1. ASSUME NEW n \in Numbers PROVE m.files[n] \in ShardFile
  <2> DEFINE S == InShard(m, n)
  <2>1. PICK legacy \in BOOLEAN : m.files[n] = FileOf(n, S, legacy)
    BY DEF IsWhole, HoldsShard
  <2>2. S \subseteq m.resources /\ \A r \in S : ShardOf[r.key] = n
    BY DEF InShard
  <2> HIDE DEF S
  <2>3. S \subseteq ResourceInfo /\ IsFiniteSet(S) /\ HasUniqueIds(S)
    BY <2>2, FS_Subset DEF IsWhole, HasUniqueIds
  <2>4. QED
    BY <2>1, <2>2, <2>3, WholeFiles
<1>2. QED
  BY <1>1, ManifestType DEF IsWhole

\* The manifest that build starts from holds nothing, in every file.
LEMMA EmptyIsWhole == IsWhole(EmptyManifest) /\ IsManifest(EmptyManifest)
<1>1. /\ EmptyManifest.profile = TRUE /\ EmptyManifest.resources = {}
      /\ \A n \in Numbers : EmptyManifest.files[n] = ShardName(n, {})
  BY DEF EmptyManifest
<1>2. ASSUME NEW n \in Numbers PROVE HoldsShard(EmptyManifest, n)
  <2>1. InShard(EmptyManifest, n) = {}
    BY <1>1 DEF InShard
  <2>2. ShardName(n, {}) = FileOf(n, {}, FALSE)
    BY DEF ShardName, FileOf
  <2>3. QED
    BY <1>1, <2>1, <2>2 DEF HoldsShard
<1>3. IsManifest(EmptyManifest)
  BY DEF IsManifest, EmptyManifest
<1>4. QED
  BY <1>1, <1>2, <1>3, FS_EmptySet DEF IsWhole, HasUniqueIds, AreInTime

\* What a request starts from holds what it lists.
LEMMA BaseIsWhole ==
    ASSUME Known
    PROVE  IsWhole(Base) /\ IsManifest(Base) /\ Base \in Manifest
<1>1. CASE current = None
  <2>1. Base = EmptyManifest
    BY <1>1 DEF Base
  <2>2. QED
    BY <2>1, EmptyIsWhole, WholeIsManifest
<1>2. CASE current # None
  <2>1. Base = generations[current] /\ IsWhole(Base)
    BY <1>2, CurrentIsWhole DEF Base
  <2>2. IsManifest(Base)
    BY <1>2, <2>1, CurrentIsWhole DEF Known, IInv, GenerationsAreManifests
  <2>3. QED
    BY <2>1, <2>2, WholeIsManifest
<1>3. QED
  BY <1>1, <1>2

\* The changes are group members, with the prints of their dumps.
LEMMA ChangesAreMembers ==
    ASSUME NEW m, IsFiniteSet(m.resources), HasUniqueIds(m.resources),
           AreResources(m.resources), \A r \in m.resources : r.id \in Nat,
           NEW batch \in Batches, ~HasDuplicates(batch)
    PROVE  /\ IngestChanges(m, batch) \subseteq GroupMember
           /\ HasUniqueKeys(IngestChanges(m, batch))
           /\ IsFiniteSet(IngestChanges(m, batch))
           /\ PrintsAreInTime => \A c \in IngestChanges(m, batch) :
                 \A i \in 1 .. Len(c.prints) : c.prints[i].t < MaxTime
<1> DEFINE C == IngestChanges(m, batch)
<1>1. ASSUME NEW c \in C
      PROVE  /\ c.key \in Keys /\ c.id \in Nat /\ c.duration \in Nat /\ c.prints \in Seq(Fingerprint)
             /\ \E r \in batch : c.key = r.key /\ c.prints = r.prints
  BY ChangesAreFine
<1>2. ASSUME NEW c \in C
      PROVE  c = [key |-> c.key, duration |-> c.duration, prints |-> c.prints, id |-> c.id]
  BY DEF IngestChanges
<1> HIDE DEF C
<1>3. C \subseteq GroupMember
  BY <1>1, <1>2 DEF GroupMember
<1>4. HasUniqueKeys(C)
  BY UniqueChanges DEF C
<1>5. IsFiniteSet(C)
  <2>1. IsFiniteSet({ r.key : r \in batch })
    BY BatchesAssumption, KeysAreFinite
  <2>2. \A c \in C : c.key \in { r.key : r \in batch }
    BY <1>1
  <2>3. QED
    BY <1>4, <2>1, <2>2, FiniteByKeys
<1>6. ASSUME PrintsAreInTime, NEW c \in C, NEW i \in 1 .. Len(c.prints)
      PROVE  c.prints[i].t < MaxTime
  BY <1>1, <1>6 DEF PrintsAreInTime
<1>7. QED
  BY <1>3, <1>4, <1>5, <1>6 DEF C

\* So are the members of the request in progress.
LEMMA MembersAreMembers ==
    ASSUME Sound, IngestIsAccepted \/ RetireIsAccepted
    PROVE  /\ Members \subseteq GroupMember /\ HasUniqueKeys(Members) /\ IsFiniteSet(Members)
           /\ PrintsAreInTime => \A c \in Members :
                 \A i \in 1 .. Len(c.prints) : c.prints[i].t < MaxTime
<1>1. CASE IngestIsAccepted
  <2>1. /\ request.batch \in Batches /\ ~HasDuplicates(request.batch)
        /\ Members = IngestChanges(Base, request.batch)
    BY <1>1, IngestIsTaken DEF IngestIsAccepted, Members
  <2>2. QED
    BY <2>1, BaseFacts, ChangesAreMembers DEF IsTyped
<1>2. CASE RetireIsAccepted
  <2>1. Members = {}
    BY <1>2 DEF RetireIsAccepted, Members
  <2>2. QED
    BY <2>1, FS_EmptySet DEF HasUniqueKeys
<1>3. QED
  BY <1>1, <1>2

\* A resource that is due has its prints from the store or from the batch.
LEMMA DueIsInTime ==
    ASSUME Known, PrintsAreInTime, IngestIsAccepted \/ RetireIsAccepted, TargetIsDue
    PROVE  AreInTime(target.resources)
<1>1. Sound /\ AreInTime(Base.resources)
  BY KnownIsSound, BaseIsWhole DEF IsWhole
<1>2. \A q : ContentHash(q).prints = q
  BY DEF ContentHash
<1>3. ASSUME NEW r \in target.resources, NEW i \in 1 .. Len(r.hash.prints)
      PROVE  r.hash.prints[i].t < MaxTime
  <2>1. CASE IsKept(r)
    <3>1. PICK s \in Base.resources : r.hash.prints = s.hash.prints
      BY <1>2, <2>1 DEF IsKept
    <3>2. QED
      BY <1>1, <1>3, <3>1 DEF AreInTime
  <2>2. CASE IsBuilt(r)
    <3>1. PICK c \in Members : r.hash.prints = c.prints
      BY <1>2, <2>2 DEF IsBuilt
    <3>2. QED
      BY <1>1, <1>3, <3>1, MembersAreMembers
  <2>3. QED
    BY <2>1, <2>2 DEF TargetIsDue
<1>4. QED
  BY <1>3 DEF AreInTime

\* Shards that a request leaves alone hold what they held.
LEMMA PrepareKeepsFInv ==
    ASSUME Known, IngestIsAccepted \/ RetireIsAccepted, Prepare(Base, Members, Gone)
    PROVE  FInv'
<1>1. Sound /\ IsWhole(Base) /\ IsManifest(Base) /\ Base \in Manifest
  BY KnownIsSound, BaseIsWhole
<1> DEFINE kept == { r \in Base.resources : r.key \notin Replaced }
<1>2. /\ opened' = Base /\ changes' = Members /\ pc' = "shards"
      /\ target' = [Base EXCEPT !.resources = kept]
      /\ todo' = Affected(Base, Members \union { r \in Base.resources : r.key \in Gone })
      /\ UNCHANGED <<disk, session, collector, reader>>
  BY DEF Prepare, Replaced
<1>3. /\ target'.profile = Base.profile /\ target'.resources = kept
      /\ target'.files = Base.files /\ IsManifest(target')
  BY <1>1, <1>2, ManifestIsRecord DEF IsManifest
<1>4. target' \in Manifest
  <2>1. \A n \in Numbers : Base.files[n] \in ShardFile
    BY <1>1 DEF Manifest
  <2>2. QED
    BY <1>1, <1>3, <2>1, ManifestType DEF IsWhole
<1>5. todo' \subseteq Numbers
  <2>1. \A r \in Members \union Base.resources : ShardOf[r.key] \in Numbers
    BY <1>1, InfoTypes, MembersAreMembers, ShardOfAssumption DEF IsWhole, GroupMember, Numbers
  <2>2. QED
    BY <1>2, <2>1 DEF Affected
<1>6. Members \subseteq GroupMember
  BY <1>1, MembersAreMembers
<1>7. ASSUME NEW n \in Numbers \ todo' PROVE HoldsShard(target', n)
  <2>1. Base # EmptyManifest
    BY <1>2, <1>7 DEF Affected
  <2>2. /\ \A c \in Members : ShardOf[c.key] # n
        /\ \A r \in Base.resources : r.key \in Gone => ShardOf[r.key] # n
    BY <1>2, <1>7, <2>1 DEF Affected
  <2>3. \A r \in Base.resources : ShardOf[r.key] = n => r.key \notin Replaced
    BY <2>2 DEF Replaced
  <2>4. InShard(target', n) = InShard(Base, n)
    BY <1>3, <2>3 DEF InShard
  <2>5. HoldsShard(Base, n)
    BY <1>1 DEF IsWhole
  <2>6. QED
    BY <1>3, <2>4, <2>5 DEF HoldsShard
<1>8. GenerationsAreWhole'
  BY <1>2 DEF Known, FInv, GenerationsAreWhole, disk
<1>9. TypeOK'
  BY <1>1, <1>2, <1>4, <1>5, <1>6 DEF Known, FInv, TypeOK, disk, session, collector
<1>10. TargetHoldsShards'
  BY <1>2, <1>4, <1>7 DEF TargetHoldsShards
<1>11. QED
  BY <1>8, <1>9, <1>10 DEF FInv

\* A file does not tell identities of one kind from those of another, nor
\* durations: it holds what it held when the keys, ids and prints are the same.
LEMMA SameMembersSameFile ==
    ASSUME NEW b, NEW m, m.files = b.files, NEW n, HoldsShard(b, n),
           \A r \in b.resources : \E q \in m.resources :
               q.key = r.key /\ q.id = r.id /\ q.hash.prints = r.hash.prints,
           \A q \in m.resources : \E r \in b.resources :
               q.key = r.key /\ q.id = r.id /\ q.hash.prints = r.hash.prints
    PROVE  HoldsShard(m, n)
<1>1. PICK legacy \in BOOLEAN : b.files[n] = FileOf(n, InShard(b, n), legacy)
  BY DEF HoldsShard
<1> DEFINE Member(r) == [key |-> r.key, id |-> r.id,
                         hash |-> [legacy |-> legacy, prints |-> r.hash.prints]]
<1>2. \A S : FileOf(n, S, legacy) = [number |-> n, members |-> { Member(r) : r \in S }]
  BY DEF FileOf
<1>3. \A q, r : (q.key = r.key /\ q.id = r.id /\ q.hash.prints = r.hash.prints) => Member(q) = Member(r)
  OBVIOUS
<1> HIDE DEF Member
<1>4. { Member(r) : r \in InShard(b, n) } = { Member(q) : q \in InShard(m, n) }
  <2>1. ASSUME NEW r \in InShard(b, n)
        PROVE  \E q \in InShard(m, n) : Member(r) = Member(q)
    <3>1. PICK q \in m.resources : q.key = r.key /\ q.id = r.id /\ q.hash.prints = r.hash.prints
      BY DEF InShard
    <3>2. q \in InShard(m, n)
      BY <3>1 DEF InShard
    <3>3. Member(q) = Member(r)
      BY <1>3, <3>1
    <3>4. QED
      BY <3>2, <3>3
  <2>2. ASSUME NEW q \in InShard(m, n)
        PROVE  \E r \in InShard(b, n) : Member(q) = Member(r)
    <3>1. PICK r \in b.resources : q.key = r.key /\ q.id = r.id /\ q.hash.prints = r.hash.prints
      BY DEF InShard
    <3>2. r \in InShard(b, n)
      BY <3>1 DEF InShard
    <3>3. Member(q) = Member(r)
      BY <1>3, <3>1
    <3>4. QED
      BY <3>2, <3>3
  <2>3. QED
    BY <2>1, <2>2
<1>5. QED
  BY <1>1, <1>2, <1>4 DEF HoldsShard

\* A manifest published over the files that are there holds what they held.
LEMMA PublishOverKeepsFInv ==
    ASSUME Known, NEW m, PublishOver(m), IsManifest(m), m.profile \in BOOLEAN,
           m.files = Base.files, m.resources \subseteq ResourceInfo,
           \A r \in Base.resources : \E q \in m.resources :
               q.key = r.key /\ q.id = r.id /\ q.hash.prints = r.hash.prints,
           \A q \in m.resources : \E r \in Base.resources :
               q.key = r.key /\ q.id = r.id /\ q.hash.prints = r.hash.prints
    PROVE  FInv'
<1>1. IsWhole(Base) /\ Base \in Manifest
  BY BaseIsWhole
<1>2. /\ opened' = Base /\ target' = m /\ pc' = "publish"
      /\ UNCHANGED <<disk, session, changes, todo, collector, reader>>
  BY DEF PublishOver
<1>3. m \in Manifest
  <2>1. \A n \in Numbers : m.files[n] \in ShardFile
    BY <1>1 DEF Manifest
  <2>2. QED
    BY <2>1, ManifestType
<1>4. ASSUME NEW n \in Numbers PROVE HoldsShard(m, n)
  <2>1. HoldsShard(Base, n)
    BY <1>1 DEF IsWhole
  <2>2. QED
    BY <2>1, SameMembersSameFile
<1>5. GenerationsAreWhole'
  BY <1>2 DEF Known, FInv, GenerationsAreWhole, disk
<1>6. TypeOK'
  BY <1>1, <1>2, <1>3 DEF Known, FInv, TypeOK, disk, session, collector
<1>7. TargetHoldsShards'
  BY <1>2, <1>3, <1>4 DEF TargetHoldsShards
<1>8. QED
  BY <1>5, <1>6, <1>7 DEF FInv

\* New identities leave the prints, and so the files, as they are.
LEMMA RehashKeepsFInv ==
    ASSUME Known, \A r \in Base.resources : Readable(Base, r), PublishOver(Rehashed(Base))
    PROVE  FInv'
<1> DEFINE m == Rehashed(Base)
           New(r) == [key |-> r.key, id |-> r.id, duration |-> r.duration,
                      hash |-> ContentHash(r.hash.prints), forward_start |-> r.forward_start]
<1>1. Sound /\ IsWhole(Base) /\ IsManifest(Base)
  BY KnownIsSound, BaseIsWhole
<1>2. m.profile = TRUE /\ m.files = Base.files /\ m.resources = { New(r) : r \in Base.resources }
  BY <1>1, RehashedResources
<1>3. IsManifest(m)
  BY <1>1, SameFiles DEF Rehashed
<1>4. \A r : New(r).key = r.key /\ New(r).id = r.id /\ New(r).hash.prints = r.hash.prints
  BY DEF ContentHash
<1>5. ASSUME NEW r \in Base.resources PROVE New(r) \in ResourceInfo
  <2>1. /\ r.key \in Keys /\ r.id \in Nat /\ r.duration \in Nat /\ r.forward_start \in Nat
        /\ r.hash.prints \in Seq(Fingerprint)
    BY <1>1, InfoTypes DEF IsWhole
  <2>2. ContentHash(r.hash.prints) \in HashType
    BY <2>1 DEF ContentHash, HashType
  <2>3. QED
    BY <2>1, <2>2 DEF ResourceInfo
<1> HIDE DEF New, m
<1>6. m.resources \subseteq ResourceInfo
  BY <1>2, <1>5
<1>7. /\ \A r \in Base.resources : \E q \in m.resources :
            q.key = r.key /\ q.id = r.id /\ q.hash.prints = r.hash.prints
      /\ \A q \in m.resources : \E r \in Base.resources :
            q.key = r.key /\ q.id = r.id /\ q.hash.prints = r.hash.prints
  BY <1>2, <1>4
<1>8. PublishOver(m) /\ m.profile \in BOOLEAN
  BY <1>2 DEF m
<1>9. QED
  BY <1>2, <1>3, <1>6, <1>7, <1>8, PublishOverKeepsFInv

\* So do new durations.
LEMMA DurationsKeepFInv ==
    ASSUME Known, request.updates \in DurationFiles,
           ValidDurations(Base, request.expected, request.updates),
           PublishOver(WithDurations(Base, request.updates))
    PROVE  FInv'
<1> DEFINE m == WithDurations(Base, request.updates)
           New(r, u) == [key |-> r.key, id |-> r.id, duration |-> u.duration, hash |-> r.hash,
                         forward_start |-> r.forward_start]
<1>1. Sound /\ IsWhole(Base) /\ IsManifest(Base)
  BY KnownIsSound, BaseIsWhole
<1>2. m.profile = Base.profile /\ m.files = Base.files
  BY <1>1, DurationResources
<1>3. IsManifest(m)
  BY <1>1, SameFiles DEF WithDurations
<1>4. \A r, u : /\ New(r, u).key = r.key /\ New(r, u).id = r.id
                /\ New(r, u).hash.prints = r.hash.prints
  OBVIOUS
<1>5. ASSUME NEW r \in Base.resources, NEW u \in request.updates PROVE New(r, u) \in ResourceInfo
  <2>1. /\ r.key \in Keys /\ r.id \in Nat /\ r.hash \in HashType /\ r.forward_start \in Nat
    BY <1>1, InfoTypes DEF IsWhole
  <2>2. u.duration \in Nat
    BY DurationFilesAssumption
  <2>3. QED
    BY <2>1, <2>2 DEF ResourceInfo
<1>6. /\ \A r \in Base.resources : \E u \in request.updates : New(r, u) \in m.resources
      /\ \A q \in m.resources : \E r \in Base.resources, u \in request.updates : q = New(r, u)
  BY <1>1, DurationResources
<1> HIDE DEF New, m
<1>7. m.resources \subseteq ResourceInfo
  BY <1>5, <1>6
<1>8. /\ \A r \in Base.resources : \E q \in m.resources :
            q.key = r.key /\ q.id = r.id /\ q.hash.prints = r.hash.prints
      /\ \A q \in m.resources : \E r \in Base.resources :
            q.key = r.key /\ q.id = r.id /\ q.hash.prints = r.hash.prints
  BY <1>4, <1>6
<1>9. PublishOver(m) /\ m.profile \in BOOLEAN
  BY <1>1, <1>2 DEF m, IsWhole
<1>10. QED
  BY <1>2, <1>3, <1>7, <1>8, <1>9, PublishOverKeepsFInv

\* The end of a request: nothing is in preparation any more.
LEMMA AnswerKeepsFInv ==
    ASSUME Known, NEW outcome, Answer(outcome),
           outcome \in {"none", "ok", "bad_request", "store_missing", "internal", "already_exists"}
    PROVE  FInv'
<1>1. GenerationsAreWhole'
  BY DEF Answer, disk, Known, FInv, GenerationsAreWhole
<1>2. TargetHoldsShards'
  BY DEF Answer, Closed, TargetHoldsShards
<1>3. TypeOK'
  BY DEF Answer, Closed, disk, Known, FInv, TypeOK
<1>4. QED
  BY <1>1, <1>2, <1>3 DEF FInv

\* The first step of every request keeps the invariant.
LEMMA RequestsKeepFInv ==
    ASSUME Known, Ingest \/ Retire \/ Rehash \/ SetDurations
    PROVE  FInv'
<1>1. CASE \E outcome : Answer(outcome)
  <2>1. PICK outcome : /\ Answer(outcome)
                       /\ outcome \in {"none", "ok", "bad_request", "store_missing", "internal",
                                      "already_exists"}
    <3>1. CASE Ingest
      BY <1>1, <3>1 DEF Ingest, IngestRefusal, Answer, Closed, Prepare
    <3>2. CASE Retire
      BY <1>1, <3>2 DEF Retire, Answer, Closed, Prepare
    <3>3. CASE Rehash
      BY <1>1, <3>3 DEF Rehash, Answer, Closed, PublishOver
    <3>4. CASE SetDurations
      BY <1>1, <3>4 DEF SetDurations, Answer, Closed, PublishOver
    <3>5. QED
      BY <3>1, <3>2, <3>3, <3>4
  <2>2. QED
    BY <2>1, AnswerKeepsFInv
<1>2. CASE Ingest /\ ~\E outcome : Answer(outcome)
  <2>1. /\ request.type = "ingest" /\ pc = "open"
        /\ IngestRefusal(Base, request.batch, request.replace) = "none"
        /\ IngestChanges(Base, request.batch) # {}
        /\ Prepare(Base, IngestChanges(Base, request.batch), {})
    BY <1>2 DEF Ingest
  <2>2. request.batch \in Batches
    BY <2>1 DEF Known, CInv, RequestIsTyped
  <2>3. Members = IngestChanges(Base, request.batch) /\ Gone = {}
    BY <2>1 DEF Members, Gone
  <2>4. IngestIsAccepted
    BY <2>1, <2>2, <2>3 DEF IngestIsAccepted
  <2>5. QED
    BY <2>1, <2>3, <2>4, PrepareKeepsFInv
<1>3. CASE Retire /\ ~\E outcome : Answer(outcome)
  <2>1. /\ request.type = "retire" /\ current # None
        /\ request.key \in KeysOf(Base) /\ Cardinality(Base.resources) # 1
        /\ Prepare(Base, {}, {request.key})
    BY <1>3 DEF Retire
  <2>2. Members = {} /\ Gone = {request.key}
    BY <2>1 DEF Members, Gone
  <2>3. RetireIsAccepted
    BY <2>1 DEF RetireIsAccepted
  <2>4. QED
    BY <2>1, <2>2, <2>3, PrepareKeepsFInv
<1>4. CASE Rehash /\ ~\E outcome : Answer(outcome)
  BY <1>4, RehashKeepsFInv DEF Rehash
<1>5. CASE SetDurations /\ ~\E outcome : Answer(outcome)
  <2>1. /\ request.type = "durations" /\ pc = "open"
        /\ ValidDurations(Base, request.expected, request.updates)
        /\ PublishOver(WithDurations(Base, request.updates))
    BY <1>5 DEF SetDurations
  <2>2. request.updates \in DurationFiles
    BY <2>1 DEF Known, CInv, RequestIsTyped
  <2>3. QED
    BY <2>1, <2>2, DurationsKeepFInv
<1>6. QED
  BY <1>1, <1>2, <1>3, <1>4, <1>5

-----------------------------------------------------------------------------
(* Rebuilding.                                                             *)

\* The infos of a typed group are typed, and what the group holds.
LEMMA GroupInfosAreTyped ==
    ASSUME NEW group, group \subseteq GroupMember, IsFiniteSet(group)
    PROVE  /\ GroupInfos(group) \subseteq ResourceInfo
           /\ \A x \in GroupInfos(group) : \E r \in group :
                x.key = r.key /\ x.id = r.id /\ x.hash = ContentHash(r.prints)
<1> DEFINE Info(r) == [key |-> r.key, id |-> r.id, duration |-> r.duration,
                       hash |-> ContentHash(r.prints), forward_start |-> ForwardStart(group, r)]
           f == [r \in group |-> Len(r.prints)]
<1>1. GroupInfos(group) = { Info(r) : r \in group }
  BY DEF GroupInfos
<1>2. ASSUME NEW r \in group
      PROVE  /\ r.key \in Keys /\ r.id \in Nat /\ r.duration \in Nat /\ r.prints \in Seq(Fingerprint)
             /\ ContentHash(r.prints) \in HashType
  BY DEF GroupMember, ContentHash, HashType
<1>3. ASSUME NEW r \in group PROVE ForwardStart(group, r) \in Nat
  <2> DEFINE before == { q \in group : q.key < r.key }
  <2>1. before \in SUBSET group /\ \A q \in group : f[q] \in Nat
    BY <1>2
  <2>2. ForwardStart(group, r) = SumFunctionOnSet(f, before)
    BY DEF ForwardStart
  <2> HIDE DEF f, before
  <2>3. QED
    BY <2>1, <2>2, SumOfFinite
<1>4. \A r \in group : Info(r) \in ResourceInfo
  BY <1>2, <1>3 DEF ResourceInfo
<1>5. \A r \in group :
        Info(r).key = r.key /\ Info(r).id = r.id /\ Info(r).hash = ContentHash(r.prints)
  OBVIOUS
<1> HIDE DEF Info
<1>6. QED
  BY <1>1, <1>4, <1>5

\* What a rebuilt shard keeps is of the manifest that the request started from.
LEMMA KeptIsOfBase ==
    ASSUME Known, pc \in {"shards", "fill"}, todo # {}
    PROVE  /\ NextShard \in todo /\ NextShard \in Numbers /\ opened = Base /\ changes = Members
           /\ KeptInfos \subseteq Base.resources
<1>1. Sound /\ TargetIsDue
  BY KnownIsSound, RebuildingIsDue DEF Sound
<1>2. NextShard \in todo /\ NextShard \in Numbers
  <2>1. todo \in SUBSET Numbers /\ Numbers \subseteq Nat
    BY ShardCountAssumption DEF Known, RInv, TargetHasResources, Numbers
  <2>2. \E x \in todo : \A y \in todo : x <= y
    BY <2>1, LeastElement
  <2>3. QED
    BY <2>1, <2>2 DEF NextShard, Min
<1>3. ASSUME NEW r \in KeptInfos PROVE r \in Base.resources
  <2>1. r \in target.resources /\ ShardOf[r.key] \in todo
    BY <1>2 DEF KeptInfos
  <2>2. \A c \in Members : r.key # c.key
    BY <1>1, <2>1 DEF Known, RInv, TargetHasResources, TargetIsDue
  <2>3. IsKept(r)
    BY <1>1, <2>1, <2>2 DEF TargetIsDue, IsBuilt
  <2>4. QED
    BY <2>1, <2>3 DEF IsKept
<1>4. QED
  BY <1>1, <1>2, <1>3 DEF TargetIsDue

\* The group that replaces a shard is typed: the kept ones are read right.
LEMMA GroupIsTyped ==
    ASSUME Known, pc \in {"shards", "fill"}, todo # {}, \A r \in KeptInfos : Readable(opened, r)
    PROVE  /\ Group \subseteq GroupMember /\ IsFiniteSet(Group)
           /\ \A m \in Group : ShardOf[m.key] = NextShard
<1> DEFINE Member(r) == [key |-> r.key, id |-> r.id, duration |-> r.duration,
                         prints |-> Stored(opened, r)]
           kept == { Member(r) : r \in KeptInfos }
           new == { c \in changes : ShardOf[c.key] = NextShard }
<1>1. Group = kept \union new
  BY DEF Group
<1>2. /\ opened = Base /\ changes = Members /\ KeptInfos \subseteq Base.resources
      /\ IsWhole(Base)
  BY KeptIsOfBase, BaseIsWhole
<1>3. ASSUME NEW r \in KeptInfos
      PROVE  Member(r) \in GroupMember /\ Member(r).key = r.key /\ ShardOf[r.key] = NextShard
  <2>1. r \in Base.resources /\ r \in ResourceInfo /\ Readable(Base, r)
    BY <1>2 DEF IsWhole
  <2>2. Stored(opened, r) = r.hash.prints
    BY <1>2, <2>1, StoredIsListed
  <2>3. /\ r.key \in Keys /\ r.id \in Nat /\ r.duration \in Nat
        /\ Stored(opened, r) \in Seq(Fingerprint)
    BY <2>1, <2>2, InfoTypes
  <2>4. QED
    BY <2>3 DEF GroupMember, KeptInfos
<1>4. /\ Members \subseteq GroupMember /\ IsFiniteSet(Members)
  BY KnownIsSound, RebuildingIsDue, MembersAreMembers DEF Sound
<1>5. IsFiniteSet(KeptInfos)
  BY <1>2, FS_Subset DEF IsWhole
<1> HIDE DEF Member
<1>6. IsFiniteSet(kept)
  <2> DEFINE f == [r \in KeptInfos |-> Member(r)]
  <2>1. DOMAIN f = KeptInfos /\ kept = { f[r] : r \in KeptInfos }
    OBVIOUS
  <2> HIDE DEF f, kept
  <2>2. QED
    BY <1>5, <2>1, ImageIsFinite
<1>7. IsFiniteSet(new)
  <2>1. new \in SUBSET Members
    BY <1>2
  <2>2. QED
    BY <1>4, <2>1, FS_Subset
<1>8. IsFiniteSet(Group)
  BY <1>1, <1>6, <1>7, FS_Union
<1>9. Group \subseteq GroupMember
  BY <1>1, <1>2, <1>3, <1>4
<1>10. \A m \in Group : ShardOf[m.key] = NextShard
  BY <1>1, <1>3
<1>11. QED
  BY <1>8, <1>9, <1>10

\* The file that replaces a shard's.
LEMMA RebuiltFile ==
    ASSUME Known, pc \in {"shards", "fill"}, todo # {}, \A r \in KeptInfos : Readable(opened, r)
    PROVE  /\ GroupInfos(Group) \subseteq ResourceInfo
           /\ \A x \in GroupInfos(Group) : ShardOf[x.key] = NextShard
           /\ ShardName(NextShard, GroupInfos(Group)) = FileOf(NextShard, GroupInfos(Group), FALSE)
           /\ ShardName(NextShard, GroupInfos(Group)) \in ShardFile
<1> DEFINE n == NextShard
           infos == GroupInfos(Group)
<1>2. n \in Numbers
  BY KeptIsOfBase
<1>4. /\ infos \subseteq ResourceInfo
      /\ \A x \in infos : ShardOf[x.key] = n /\ x.hash = ContentHash(x.hash.prints)
  <2>1. /\ Group \subseteq GroupMember /\ IsFiniteSet(Group)
        /\ \A g \in Group : ShardOf[g.key] = n
    BY GroupIsTyped
  <2>2. \A p : ContentHash(p).prints = p
    BY DEF ContentHash
  <2>3. QED
    BY <2>1, <2>2, GroupInfosAreTyped
<1> HIDE DEF infos, n
<1>6. ShardName(n, infos) = FileOf(n, infos, FALSE) /\ ShardName(n, infos) \in ShardFile
  <2>1. \A x \in infos : x.hash = [legacy |-> FALSE, prints |-> x.hash.prints]
    BY <1>4 DEF ContentHash
  <2>2. ShardName(n, infos) = FileOf(n, infos, FALSE)
    <3> DEFINE Named(x) == [key |-> x.key, id |-> x.id, hash |-> x.hash]
               Member(x) == [key |-> x.key, id |-> x.id,
                             hash |-> [legacy |-> FALSE, prints |-> x.hash.prints]]
    <3>1. \A x \in infos : Named(x) = Member(x)
      BY <2>1
    <3>2. /\ ShardName(n, infos) = [number |-> n, members |-> { Named(x) : x \in infos }]
          /\ FileOf(n, infos, FALSE) = [number |-> n, members |-> { Member(x) : x \in infos }]
      BY DEF ShardName, FileOf
    <3> HIDE DEF Named, Member
    <3>3. QED
      BY <3>1, <3>2
  <2>3. \A x \in infos : x.key \in Keys /\ x.id \in Nat /\ x.hash \in HashType
    BY <1>4, InfoTypes
  <2>4. { [key |-> x.key, id |-> x.id, hash |-> x.hash] : x \in infos }
          \in SUBSET [key: Keys, id: Nat, hash: HashType]
    BY <2>3
  <2>5. QED
    BY <1>2, <2>2, <2>4 DEF ShardName, ShardFile
<1>7. QED
  BY <1>4, <1>6 DEF infos, n

\* A rebuilt shard holds what its manifest lists, the others what they held.
LEMMA ShardDoneKeepsFInv ==
    ASSUME Known, pc \in {"shards", "fill"}, todo # {}, ShardDone,
           UNCHANGED <<current, generations, rollback, overlooked>>,
           shards' \subseteq ShardFile, temps' \subseteq ShardFile,
           \A r \in KeptInfos : Readable(opened, r)
    PROVE  FInv'
<1> DEFINE n == NextShard
           infos == GroupInfos(Group)
           m == WithShard(infos)
           rest == target.resources \ KeptInfos
<1>1. /\ target' = m /\ todo' = todo \ {n} /\ pc' = "shards"
      /\ UNCHANGED <<session, opened, changes, collector, reader>>
  BY DEF ShardDone
<1>2. n \in todo /\ n \in Numbers
  BY KeptIsOfBase
<1>3. target \in Manifest
  BY DEF Known, FInv, TargetHoldsShards
<1>4. /\ infos \subseteq ResourceInfo
      /\ \A x \in infos : ShardOf[x.key] = n
  BY RebuiltFile
<1> HIDE DEF infos, n
<1>5. /\ m = [profile |-> target.profile, resources |-> rest \union infos,
              files |-> [target.files EXCEPT ![n] = ShardName(n, infos)]]
      /\ \A r : r \in KeptInfos <=> r \in target.resources /\ ShardOf[r.key] = n
  BY DEF WithShard, KeptInfos, n
<1> HIDE DEF m, rest
<1>6. ShardName(n, infos) = FileOf(n, infos, FALSE) /\ ShardName(n, infos) \in ShardFile
  BY RebuiltFile DEF infos, n
<1>7. m \in Manifest
  <2>1. target.resources \subseteq ResourceInfo /\ target.profile \in BOOLEAN
        /\ target.files \in [Numbers -> ShardFile]
    BY <1>3 DEF Manifest
  <2>2. rest \union infos \in SUBSET ResourceInfo
    BY <1>4, <2>1 DEF rest
  <2>3. [target.files EXCEPT ![n] = ShardName(n, infos)] \in [Numbers -> ShardFile]
    BY <1>6, <2>1
  <2>4. QED
    BY <1>5, <2>1, <2>2, <2>3 DEF Manifest
<1>8. ASSUME NEW k \in Numbers \ todo' PROVE HoldsShard(m, k)
  <2>1. CASE k = n
    <3>1. InShard(m, n) = infos
      BY <1>4, <1>5 DEF InShard, rest
    <3>2. m.files[n] = FileOf(n, infos, FALSE)
      BY <1>2, <1>3, <1>5, <1>6 DEF Manifest
    <3>3. QED
      BY <2>1, <3>1, <3>2 DEF HoldsShard
  <2>2. CASE k # n
    <3>1. InShard(m, k) = InShard(target, k)
      BY <1>4, <1>5, <2>2 DEF InShard, rest
    <3>2. m.files[k] = target.files[k]
      BY <1>3, <1>5, <2>2 DEF Manifest
    <3>3. HoldsShard(target, k)
      BY <1>1, <2>2 DEF Known, FInv, TargetHoldsShards
    <3>4. QED
      BY <3>1, <3>2, <3>3 DEF HoldsShard
  <2>3. QED
    BY <2>1, <2>2
<1>9. GenerationsAreWhole'
  BY DEF Known, FInv, GenerationsAreWhole
<1>10. TypeOK'
  BY <1>1, <1>7 DEF Known, FInv, TypeOK, session, collector
<1>11. TargetHoldsShards'
  BY <1>1, <1>7, <1>8 DEF TargetHoldsShards
<1>12. QED
  BY <1>9, <1>10, <1>11 DEF FInv

\* A shard whose file is already there is done at once.
LEMMA WriteShardKeepsFInv ==
    ASSUME Known, WriteShard
    PROVE  FInv'
<1>1. CASE Answer("internal") \/ Answer("already_exists")
  BY <1>1, AnswerKeepsFInv
<1>2. CASE (\A r \in KeptInfos : Readable(opened, r)) /\ ShardDone /\ UNCHANGED disk
  <2>1. /\ pc \in {"shards", "fill"} /\ todo # {}
        /\ UNCHANGED <<current, generations, rollback, overlooked, shards, temps>>
    BY <1>2 DEF WriteShard, disk
  <2>2. shards' \subseteq ShardFile /\ temps' \subseteq ShardFile
    BY <2>1 DEF Known, FInv, TypeOK
  <2>3. QED
    BY <1>2, <2>1, <2>2, ShardDoneKeepsFInv
<1>3. CASE /\ \A r \in KeptInfos : Readable(opened, r)
           /\ temps' = temps \union {ShardName(NextShard, GroupInfos(Group))}
           /\ pc' = "fill"
           /\ UNCHANGED <<current, generations, shards, rollback, overlooked, session, plan,
                          collector, reader>>
  <2>1. pc = "shards" /\ todo # {}
    BY DEF WriteShard
  <2>2. temps' \subseteq ShardFile
    BY <1>3, <2>1, RebuiltFile DEF Known, FInv, TypeOK
  <2>3. TypeOK'
    BY <1>3, <2>2 DEF Known, FInv, TypeOK, session, plan, collector
  <2>4. TargetHoldsShards'
    BY <1>3, <2>1 DEF Known, FInv, TargetHoldsShards, plan
  <2>5. GenerationsAreWhole'
    BY <1>3 DEF Known, FInv, GenerationsAreWhole
  <2>6. QED
    BY <2>3, <2>4, <2>5 DEF FInv
<1>4. QED
  BY <1>1, <1>2, <1>3 DEF WriteShard

\* A file that is filled belongs to a shard that is done.
LEMMA FillShardKeepsFInv ==
    ASSUME Known, FillShard
    PROVE  FInv'
<1>1. todo # {} /\ pc = "fill"
  BY DEF Known, IInv, TargetIsOnDisk, FillShard
<1>2. \A r \in KeptInfos : Readable(opened, r)
  BY <1>1, RebuildingIsDue DEF Known, TargetIsDue
<1>3. ShardName(NextShard, GroupInfos(Group)) \in ShardFile
  BY <1>1, <1>2, RebuiltFile
<1>4. shards' \subseteq ShardFile /\ temps' \subseteq ShardFile
  BY <1>3 DEF FillShard, Known, FInv, TypeOK
<1>5. ShardDone /\ UNCHANGED <<current, generations, rollback, overlooked>>
  BY DEF FillShard
<1>6. QED
  BY <1>1, <1>2, <1>4, <1>5, ShardDoneKeepsFInv

\* When none is left to rebuild, every file holds what is listed.
LEMMA ShardsDoneKeepsFInv ==
    ASSUME Known, ShardsDone
    PROVE  FInv'
<1>1. /\ pc = "shards" /\ pc' = "publish" /\ todo = {}
      /\ UNCHANGED <<disk, session, plan, collector, reader>>
  BY DEF ShardsDone
<1>2. TypeOK'
  BY <1>1 DEF Known, FInv, TypeOK, disk, session, plan, collector
<1>3. TargetHoldsShards'
  BY <1>1 DEF Known, FInv, TargetHoldsShards, plan
<1>4. GenerationsAreWhole'
  BY <1>1 DEF Known, FInv, GenerationsAreWhole, disk
<1>5. QED
  BY <1>2, <1>3, <1>4 DEF FInv

-----------------------------------------------------------------------------
(* Publishing.                                                             *)

\* The manifest that gets a name holds what it lists.
LEMMA TargetIsWhole ==
    ASSUME Known, PrintsAreInTime, pc \in {"publish", "rename"}
    PROVE  IsFine(target) /\ AreResources(target.resources) /\ IsWhole(target)
<1>1. Sound /\ AreInTime(Base.resources) /\ AreResources(target.resources)
  BY KnownIsSound, BaseIsWhole DEF IsWhole, Known, RInv, TargetHasResources
<1>2. \/ (IngestIsAccepted \/ RetireIsAccepted) /\ TargetIsDue /\ todo = {}
      \/ RehashIsAccepted \/ DurationsAreAccepted
  BY DEF Known, CInv, RequestIsAccepted, TargetIsDue
<1>3. IsFine(target)
  BY <1>1, <1>2, DueIsFine, RehashedIsFine, DurationsAreFine
<1>4. AreInTime(target.resources)
  <2>1. CASE (IngestIsAccepted \/ RetireIsAccepted) /\ TargetIsDue
    BY <2>1, DueIsInTime
  <2>2. ASSUME \A q \in target.resources : \E r \in Base.resources : q.hash.prints = r.hash.prints
        PROVE  AreInTime(target.resources)
    BY <1>1, <2>2 DEF AreInTime
  <2>3. CASE RehashIsAccepted
    <3> DEFINE New(r) == [key |-> r.key, id |-> r.id, duration |-> r.duration,
                          hash |-> ContentHash(r.hash.prints), forward_start |-> r.forward_start]
    <3>1. target.resources = { New(r) : r \in Base.resources }
      BY <1>1, <2>3, RehashedResources DEF RehashIsAccepted
    <3>2. \A r : New(r).hash.prints = r.hash.prints
      BY DEF ContentHash
    <3> HIDE DEF New
    <3>3. \A q \in target.resources : \E r \in Base.resources : q.hash.prints = r.hash.prints
      BY <3>1, <3>2
    <3>4. QED
      BY <2>2, <3>3
  <2>4. CASE DurationsAreAccepted
    <3> DEFINE New(r, u) == [key |-> r.key, id |-> r.id, duration |-> u.duration,
                             hash |-> r.hash, forward_start |-> r.forward_start]
    <3>1. \A q \in target.resources : \E r \in Base.resources, u \in request.updates : q = New(r, u)
      BY <1>1, <2>4, DurationResources DEF DurationsAreAccepted
    <3>2. \A r, u : New(r, u).hash.prints = r.hash.prints
      OBVIOUS
    <3> HIDE DEF New
    <3>3. \A q \in target.resources : \E r \in Base.resources : q.hash.prints = r.hash.prints
      BY <3>1, <3>2
    <3>4. QED
      BY <2>2, <3>3
  <2>5. QED
    BY <1>2, <2>1, <2>3, <2>4
<1>5. target \in Manifest /\ \A n \in Numbers : HoldsShard(target, n)
  BY DEF Known, FInv, TargetHoldsShards
<1>6. target.profile \in BOOLEAN /\ target.resources \subseteq ResourceInfo
  BY <1>5 DEF Manifest
<1>7. QED
  BY <1>1, <1>3, <1>4, <1>5, <1>6 DEF IsFine, IsWhole

\* The target becomes a generation as whole as the others.
LEMMA WriteManifestKeepsFInv ==
    ASSUME Known, PrintsAreInTime, WriteManifest
    PROVE  FInv'
<1>1. /\ pc = "publish" /\ pc' = "rename" /\ previous' \in {current, None}
      /\ generations' = [g \in DOMAIN generations \union {Name(target)} |->
                           IF g = Name(target) THEN target ELSE generations[g]]
      /\ UNCHANGED <<current, shards, temps, rollback, overlooked, session, plan, retained,
                     reader>>
  BY DEF WriteManifest
<1>2. IsWhole(target) /\ Name(target) \in Names /\ target \in Manifest
  BY <1>1, TargetIsWhole, NameIsAName DEF Known, FInv, TargetHoldsShards
<1>3. GenerationsAreWhole'
  BY <1>1, <1>2 DEF Known, FInv, GenerationsAreWhole
<1>4. TypeOK'
  <2>1. /\ DOMAIN generations' \subseteq Names
        /\ \A g \in DOMAIN generations' : generations'[g] \in Manifest
    BY <1>1, <1>2 DEF Known, FInv, TypeOK
  <2>2. QED
    BY <1>1, <2>1 DEF Known, FInv, TypeOK, session, plan
<1>5. TargetHoldsShards'
  BY <1>1 DEF Known, FInv, TargetHoldsShards, plan
<1>6. QED
  BY <1>3, <1>4, <1>5 DEF FInv

\* CURRENT's rename touches no file.
LEMMA RenameCurrentKeepsFInv ==
    ASSUME Known, PrintsAreInTime, RenameCurrent
    PROVE  FInv'
<1>1. /\ pc = "rename" /\ pc' = "sync" /\ current' = Name(target) /\ rollback' = current
      /\ overlooked' \subseteq {current} \ {None}
      /\ reader' = [reader EXCEPT !.age = IF @ < 2 THEN @ + 1 ELSE @]
      /\ UNCHANGED <<generations, shards, temps, session, plan, collector>>
  BY DEF RenameCurrent
<1>2. Name(target) \in Names
  BY <1>1, TargetIsWhole, NameIsAName
<1>3. reader'.pc = reader.pc /\ reader'.next = reader.next /\ reader'.age \in 0 .. 2
  BY <1>1 DEF Known, RInv, ReaderIsKnown
<1>4. TypeOK'
  BY <1>1, <1>2, <1>3 DEF Known, FInv, TypeOK, session, plan, collector
<1>5. GenerationsAreWhole'
  BY <1>1 DEF Known, FInv, GenerationsAreWhole
<1>6. TargetHoldsShards'
  BY <1>1 DEF TargetHoldsShards
<1>7. QED
  BY <1>4, <1>5, <1>6 DEF FInv

\* The collector takes generations and files away and changes none.
LEMMA CollectorKeepsFInv ==
    ASSUME Known, CollectRoots \/ CollectGenerations \/ CollectShards
    PROVE  FInv'
<1>1. /\ pc' \in {"gc_generations", "gc_shards", "reopen"}
      /\ overlooked' \subseteq overlooked \union DOMAIN generations
      /\ UNCHANGED <<current, rollback, session, plan, previous, reader>>
  BY DEF CollectRoots, CollectGenerations, CollectShards, disk, collector
<1>2. /\ DOMAIN generations' \subseteq DOMAIN generations
      /\ \A g \in DOMAIN generations' : generations'[g] = generations[g]
  BY DEF CollectRoots, CollectGenerations, CollectShards, disk
<1>3. retained' \subseteq ShardFile
  <2>1. CASE CollectRoots
    <3>1. \A g \in DOMAIN generations, n \in Numbers : generations[g].files[n] \in ShardFile
      BY DEF Known, FInv, TypeOK, Manifest
    <3>2. QED
      BY <2>1, <3>1 DEF CollectRoots
  <2>2. CASE CollectGenerations \/ CollectShards
    BY <2>2 DEF CollectGenerations, CollectShards, collector, Known, FInv, TypeOK
  <2>3. QED
    BY <2>1, <2>2
<1>4. shards' \subseteq shards /\ temps' \subseteq temps
  BY DEF CollectRoots, CollectGenerations, CollectShards, disk
<1>5. TypeOK'
  BY <1>1, <1>2, <1>3, <1>4 DEF Known, FInv, TypeOK, session, plan
<1>6. GenerationsAreWhole'
  BY <1>2 DEF Known, FInv, GenerationsAreWhole
<1>7. TargetHoldsShards'
  BY <1>1 DEF TargetHoldsShards
<1>8. QED
  BY <1>5, <1>6, <1>7 DEF FInv

\* A request that arrives finds the files as they are.
LEMMA SubmitKeepsFInv ==
    ASSUME Known, Submit
    PROVE  FInv'
<1>1. requests' \in 0 .. MaxRequests
  BY LimitsAssumption DEF Submit, Known, FInv, TypeOK
<1>2. TypeOK'
  BY <1>1 DEF Submit, disk, plan, collector, Known, FInv, TypeOK
<1>3. GenerationsAreWhole'
  BY DEF Submit, disk, Known, FInv, GenerationsAreWhole
<1>4. TargetHoldsShards'
  BY DEF Submit, TargetHoldsShards
<1>5. QED
  BY <1>2, <1>3, <1>4 DEF FInv

\* An error or a kill leaves them so.
LEMMA StopKeepsFInv ==
    ASSUME Known, Stop
    PROVE  FInv'
<1>1. Answer(reply') /\ reply' \in {"internal", "none"}
  BY DEF Stop, Answer
<1>2. QED
  BY <1>1, AnswerKeepsFInv

\* A reader only looks.
LEMMA ReaderKeepsFInv ==
    ASSUME Known, ReaderStep
    PROVE  FInv'
<1>1. UNCHANGED <<disk, writer>>
  BY DEF ReaderStep, ReadCurrent, ReadManifest, OpenShard, ReaderDone
<1>2. /\ reader.age \in 0 .. 2 /\ reader.next \in Numbers
      /\ reader = [pc |-> reader.pc, name |-> reader.name, manifest |-> reader.manifest,
                   next |-> reader.next, age |-> reader.age]
  BY DEF Known, RInv, ReaderIsKnown, FInv, TypeOK
<1>3. 0 \in Numbers /\ \A n \in Numbers : n # ShardCount - 1 => n + 1 \in Numbers
  BY ShardCountAssumption DEF Numbers
<1>4. /\ reader'.pc \in {"idle", "manifest", "shards", "open", "failed"}
      /\ reader'.next \in Numbers /\ reader'.age \in 0 .. 2
  <2>1. CASE ReadCurrent
    <3>1. reader' = [pc |-> "manifest", name |-> current, manifest |-> None, next |-> 0, age |-> 0]
      BY <2>1 DEF ReadCurrent, ClosedReader
    <3>2. QED
      BY <1>3, <3>1
  <2>2. CASE ReaderDone
    BY <1>3, <2>2 DEF ReaderDone, ClosedReader
  <2>3. CASE ReadManifest
    BY <1>2, <2>3 DEF ReadManifest
  <2>4. CASE OpenShard
    BY <1>2, <1>3, <2>4 DEF OpenShard
  <2>5. QED
    BY <2>1, <2>2, <2>3, <2>4 DEF ReaderStep
<1>5. TypeOK'
  BY <1>1, <1>4 DEF Known, FInv, TypeOK, disk, writer, session, plan, collector
<1>6. GenerationsAreWhole'
  BY <1>1 DEF Known, FInv, GenerationsAreWhole, disk
<1>7. TargetHoldsShards'
  BY <1>1 DEF Known, FInv, TargetHoldsShards, writer, plan
<1>8. QED
  BY <1>5, <1>6, <1>7 DEF FInv

\* Every step keeps the invariant.
LEMMA NextKeepsFInv == PrintsAreInTime /\ Known /\ [Next]_vars => FInv'
<1> SUFFICES ASSUME PrintsAreInTime, Known, [Next]_vars PROVE FInv'
  OBVIOUS
<1>1. CASE Ingest \/ Retire \/ Rehash \/ SetDurations
  BY <1>1, RequestsKeepFInv
<1>2. CASE WriteShard \/ FillShard \/ ShardsDone
  BY <1>2, WriteShardKeepsFInv, FillShardKeepsFInv, ShardsDoneKeepsFInv
<1>3. CASE WriteManifest \/ RenameCurrent
  BY <1>3, WriteManifestKeepsFInv, RenameCurrentKeepsFInv
<1>4. CASE CollectRoots \/ CollectGenerations \/ CollectShards
  BY <1>4, CollectorKeepsFInv
<1>5. CASE Submit \/ Stop \/ ReaderStep
  BY <1>5, SubmitKeepsFInv, StopKeepsFInv, ReaderKeepsFInv
<1>6. CASE Reopen
  <2>1. Answer("ok") \/ Answer("internal")
    BY <1>6 DEF Reopen
  <2>2. QED
    BY <2>1, AnswerKeepsFInv
<1>7. CASE UNCHANGED vars
  BY <1>7 DEF vars, disk, writer, session, plan, collector, Known, FInv, TypeOK,
     GenerationsAreWhole, TargetHoldsShards
<1>8. QED
  BY <1>1, <1>2, <1>3, <1>4, <1>5, <1>6, <1>7 DEF Next, WriterStep

-----------------------------------------------------------------------------
(* The initial stores.                                                     *)

\* The files of an older version's store hold what its manifest lists.
LEMMA LegacyIsWhole ==
    ASSUME PrintsAreInTime, NEW batch \in Batches, batch # {}, ~HasDuplicates(batch)
    PROVE  IsWhole(LegacyManifest(batch)) /\ IsManifest(LegacyManifest(batch))
<1> DEFINE m == LegacyManifest(batch)
           Listed(n) == LegacyInfos(batch, n)
<1>1. m = [profile |-> FALSE,
           resources |-> UNION { Listed(n) : n \in Numbers },
           files |-> [n \in Numbers |-> ShardName(n, Listed(n))]]
  BY LegacyShards
<1>2. /\ IngestChanges(EmptyManifest, batch) \subseteq GroupMember
      /\ IsFiniteSet(IngestChanges(EmptyManifest, batch))
      /\ \A c \in IngestChanges(EmptyManifest, batch) :
            \A i \in 1 .. Len(c.prints) : c.prints[i].t < MaxTime
  <2>1. EmptyManifest.resources = {}
    BY DEF EmptyManifest
  <2>2. /\ IsFiniteSet(EmptyManifest.resources) /\ HasUniqueIds(EmptyManifest.resources)
        /\ AreResources(EmptyManifest.resources) /\ \A r \in EmptyManifest.resources : r.id \in Nat
    BY <2>1, FS_EmptySet DEF HasUniqueIds, AreResources, HasUniqueKeys
  <2>3. QED
    BY <2>2, ChangesAreMembers
<1>3. ASSUME NEW n \in Numbers, NEW x \in Listed(n)
      PROVE  /\ x \in ResourceInfo /\ ShardOf[x.key] = n
             /\ x.hash = [legacy |-> TRUE, prints |-> x.hash.prints]
             /\ \A i \in 1 .. Len(x.hash.prints) : x.hash.prints[i].t < MaxTime
  <2> DEFINE group == LegacyMembers(batch, n)
  <2>1. PICK c \in group : x = LegacyInfo(batch, n, c)
    BY <1>3 DEF LegacyInfos
  <2>2. group \subseteq GroupMember /\ IsFiniteSet(group) /\ ShardOf[c.key] = n
    <3>1. group \in SUBSET IngestChanges(EmptyManifest, batch) /\ ShardOf[c.key] = n
      BY DEF LegacyMembers
    <3>2. QED
      BY <1>2, <3>1, FS_Subset
  <2>3. /\ x.key = c.key /\ x.id = c.id /\ x.duration = c.duration
        /\ x.hash = [legacy |-> TRUE, prints |-> c.prints]
        /\ x.forward_start = ForwardStart(group, c)
        /\ x = [key |-> x.key, id |-> x.id, duration |-> x.duration, hash |-> x.hash,
                forward_start |-> x.forward_start]
    BY <2>1 DEF LegacyInfo
  <2>4. ForwardStart(group, c) \in Nat
    <3> DEFINE info == [key |-> c.key, id |-> c.id, duration |-> c.duration,
                        hash |-> ContentHash(c.prints), forward_start |-> ForwardStart(group, c)]
    <3>1. info \in GroupInfos(group)
      BY DEF GroupInfos
    <3>2. info \in ResourceInfo
      BY <2>2, <3>1, GroupInfosAreTyped
    <3>3. info.forward_start = ForwardStart(group, c)
      OBVIOUS
    <3> HIDE DEF info
    <3>4. QED
      BY <3>2, <3>3, InfoTypes
  <2>5. c.key \in Keys /\ c.id \in Nat /\ c.duration \in Nat /\ c.prints \in Seq(Fingerprint)
    BY <2>2 DEF GroupMember
  <2>6. x.hash \in HashType
    BY <2>3, <2>5 DEF HashType
  <2>7. x \in ResourceInfo
    BY <2>3, <2>4, <2>5, <2>6 DEF ResourceInfo
  <2>8. x.hash.prints = c.prints /\ \A i \in 1 .. Len(c.prints) : c.prints[i].t < MaxTime
    BY <1>2, <2>3 DEF LegacyMembers
  <2>9. QED
    BY <2>2, <2>3, <2>7, <2>8
<1> HIDE DEF m, Listed
<1>4. /\ m.profile \in BOOLEAN
      /\ m.resources \subseteq ResourceInfo
      /\ AreInTime(m.resources)
  <2>1. m.profile = FALSE /\ m.resources = UNION { Listed(n) : n \in Numbers }
    BY <1>1
  <2>2. \A r \in m.resources : \E n \in Numbers : r \in Listed(n)
    BY <2>1
  <2>3. QED
    BY <2>1, <2>2, <1>3 DEF AreInTime
<1>5. ASSUME NEW n \in Numbers PROVE HoldsShard(m, n)
  <2>1. InShard(m, n) = Listed(n)
    <3>1. m.resources = UNION { Listed(k) : k \in Numbers }
      BY <1>1
    <3>2. \A r \in m.resources : \E k \in Numbers : r \in Listed(k)
      BY <3>1
    <3>3. \A r \in Listed(n) : r \in m.resources
      BY <3>1
    <3>4. \A r : r \in InShard(m, n) <=> r \in Listed(n)
      BY <1>3, <3>2, <3>3 DEF InShard
    <3>5. QED
      BY <3>4 DEF InShard
  <2>2. ShardName(n, Listed(n)) = FileOf(n, Listed(n), TRUE)
    <3> DEFINE Named(x) == [key |-> x.key, id |-> x.id, hash |-> x.hash]
               Member(x) == [key |-> x.key, id |-> x.id,
                             hash |-> [legacy |-> TRUE, prints |-> x.hash.prints]]
    <3>1. \A x \in Listed(n) : Named(x) = Member(x)
      BY <1>3
    <3>2. /\ ShardName(n, Listed(n)) = [number |-> n, members |-> { Named(x) : x \in Listed(n) }]
          /\ FileOf(n, Listed(n), TRUE) = [number |-> n, members |-> { Member(x) : x \in Listed(n) }]
      BY DEF ShardName, FileOf
    <3> HIDE DEF Named, Member
    <3>3. QED
      BY <3>1, <3>2
  <2>3. m.files[n] = ShardName(n, Listed(n))
    BY <1>1
  <2>4. QED
    BY <2>1, <2>2, <2>3 DEF HoldsShard
<1>6. IsFiniteSet(m.resources) /\ HasUniqueIds(m.resources)
  BY LegacyIsFine DEF IsFine, m
<1>7. IsManifest(m)
  BY <1>1 DEF IsManifest
<1>8. QED
  BY <1>4, <1>5, <1>6, <1>7 DEF IsWhole, m

\* No store, or one of an older version.
LEMMA InitFInv == PrintsAreInTime /\ Init => FInv
<1> SUFFICES ASSUME PrintsAreInTime, Init PROVE FInv
  OBVIOUS
<1>1. /\ current \in Names \union {None}
      /\ DOMAIN generations \subseteq Names
      /\ \A g \in DOMAIN generations : generations[g] \in Manifest /\ IsWhole(generations[g])
      /\ shards \subseteq ShardFile
  <2>1. CASE current = None /\ generations = [g \in {} |-> None] /\ shards = {}
    BY <2>1
  <2>2. CASE \E batch \in Batches :
                batch # {} /\ ~HasDuplicates(batch) /\ Holds(LegacyManifest(batch))
    <3> PICK batch \in Batches :
            batch # {} /\ ~HasDuplicates(batch) /\ Holds(LegacyManifest(batch))
      BY <2>2
    <3> DEFINE m == LegacyManifest(batch)
    <3>1. IsFine(m) /\ AreResources(m.resources) /\ IsWhole(m) /\ IsManifest(m)
      BY LegacyIsFine, LegacyHasResources, LegacyIsWhole
    <3>2. /\ current = Name(m) /\ generations = [g \in {Name(m)} |-> m]
          /\ shards = { m.files[n] : n \in Numbers }
      BY DEF Holds
    <3> HIDE DEF m
    <3>3. Name(m) \in Names /\ m \in Manifest
      BY <3>1, NameIsAName, WholeIsManifest
    <3>4. \A n \in Numbers : m.files[n] \in ShardFile
      BY <3>3 DEF Manifest
    <3>5. QED
      BY <3>1, <3>2, <3>3, <3>4
  <2>3. QED
    BY <2>1, <2>2 DEF Init
<1>2. TypeOK
  <2>1. 0 \in Numbers /\ {0, 1} \subseteq 0 .. MaxRequests
    BY ShardCountAssumption, LimitsAssumption DEF Numbers
  <2>2. /\ temps = {} /\ rollback = None /\ overlooked = {} /\ pc = "idle" /\ opened = None /\ changes = {}
        /\ target = None /\ todo = {} /\ previous = None /\ retained = {} /\ reply = "none"
        /\ requests \in {0, 1}
    BY DEF Init
  <2>3. reader.pc = "idle" /\ reader.next = 0 /\ reader.age = 0
    BY DEF Init, ClosedReader
  <2>4. QED
    BY <1>1, <2>1, <2>2, <2>3 DEF TypeOK
<1>3. GenerationsAreWhole
  BY <1>1 DEF GenerationsAreWhole
<1>4. TargetHoldsShards
  BY DEF Init, TargetHoldsShards
<1>5. QED
  BY <1>2, <1>3, <1>4 DEF FInv

-----------------------------------------------------------------------------
(* The theorems.                                                           *)

\* The hypothesis of StoreProofs, that forward reads right, is kept by the
\* steps that it is needed for: all invariants together are inductive.
THEOREM ContentInvariant ==
    ASSUME PrintsAreInTime
    PROVE  Spec => []Known
<1>1. Init => Known
  BY InitIInv, InitRInv, InitHolds, InitFInv DEF Known
<1>2. Known /\ [Next]_vars => Known'
  <2> SUFFICES ASSUME Known, [Next]_vars PROVE Known'
    OBVIOUS
  <2>1. Sound
    BY KnownIsSound
  <2>2. IInv' /\ RInv' /\ CInv'
    BY <2>1, NextKeepsIInv, NextKeepsRInv, NextKeepsCInv DEF Sound
  <2>3. FInv'
    BY NextKeepsFInv
  <2>4. QED
    BY <2>2, <2>3 DEF Known
<1>3. QED
  BY <1>1, <1>2, PTL DEF Spec

\* Every variable of the store root, the writer and the reader keeps its type.
THEOREM StoreIsTyped ==
    ASSUME PrintsAreInTime
    PROVE  Spec => []TypeOK
<1>1. Known => TypeOK
  BY DEF Known, FInv
<1>2. Spec => []Known
  BY ContentInvariant
<1>3. QED
  BY <1>1, <1>2, PTL

\* Shard::forward, where it does not refuse the range that the manifest
\* records, returns the resource's own prints, through every replacement,
\* retirement, reuse of ids and reuse of files.
THEOREM ForwardReadsBack ==
    ASSUME PrintsAreInTime
    PROVE  Spec => []ForwardNeverLies
<1>1. Known => ForwardNeverLies
  BY KnownIsSound DEF Sound
<1>2. Spec => []Known
  BY ContentInvariant
<1>3. QED
  BY <1>1, <1>2, PTL

\* Store::lookup finds the postings near the probe of exactly the resources
\* that the published manifest lists, each under its own key.
THEOREM LookupStaysExact ==
    ASSUME PrintsAreInTime
    PROVE  Spec => []LookupIsExact
<1>1. Known => LookupIsExact
  <2> SUFFICES ASSUME Known, current # None,
                      NEW probe \in HashesOf(UNION { generations[g].resources :
                                                         g \in DOMAIN generations })
               PROVE  Lookup(generations[current], probe) =
                        UNION { Near(r, probe) : r \in generations[current].resources }
    BY DEF LookupIsExact
  <2>1. PICK g \in DOMAIN generations :
          \E r \in generations[g].resources :
            \E i \in 1 .. Postings(r) : probe = r.hash.prints[i].hash
    BY DEF HashesOf
  <2>2. PICK r \in generations[g].resources :
          \E i \in 1 .. Postings(r) : probe = r.hash.prints[i].hash
    BY <2>1
  <2>3. PICK i \in 1 .. Postings(r) : probe = r.hash.prints[i].hash
    BY <2>2
  <2>4. r.hash.prints \in Seq(Fingerprint)
    BY InfoTypes DEF Known, FInv, GenerationsAreWhole, IsWhole
  <2>5. r.hash.prints[i] \in Fingerprint
    BY <2>4, ElementOfSeq DEF Postings
  <2>6. probe \in Nat
    BY <2>3, <2>5 DEF Fingerprint
  <2>7. QED
    BY <2>6, CurrentIsWhole, LookupIsNear
<1>2. Spec => []Known
  BY ContentInvariant
<1>3. QED
  BY <1>1, <1>2, PTL

\* A reader that has read CURRENT without a lock is not broken by one
\* publication and its collection, unless the collection could not read the
\* manifest of the reader's generation; nothing is assumed of what forward reads.
THEOREM ReadersSurvive ==
    ASSUME PrintsAreInTime
    PROVE  Spec => []ReaderSurvivesOnePublication
BY ForwardReadsBack, ReadersSurviveOnePublication, PTL

\* The store implements the catalog, with nothing assumed of what forward reads.
THEOREM StoreImplementsCatalog ==
    ASSUME PrintsAreInTime
    PROVE  Spec => ImplementsCatalog
BY ForwardReadsBack, CatalogIsImplemented, PTL
=============================================================================
