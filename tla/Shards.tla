------------------------------- MODULE Shards -------------------------------
(***************************************************************************)
(* The data plane of core/src/store.rs: what write_shard puts into one     *)
(* shard file and what Shard::forward and Shard::lookup_range read back.   *)
(*                                                                         *)
(* A caller key is a natural number: the store only compares and hashes    *)
(* keys.  A fingerprint is [t, hash]; its frequency bin f is payload.  The *)
(* SHA-256 digests are injective, so a digest is the value it digests and  *)
(* a content-addressed file name determines the file's bytes.              *)
(***************************************************************************)
EXTENDS Naturals, Sequences, FiniteSets, FiniteSetsExt, Functions

CONSTANTS
    Keys,        \* caller keys, ordered as the source's strings are
    ShardCount,  \* SHARD_COUNT, 64 in the source
    ShardOf,     \* shard_for_key: the digest of a key modulo SHARD_COUNT
    MaxTime      \* u32::MAX, the largest time bin a fingerprint can carry

ASSUME KeysAssumption == Keys \subseteq Nat
ASSUME ShardCountAssumption == ShardCount \in Nat \ {0}
ASSUME ShardOfAssumption == ShardOf \in [Keys -> 0 .. ShardCount - 1]

Numbers == 0 .. ShardCount - 1

Fingerprint == [t: Nat, hash: Nat]

\* fingerprint_content_hash covers the canonical postings only; an endpoint
\* identity written before the prints-v1 profile also covered the duration.
ContentHash(prints) == [legacy |-> FALSE, prints |-> prints]
HashType == [legacy: BOOLEAN, prints: Seq(Fingerprint)]

\* ResourceInfo without what the rest determines: shard is ShardOf[key], and
\* postings, t_min and t_max are the length and ends of the canonical prints.
ResourceInfo == [key: Keys, id: Nat, duration: Nat, hash: HashType, forward_start: Nat]

\* The (id, DumpResource) pairs write_shard is given, prints already canonical.
GroupMember == [key: Keys, id: Nat, duration: Nat, prints: Seq(Fingerprint)]

\* A shard file's name: the shard's number and the digest of its members.
ShardFile == [number: Numbers, members: SUBSET [key: Keys, id: Nat, hash: HashType]]

Postings(info) == Len(info.hash.prints)

-----------------------------------------------------------------------------
(* Writing.  The group arrives in key order, and each member's range starts *)
(* where the postings of the members before it end.                         *)

ForwardStart(group, member) ==
    SumFunctionOnSet([r \in group |-> Len(r.prints)], {r \in group : r.key < member.key})

GroupInfos(group) ==
    { [key |-> r.key, id |-> r.id, duration |-> r.duration,
       hash |-> ContentHash(r.prints),
       forward_start |-> ForwardStart(group, r)] : r \in group }

ShardName(number, infos) ==
    [number |-> number,
     members |-> { [key |-> r.key, id |-> r.id, hash |-> r.hash] : r \in infos }]

-----------------------------------------------------------------------------
(* Reading.  The file keeps its postings sorted by (resource_id, t, hash),  *)
(* so a member's block starts where the blocks of the smaller ids end.      *)

BlockStart(file, member) ==
    SumFunctionOnSet([r \in file.members |-> Len(r.hash.prints)],
                     {r \in file.members : r.id < member.id})

\* The posting at one position of the forward region, as [id, print].
PostingsAt(file, position) ==
    { [id |-> r.id, print |-> r.hash.prints[position - BlockStart(file, r) + 1]] :
        r \in { r \in file.members :
                  /\ BlockStart(file, r) <= position
                  /\ position < BlockStart(file, r) + Len(r.hash.prints) } }

\* Mutation: only the bounds of the range are checked, not whose it is.
InBoundsOnly(file, info) ==
    \A position \in info.forward_start .. info.forward_start + Postings(info) - 1 :
        PostingsAt(file, position) # {}

\* Shard::forward refuses a range outside the region or owned by another id.
ForwardReadable(file, info) ==
    \A position \in info.forward_start .. info.forward_start + Postings(info) - 1 :
        \E posting \in PostingsAt(file, position) : posting.id = info.id

\* Shard::forward on a readable range; no window stands for (0, u32::MAX).
ForwardRange(file, info, from, until) ==
    LET At(i) == (CHOOSE posting \in PostingsAt(file, info.forward_start + i - 1) : TRUE).print
        kept[i \in 0 .. Postings(info)] ==
            IF i = 0 THEN <<>>
            ELSE IF from <= At(i).t /\ At(i).t < until THEN Append(kept[i - 1], At(i))
            ELSE kept[i - 1]
    IN  kept[Postings(info)]

Forward(file, info) == ForwardRange(file, info, 0, MaxTime)

QueryRange == 2

\* Shard::lookup_range: the hits whose hash lies within QUERY_RANGE of a probe.
LookupRange(file, probe) ==
    UNION { { [id |-> r.id, t |-> r.hash.prints[i].t, hash |-> r.hash.prints[i].hash] :
                i \in { i \in 1 .. Len(r.hash.prints) :
                          /\ probe <= r.hash.prints[i].hash + QueryRange
                          /\ r.hash.prints[i].hash <= probe + QueryRange } } :
            r \in file.members }
=============================================================================
