---------------------------- MODULE StoreProofs -----------------------------
(***************************************************************************)
(* The store root under any number of shards, keys, contents and requests: *)
(* what is published can be opened, so can the generation it replaced, as  *)
(* long as the writer could read their manifests and CURRENT; nothing else *)
(* is left on disk after a publication; a reader that holds no lock        *)
(* survives one; and Store implements Catalog.                             *)
(*                                                                         *)
(* The first invariant, IInv, follows the files of the manifest in         *)
(* preparation from the moment they are written, through the manifest's    *)
(* rename and CURRENT's, to the two passes of the collector, which must    *)
(* not lose them.  What the files hold plays no part: names are only       *)
(* compared.  The second, RInv, is about the reader.                       *)
(*                                                                         *)
(* Only the rename of CURRENT changes what the catalog shows.  So the      *)
(* proof of the refinement must know, at that step, that the manifest just *)
(* written is what the request promised of the catalog it started from.    *)
(* CInv carries this through the shards: every resource that the target    *)
(* lists is one of the old manifest or one of the changes, and none is     *)
(* lost whose shard has been done (TargetIsDue); the request met the       *)
(* promised guard (RequestIsAccepted); the manifest lies under its name    *)
(* (ManifestIsWritten).  Members read back with forward are what was       *)
(* stored only where forward reads right, the hypothesis ForwardNeverLies. *)
(* The steps before the rename and after it stutter, answer or fail.       *)
(***************************************************************************)
EXTENDS Store, SharedLemmas, FiniteSetTheorems, TLAPS

\* A manifest as a record, whatever its resources are.
IsManifest(m) ==
    m = [profile |-> m.profile, resources |-> m.resources, files |-> [n \in Numbers |-> m.files[n]]]

FilesOf(m) == { m.files[n] : n \in Numbers }

GenerationsAreManifests ==
    /\ generations = [g \in DOMAIN generations |-> generations[g]]
    /\ \A g \in DOMAIN generations : IsManifest(generations[g])

\* The manifest in preparation, and how many of its files are already there.
TargetIsOnDisk ==
    /\ pc \in {"shards", "fill", "publish", "rename", "sync", "gc_generations", "gc_shards"} =>
         IsManifest(target)
    /\ pc \in {"shards", "fill"} => \A n \in Numbers \ todo : target.files[n] \in shards
    /\ pc = "fill" => todo # {}
    /\ pc = "publish" => FilesOf(target) \subseteq shards

\* Between the manifest's rename and CURRENT's.
TargetIsNamed ==
    pc = "rename" => Complete(Name(target)) /\ previous \in {current, None}

\* A request that publishes has opened what is published.
StartIsComplete ==
    pc \in {"shards", "fill", "publish", "rename"} /\ current # None => Complete(current)

\* After CURRENT's rename.
TargetIsCurrent ==
    pc \in {"sync", "gc_generations", "gc_shards"} =>
        /\ current = Name(target)
        /\ previous \in {rollback, None}
        /\ rollback \notin overlooked => previous = rollback

\* The collector keeps files of the retained generations only, and all of
\* those whose manifest it could read.
RootsAreKnown ==
    /\ pc \in {"gc_generations", "gc_shards"} =>
         /\ retained \subseteq
              UNION { FilesOf(generations[g]) : g \in Retained \cap DOMAIN generations }
         /\ \A g \in Retained \ overlooked : FilesOf(generations[g]) \subseteq retained
    /\ pc = "gc_shards" => DOMAIN generations \subseteq Retained

\* The manifest that CURRENT names is never collected, its shards may be.
PublishedIsListed == current # None => current \in DOMAIN generations

IInv ==
    /\ GenerationsAreManifests
    /\ TargetIsOnDisk
    /\ TargetIsNamed
    /\ StartIsComplete
    /\ TargetIsCurrent
    /\ RootsAreKnown
    /\ PublishedIsListed
    /\ PublishedIsComplete
    /\ RollbackIsComplete
    /\ DiskIsBounded
-----------------------------------------------------------------------------
\* No file exists before the first publication, or those of a legacy store do.
LEMMA InitIInv == Init => IInv
<1> SUFFICES ASSUME Init PROVE IInv
  OBVIOUS
<1>1. pc = "idle" /\ rollback = None /\ overlooked = {}
  BY DEF Init
<1>2. /\ generations = [g \in DOMAIN generations |-> generations[g]]
      /\ \A g \in DOMAIN generations : IsManifest(generations[g])
      /\ current # None => Complete(current) /\ current \in DOMAIN generations
  <2>1. CASE current = None /\ generations = [g \in {} |-> None]
    BY <2>1
  <2>2. CASE \E batch \in Batches : Holds(LegacyManifest(batch))
    <3> PICK batch \in Batches : Holds(LegacyManifest(batch))
      BY <2>2
    <3> DEFINE m == LegacyManifest(batch)
    <3>1. IsManifest(m)
      BY DEF IsManifest, LegacyManifest
    <3>2. QED
      BY <3>1 DEF Holds, Complete
  <2>3. QED
    BY <2>1, <2>2 DEF Init
<1>3. QED
  BY <1>1, <1>2 DEF IInv, GenerationsAreManifests, TargetIsOnDisk, TargetIsNamed,
     TargetIsCurrent, StartIsComplete, PublishedIsListed, RootsAreKnown, PublishedIsComplete,
     RollbackIsComplete, DiskIsBounded

\* A step that leaves the disk alone and ends the request, or starts one.
LEMMA QuietKeepsIInv ==
    ASSUME IInv, UNCHANGED disk, pc' \in {"idle", "open"}
    PROVE  IInv'
BY DEF disk, IInv, GenerationsAreManifests, TargetIsOnDisk, TargetIsNamed, TargetIsCurrent,
   StartIsComplete, PublishedIsListed, RootsAreKnown, PublishedIsComplete, RollbackIsComplete,
   DiskIsBounded, Complete

LEMMA AnswerKeepsIInv ==
    ASSUME IInv, NEW outcome, Answer(outcome)
    PROVE  IInv'
BY QuietKeepsIInv DEF Answer, Closed

\* The store a request starts from has all its files, or none are claimed.
LEMMA BaseIsOnDisk ==
    ASSUME IInv, ~Unopenable
    PROVE  /\ IsManifest(Base)
           /\ Base = EmptyManifest \/ FilesOf(Base) \subseteq shards
           /\ current # None => FilesOf(Base) \subseteq shards /\ Complete(current)
BY DEF IInv, GenerationsAreManifests, Unopenable, Base, Complete, FilesOf, IsManifest, EmptyManifest

\* Only the shards that will be rebuilt may be missing.
LEMMA PrepareKeepsIInv ==
    ASSUME IInv, ~Unopenable, NEW members, NEW gone, Prepare(Base, members, gone)
    PROVE  IInv'
<1>1. /\ IsManifest(Base) /\ (Base = EmptyManifest \/ FilesOf(Base) \subseteq shards)
      /\ current # None => Complete(current)
  BY BaseIsOnDisk
<1>2. /\ target' = [Base EXCEPT !.resources = target'.resources]
      /\ pc' = "shards"
      /\ UNCHANGED disk
      /\ Base = EmptyManifest => todo' = Numbers
  BY DEF Prepare, Affected
<1>3. IsManifest(target') /\ target'.files = Base.files
  BY <1>1, <1>2 DEF IsManifest
<1>4. \A n \in Numbers \ todo' : target'.files[n] \in shards'
  BY <1>1, <1>2, <1>3 DEF disk, FilesOf
<1>5. QED
  BY <1>1, <1>2, <1>3, <1>4 DEF disk, IInv, GenerationsAreManifests, TargetIsOnDisk, TargetIsNamed,
     TargetIsCurrent, StartIsComplete, PublishedIsListed, RootsAreKnown, PublishedIsComplete,
     RollbackIsComplete, DiskIsBounded, Complete, IsManifest

\* Rehashing and set-durations touch the resources, never the files.
LEMMA SameFiles ==
    ASSUME NEW m, IsManifest(m), NEW p, NEW r
    PROVE  IsManifest([profile |-> p, resources |-> r, files |-> m.files])
<1>1. m.files = [n \in Numbers |-> m.files[n]]
  BY DEF IsManifest
<1>2. QED
  BY <1>1 DEF IsManifest

\* A manifest published over the shards that are there.
LEMMA PublishOverKeepsIInv ==
    ASSUME IInv, ~Unopenable, current # None, NEW m, PublishOver(m),
           IsManifest(m), m.files = Base.files
    PROVE  IInv'
<1>1. FilesOf(m) \subseteq shards /\ Complete(current)
  BY BaseIsOnDisk DEF FilesOf
<1>2. target' = m /\ pc' = "publish" /\ UNCHANGED disk
  BY DEF PublishOver
<1>3. QED
  BY <1>1, <1>2 DEF disk, IInv, GenerationsAreManifests, TargetIsOnDisk, TargetIsNamed,
     TargetIsCurrent, StartIsComplete, PublishedIsListed, RootsAreKnown, PublishedIsComplete,
     RollbackIsComplete, DiskIsBounded, Complete, IsManifest, FilesOf

\* A rebuilt shard joins the target once its file has its name.
LEMMA ShardDoneKeepsIInv ==
    ASSUME IInv, pc \in {"shards", "fill"}, ShardDone,
           shards \subseteq shards', UNCHANGED <<current, generations, rollback, overlooked>>,
           ShardName(NextShard, GroupInfos(Group)) \in shards'
    PROVE  IInv'
<1> DEFINE infos == GroupInfos(Group)
<1>1. IsManifest(target) /\ \A n \in Numbers \ todo : target.files[n] \in shards
  BY DEF IInv, TargetIsOnDisk
<1>2. /\ target' = WithShard(infos)
      /\ todo' = todo \ {NextShard}
      /\ pc' = "shards"
  BY DEF ShardDone
<1>3. /\ IsManifest(WithShard(infos))
      /\ \A n \in Numbers : WithShard(infos).files[n] =
                             IF n = NextShard THEN ShardName(NextShard, infos) ELSE target.files[n]
  <2>1. target.files = [n \in Numbers |-> target.files[n]]
    BY <1>1 DEF IsManifest
  <2>2. QED
    BY <2>1 DEF WithShard, IsManifest
<1>5. \A n \in Numbers \ todo' : target'.files[n] \in shards'
  BY <1>1, <1>2, <1>3
<1>6. PublishedIsComplete' /\ RollbackIsComplete' /\ StartIsComplete' /\ PublishedIsListed'
  BY DEF IInv, PublishedIsComplete, RollbackIsComplete, StartIsComplete, PublishedIsListed, Complete
<1>7. QED
  BY <1>2, <1>3, <1>5, <1>6 DEF IInv, GenerationsAreManifests, TargetIsOnDisk, TargetIsNamed,
     TargetIsCurrent, StartIsComplete, PublishedIsListed, RootsAreKnown, DiskIsBounded, IsManifest

LEMMA WriteShardKeepsIInv ==
    ASSUME IInv, WriteShard
    PROVE  IInv'
<1> DEFINE file == ShardName(NextShard, GroupInfos(Group))
<1>1. CASE Answer("internal") \/ Answer("already_exists")
  BY <1>1, AnswerKeepsIInv
<1>2. CASE file \in shards /\ ShardDone /\ UNCHANGED disk
  BY <1>2, ShardDoneKeepsIInv DEF WriteShard, disk
<1>3. CASE /\ pc' = "fill"
           /\ UNCHANGED <<current, generations, shards, rollback, overlooked, session, plan,
                          collector, reader>>
  <2>1. todo' # {} /\ todo' = todo /\ target' = target /\ pc = "shards"
    BY <1>3 DEF WriteShard, plan
  <2>2. QED
    BY <1>3, <2>1 DEF IInv, GenerationsAreManifests, TargetIsOnDisk, TargetIsNamed,
       TargetIsCurrent, StartIsComplete, PublishedIsListed, RootsAreKnown, PublishedIsComplete,
       RollbackIsComplete, DiskIsBounded, Complete, IsManifest
<1>4. QED
  BY <1>1, <1>2, <1>3 DEF WriteShard

LEMMA FillShardKeepsIInv ==
    ASSUME IInv, FillShard
    PROVE  IInv'
BY ShardDoneKeepsIInv DEF FillShard

LEMMA ShardsDoneKeepsIInv ==
    ASSUME IInv, ShardsDone
    PROVE  IInv'
<1>1. /\ pc = "shards" /\ pc' = "publish" /\ UNCHANGED <<disk, target>>
      /\ IsManifest(target)
      /\ FilesOf(target) \subseteq shards
  BY DEF ShardsDone, plan, IInv, TargetIsOnDisk, FilesOf
<1>2. QED
  BY <1>1 DEF disk, IInv, GenerationsAreManifests, TargetIsOnDisk, TargetIsNamed,
     TargetIsCurrent, StartIsComplete, PublishedIsListed, RootsAreKnown, PublishedIsComplete,
     RollbackIsComplete, DiskIsBounded, Complete, IsManifest, FilesOf

\* The manifest may take the name of one that is there already: whichever
\* generation that is, all the files of the new contents are in place.
LEMMA WriteManifestKeepsIInv ==
    ASSUME IInv, WriteManifest
    PROVE  IInv'
<1>1. /\ IsManifest(target) /\ FilesOf(target) \subseteq shards
      /\ pc' = "rename" /\ previous' \in {current, None}
      /\ UNCHANGED <<current, shards, rollback, overlooked, target>>
      /\ generations' = [g \in DOMAIN generations \union {Name(target)} |->
                           IF g = Name(target) THEN target ELSE generations[g]]
  BY DEF WriteManifest, plan, IInv, TargetIsOnDisk
<1>2. \A g : Complete(g) \/ g = Name(target) => Complete(g)'
  BY <1>1 DEF Complete, FilesOf
<1>3. GenerationsAreManifests'
  BY <1>1 DEF IInv, GenerationsAreManifests, IsManifest
<1>4. Name(target)' = Name(target)
  BY <1>1 DEF Name, Generation
<1>5. TargetIsNamed'
  BY <1>1, <1>2, <1>4 DEF TargetIsNamed
<1>6. StartIsComplete' /\ PublishedIsListed'
  BY <1>1, <1>2 DEF WriteManifest, IInv, StartIsComplete, PublishedIsListed
<1>7. QED
  BY <1>1, <1>2, <1>3, <1>5, <1>6 DEF IInv, TargetIsOnDisk, TargetIsCurrent, RootsAreKnown,
     PublishedIsComplete, RollbackIsComplete, DiskIsBounded, IsManifest

LEMMA RenameCurrentKeepsIInv ==
    ASSUME IInv, RenameCurrent
    PROVE  IInv'
<1>1. /\ current' = Name(target) /\ rollback' = current /\ pc' = "sync"
      /\ overlooked' = {current} \ {previous, None}
      /\ previous \in {current, None}
      /\ UNCHANGED <<generations, shards, target, previous>>
      /\ pc = "rename"
  BY DEF RenameCurrent, plan, collector, IInv, TargetIsNamed
<1>2. \A g : Complete(g)' <=> Complete(g)
  BY <1>1 DEF Complete
<1>3. Name(target)' = Name(target)
  BY <1>1 DEF Name, Generation
<1>4. GenerationsAreManifests' /\ TargetIsOnDisk' /\ TargetIsCurrent'
  BY <1>1, <1>3 DEF IInv, GenerationsAreManifests, TargetIsOnDisk, TargetIsNamed, TargetIsCurrent,
     IsManifest
<1>5. PublishedIsComplete' /\ RollbackIsComplete' /\ StartIsComplete' /\ PublishedIsListed'
  BY <1>1, <1>2 DEF IInv, TargetIsNamed, PublishedIsComplete, RollbackIsComplete, StartIsComplete,
     PublishedIsListed, Complete
<1>6. QED
  BY <1>1, <1>4, <1>5 DEF IInv, TargetIsNamed, RootsAreKnown, DiskIsBounded

-----------------------------------------------------------------------------
(* The collector.                                                          *)

\* It retains what is published and, if CURRENT could be read, what that
\* replaced; both are complete unless a manifest could not be read.
LEMMA RetainedAreComplete ==
    ASSUME IInv, pc \in {"sync", "gc_generations", "gc_shards"}
    PROVE  /\ Retained \subseteq {current, rollback} \ {None}
           /\ {current, rollback} \ (overlooked \union {None}) \subseteq Retained
           /\ current # None => current \in Retained /\ current \in DOMAIN generations
           /\ \A g \in Retained \ overlooked : Complete(g) /\ g \in DOMAIN generations
BY DEF IInv, TargetIsCurrent, Retained, PublishedIsComplete, RollbackIsComplete, PublishedIsListed,
   Complete

LEMMA CollectRootsKeepsIInv ==
    ASSUME IInv, CollectRoots
    PROVE  IInv'
<1> DEFINE named == Retained \cap DOMAIN generations
<1> PICK read \in SUBSET named :
        /\ retained' = UNION { FilesOf(generations[g]) : g \in read }
        /\ overlooked' = overlooked \union (named \ read)
  BY DEF CollectRoots, FilesOf
<1>1. /\ pc = "sync" /\ pc' = "gc_generations"
      /\ UNCHANGED <<current, generations, shards, temps, rollback, target, previous>>
  BY DEF CollectRoots, plan
<1>2. \A g \in Retained \ overlooked' : g \in read /\ g \notin overlooked
  BY <1>1, RetainedAreComplete
<1>3. Name(target)' = Name(target) /\ Retained' = Retained
  BY <1>1 DEF Name, Generation, Retained
<1>4. RootsAreKnown'
  <2>1. retained' \subseteq UNION { FilesOf(generations[g]) : g \in named }
    OBVIOUS
  <2>2. \A g \in Retained \ overlooked' : FilesOf(generations[g]) \subseteq retained'
    BY <1>2
  <2>3. QED
    BY <1>1, <1>3, <2>1, <2>2 DEF RootsAreKnown, FilesOf
<1>5. PublishedIsComplete' /\ RollbackIsComplete' /\ PublishedIsListed'
  BY <1>1 DEF IInv, PublishedIsComplete, RollbackIsComplete, PublishedIsListed, Complete
<1>6. TargetIsCurrent'
  BY <1>1, <1>3 DEF IInv, TargetIsCurrent
<1>7. QED
  BY <1>1, <1>4, <1>5, <1>6 DEF IInv, GenerationsAreManifests, TargetIsOnDisk, TargetIsNamed,
     StartIsComplete, DiskIsBounded, IsManifest

LEMMA CollectGenerationsKeepsIInv ==
    ASSUME IInv, CollectGenerations
    PROVE  IInv'
<1>1. /\ pc = "gc_generations" /\ pc' = "gc_shards"
      /\ UNCHANGED <<current, shards, rollback, overlooked, target, previous, retained>>
      /\ generations' = [g \in DOMAIN generations \cap Retained |-> generations[g]]
  BY DEF CollectGenerations, plan, collector
<1>2. /\ Retained \subseteq {current, rollback} \ {None}
      /\ {current, rollback} \ (overlooked \union {None}) \subseteq Retained
      /\ current # None => current \in Retained /\ current \in DOMAIN generations
      /\ \A g \in Retained \ overlooked : Complete(g) /\ g \in DOMAIN generations
  BY <1>1, RetainedAreComplete
<1>3. Name(target)' = Name(target) /\ Retained' = Retained
  BY <1>1 DEF Name, Generation, Retained
<1>4. /\ DOMAIN generations' = DOMAIN generations \cap Retained
      /\ \A g \in DOMAIN generations' : generations'[g] = generations[g]
  BY <1>1
<1>5. GenerationsAreManifests'
  BY <1>1 DEF IInv, GenerationsAreManifests, IsManifest
<1>6. RootsAreKnown'
  <2>1. { FilesOf(generations[g]) : g \in Retained \cap DOMAIN generations } =
          { FilesOf(generations'[g]) : g \in Retained \cap DOMAIN generations' }
    BY <1>4
  <2>2. \A g \in Retained \ overlooked : FilesOf(generations'[g]) = FilesOf(generations[g])
    BY <1>2, <1>4
  <2>3. QED
    BY <1>1, <1>3, <1>4, <2>1, <2>2 DEF IInv, RootsAreKnown, FilesOf
<1>7. PublishedIsComplete' /\ RollbackIsComplete' /\ PublishedIsListed'
  BY <1>1, <1>2, <1>4 DEF PublishedIsComplete, RollbackIsComplete, PublishedIsListed, Complete
<1>8. TargetIsCurrent'
  BY <1>1, <1>3 DEF IInv, TargetIsCurrent
<1>9. QED
  BY <1>1, <1>5, <1>6, <1>7, <1>8 DEF IInv, TargetIsOnDisk, TargetIsNamed, StartIsComplete,
     DiskIsBounded, IsManifest

LEMMA CollectShardsKeepsIInv ==
    ASSUME IInv, CollectShards
    PROVE  IInv'
<1>1. /\ pc = "gc_shards" /\ pc' = "reopen"
      /\ UNCHANGED <<current, generations, rollback, overlooked>>
      /\ shards' = shards \cap retained /\ temps' = {}
  BY DEF CollectShards
<1>2. /\ Retained \subseteq {current, rollback} \ {None}
      /\ {current, rollback} \ (overlooked \union {None}) \subseteq Retained
      /\ \A g \in Retained \ overlooked : Complete(g)
      /\ retained \subseteq
           UNION { FilesOf(generations[g]) : g \in Retained \cap DOMAIN generations }
      /\ \A g \in Retained \ overlooked : FilesOf(generations[g]) \subseteq retained
      /\ DOMAIN generations \subseteq Retained
  BY <1>1, RetainedAreComplete DEF IInv, RootsAreKnown
<1>3. Retained \cap DOMAIN generations = DOMAIN generations
  BY <1>2
<1>4. \A g \in Retained \ overlooked : Complete(g)'
  BY <1>1, <1>2 DEF Complete, FilesOf
<1>5. PublishedIsComplete' /\ RollbackIsComplete' /\ PublishedIsListed'
  BY <1>1, <1>2, <1>4 DEF IInv, PublishedIsComplete, RollbackIsComplete, PublishedIsListed
<1>6. DiskIsBounded'
  BY <1>1, <1>2, <1>3 DEF DiskIsBounded, FilesOf
<1>7. QED
  BY <1>1, <1>5, <1>6 DEF IInv, GenerationsAreManifests, TargetIsOnDisk, TargetIsNamed,
     TargetIsCurrent, StartIsComplete, RootsAreKnown, IsManifest

-----------------------------------------------------------------------------
LEMMA RequestsKeepIInv ==
    ASSUME IInv, Ingest \/ Retire \/ Rehash \/ SetDurations
    PROVE  IInv'
<1>1. CASE \E outcome : Answer(outcome)
  BY <1>1, AnswerKeepsIInv
<1>2. CASE Ingest /\ ~\E outcome : Answer(outcome)
  BY <1>2, PrepareKeepsIInv DEF Ingest
<1>3. CASE Retire /\ ~\E outcome : Answer(outcome)
  BY <1>3, PrepareKeepsIInv DEF Retire
<1>4. CASE Rehash /\ ~\E outcome : Answer(outcome)
  <2>1. ~Unopenable /\ current # None /\ PublishOver(Rehashed(Base))
    BY <1>4 DEF Rehash
  <2> DEFINE infos == { [r EXCEPT !.hash = ContentHash(Stored(Base, r))] : r \in Base.resources }
  <2>2. Rehashed(Base) = [profile |-> TRUE, resources |-> infos, files |-> Base.files]
    BY DEF Rehashed
  <2> HIDE DEF infos
  <2>3. IsManifest(Rehashed(Base)) /\ Rehashed(Base).files = Base.files
    BY <2>1, <2>2, BaseIsOnDisk, SameFiles
  <2>4. QED
    BY <2>1, <2>3, PublishOverKeepsIInv
<1>5. CASE SetDurations /\ ~\E outcome : Answer(outcome)
  <2>1. ~Unopenable /\ current # None /\ PublishOver(WithDurations(Base, request.updates))
    BY <1>5 DEF SetDurations
  <2> DEFINE New(r) == (CHOOSE u \in request.updates : u.key = r.key).duration
             infos == { [r EXCEPT !.duration = New(r)] : r \in Base.resources }
  <2>2. WithDurations(Base, request.updates) =
          [profile |-> Base.profile, resources |-> infos, files |-> Base.files]
    BY DEF WithDurations
  <2> HIDE DEF infos
  <2>3. /\ IsManifest(WithDurations(Base, request.updates))
        /\ WithDurations(Base, request.updates).files = Base.files
    BY <2>1, <2>2, BaseIsOnDisk, SameFiles
  <2>4. QED
    BY <2>1, <2>3, PublishOverKeepsIInv
<1>6. QED
  BY <1>1, <1>2, <1>3, <1>4, <1>5

\* A reader and a stuttering step change nothing the invariant speaks of.
LEMMA ReaderKeepsIInv ==
    ASSUME IInv, UNCHANGED <<disk, writer>>
    PROVE  IInv'
<1>1. Name(target)' = Name(target) /\ Retained' = Retained
  BY DEF writer, plan, collector, Name, Generation, Retained
<1>2. QED
  BY <1>1 DEF disk, writer, plan, collector, IInv, GenerationsAreManifests, TargetIsOnDisk,
     TargetIsNamed, TargetIsCurrent, StartIsComplete, PublishedIsListed, RootsAreKnown,
     PublishedIsComplete, RollbackIsComplete, DiskIsBounded, Complete, IsManifest, FilesOf

LEMMA NextKeepsIInv == IInv /\ [Next]_vars => IInv'
<1> SUFFICES ASSUME IInv, [Next]_vars PROVE IInv'
  OBVIOUS
<1>1. CASE Submit
  BY <1>1, QuietKeepsIInv DEF Submit
<1>2. CASE Ingest \/ Retire \/ Rehash \/ SetDurations
  BY <1>2, RequestsKeepIInv
<1>3. CASE WriteShard
  BY <1>3, WriteShardKeepsIInv
<1>4. CASE FillShard
  BY <1>4, FillShardKeepsIInv
<1>5. CASE ShardsDone
  BY <1>5, ShardsDoneKeepsIInv
<1>6. CASE WriteManifest
  BY <1>6, WriteManifestKeepsIInv
<1>7. CASE RenameCurrent
  BY <1>7, RenameCurrentKeepsIInv
<1>8. CASE CollectRoots
  BY <1>8, CollectRootsKeepsIInv
<1>9. CASE CollectGenerations
  BY <1>9, CollectGenerationsKeepsIInv
<1>10. CASE CollectShards
  BY <1>10, CollectShardsKeepsIInv
<1>11. CASE Reopen
  BY <1>11, AnswerKeepsIInv DEF Reopen
<1>12. CASE Stop
  BY <1>12, QuietKeepsIInv DEF Stop, Closed
<1>13. CASE ReaderStep \/ UNCHANGED vars
  BY <1>13, ReaderKeepsIInv
     DEF ReaderStep, ReadCurrent, ReadManifest, OpenShard, ReaderDone, vars
<1>14. QED
  BY <1>1, <1>2, <1>3, <1>4, <1>5, <1>6, <1>7, <1>8, <1>9, <1>10, <1>11, <1>12, <1>13
     DEF Next, WriterStep

\* What the writer, the files on disk and the collector know of each other is so
\* in every state, whatever fails or stops.
THEOREM StoreInvariant == Spec => []IInv
BY InitIInv, NextKeepsIInv, PTL DEF Spec

-----------------------------------------------------------------------------
\* Whatever step the writer was stopped at, store.rs publishes only manifests
\* whose every shard file is in place, and its collector spares the files of
\* each manifest that it could read.
THEOREM PublishedStaysComplete == Spec => []PublishedIsComplete
BY StoreInvariant, PTL DEF IInv

\* The generation that CURRENT named before is there for a rollback, although
\* a manifest may be rewritten under its name meanwhile, unless an error kept
\* the writer from reading CURRENT or that generation's manifest.
THEOREM RollbackStaysComplete == Spec => []RollbackIsComplete
BY StoreInvariant, PTL DEF IInv

\* After garbage_collect the root holds no generation but the present one and
\* its predecessor, no shard file that neither names, and no leftovers, whatever
\* it could not read.
THEOREM DiskStaysBounded == Spec => []DiskIsBounded
BY StoreInvariant, PTL DEF IInv

-----------------------------------------------------------------------------
(* The reader.  Two things could break it: a collector that takes a file   *)
(* of the manifest it has read, and a publication under the name of the    *)
(* present generation, which would replace that manifest.  The first       *)
(* follows from what the collector keeps; the second cannot happen since   *)
(* every publication brings a resource, or leaves one out, that the        *)
(* present generation does not.  That an ingest does so into a store       *)
(* without identities depends on reading the stored prints right, which is *)
(* the hypothesis ForwardNeverLies; StoreContentProofs discharges it.      *)

\* A ResourceInfo as a record.
IsInfo(r) ==
    r = [key |-> r.key, id |-> r.id, duration |-> r.duration, hash |-> r.hash,
         forward_start |-> r.forward_start]

HasUniqueKeys(S) == \A r, s \in S : r.key = s.key => r = s

\* The resources of a manifest, one for each key.
AreResources(S) == HasUniqueKeys(S) /\ \A r \in S : IsInfo(r) /\ r.key \in Keys

GenerationsAreNamed ==
    \A g \in DOMAIN generations :
        g = Name(generations[g]) /\ AreResources(generations[g].resources)

\* What is in a shard that is still to be rebuilt is not what replaces it.
TargetHasResources ==
    /\ pc \in {"shards", "fill", "publish", "rename"} => AreResources(target.resources)
    /\ pc \in {"shards", "fill"} =>
         /\ todo \subseteq Numbers
         /\ HasUniqueKeys(changes) /\ \A c \in changes : c.key \in Keys
         /\ \A r \in target.resources, c \in changes : r.key = c.key => ShardOf[r.key] \notin todo

\* A change that the published generation does not have.
IsNew(c) ==
    \A r \in generations[current].resources : r.key = c.key => r.hash # ContentHash(c.prints)

IsTaken(c) == \E r \in target.resources : r.key = c.key /\ r.hash = ContentHash(c.prints)

\* A resource that the next generation will not have.
IsGone(r) == r.key \notin KeysOf(target) /\ \A c \in changes : c.key # r.key

\* No publication takes the name of the generation it replaces.
TargetIsNews ==
    current # None =>
        /\ pc \in {"shards", "fill"} =>
             \/ \E c \in changes : IsNew(c) /\ (ShardOf[c.key] \in todo \/ IsTaken(c))
             \/ \E r \in generations[current].resources : IsGone(r)
        /\ pc \in {"publish", "rename"} => Name(target) # current

\* The store still owes the reader its files: it was overtaken at most once, and
\* the collector that did so could read the manifest.
IsOwed == reader.age < 2 /\ reader.name \notin overlooked

\* A reader follows CURRENT, or after one publication its predecessor, and the
\* shards of the manifest it has read are there until a second one.  If it fails
\* on CURRENT itself, nothing is published any more: no request can open it.
ReaderIsKnown ==
    /\ reader = [pc |-> reader.pc, name |-> reader.name, manifest |-> reader.manifest,
                 next |-> reader.next, age |-> reader.age]
    /\ reader.age \in 0 .. 2
    /\ reader.pc = "failed" =>
         /\ reader.age = 0 => ~Complete(current)
         /\ reader.age = 1 => reader.name \in overlooked
    /\ reader.pc \in {"manifest", "shards", "failed"} =>
         /\ reader.next \in Numbers
         /\ reader.age = 0 => current # None /\ reader.name = current
         /\ reader.age = 1 => rollback # None /\ reader.name = rollback
    /\ reader.pc = "shards" =>
         /\ IsOwed => FilesOf(reader.manifest) \subseteq shards
         /\ reader.age = 0 => reader.manifest = generations[current]
         /\ (reader.age = 1 /\ IsOwed /\ pc \in {"sync", "gc_generations", "gc_shards"}) =>
              reader.manifest = generations[rollback]

RequestIsKnown == pc = "open" /\ request.type = "ingest" => request.batch \in Batches

RInv ==
    /\ RequestIsKnown
    /\ GenerationsAreNamed
    /\ TargetHasResources
    /\ TargetIsNews
    /\ ReaderIsKnown

-----------------------------------------------------------------------------
(* Names.                                                                  *)

\* A name is the profile and the resources, without their places.
LEMMA NameOfResources ==
    ASSUME NEW m
    PROVE  Name(m).resources = { [key |-> r.key, id |-> r.id, duration |-> r.duration,
                                  hash |-> r.hash] : r \in m.resources }
BY DEF Name, Generation

\* A resource that another manifest has not makes another name.
LEMMA NewResourceNewName ==
    ASSUME NEW m, NEW n, NEW c \in m.resources,
           \A r \in n.resources : r.key = c.key => r.hash # c.hash
    PROVE  Name(m) # Name(n)
<1> DEFINE e == [key |-> c.key, id |-> c.id, duration |-> c.duration, hash |-> c.hash]
<1>1. e \in Name(m).resources
  BY NameOfResources
<1>2. e \notin Name(n).resources
  <2> SUFFICES ASSUME NEW r \in n.resources,
                      e = [key |-> r.key, id |-> r.id, duration |-> r.duration, hash |-> r.hash]
               PROVE  FALSE
    BY NameOfResources
  <2>1. e.key = r.key /\ e.hash = r.hash
    OBVIOUS
  <2>2. QED
    BY <2>1
<1>3. QED
  BY <1>1, <1>2

\* And so does one that another manifest has in addition.
LEMMA GoneResourceNewName ==
    ASSUME NEW m, NEW n, NEW c \in n.resources, c.key \notin KeysOf(m)
    PROVE  Name(m) # Name(n)
<1>1. \A r \in m.resources : r.key # c.key
  BY DEF KeysOf
<1>2. QED
  BY <1>1, NewResourceNewName

\* Of resources with the same keys and the same name, one for each key, each
\* has the hash and the duration of its counterpart.
LEMMA SameNameSameResource ==
    ASSUME NEW m, NEW n, Name(m) = Name(n), HasUniqueKeys(n.resources),
           NEW s \in m.resources, NEW r \in n.resources, s.key = r.key
    PROVE  s.hash = r.hash /\ s.duration = r.duration
<1> DEFINE e == [key |-> s.key, id |-> s.id, duration |-> s.duration, hash |-> s.hash]
<1>1. e \in Name(n).resources
  BY NameOfResources
<1>2. PICK q \in n.resources :
          e = [key |-> q.key, id |-> q.id, duration |-> q.duration, hash |-> q.hash]
  BY <1>1, NameOfResources
<1>3. e.key = q.key /\ e.duration = q.duration /\ e.hash = q.hash
  BY <1>2
<1>4. q = r
  BY <1>3 DEF HasUniqueKeys
<1>5. QED
  BY <1>3, <1>4

-----------------------------------------------------------------------------
(* The steps that leave the published generations alone.                   *)

Collecting == {"sync", "gc_generations", "gc_shards"}
Preparing == {"shards", "fill", "publish", "rename"}

LEMMA QuietKeepsReader ==
    ASSUME ReaderIsKnown, UNCHANGED <<current, generations, rollback, overlooked, reader>>,
           shards \subseteq shards', pc' \in Collecting => pc \in Collecting,
           shards' = shards \/ (current # None => Complete(current))
    PROVE  ReaderIsKnown'
BY DEF ReaderIsKnown, Collecting, IsOwed, Complete

\* A step that ends a request, or starts one.
LEMMA QuietKeepsRInv ==
    ASSUME RInv, RequestIsKnown', UNCHANGED disk, reader' = reader, pc' \in {"idle", "open"}
    PROVE  RInv'
<1>1. ReaderIsKnown'
  BY QuietKeepsReader DEF RInv, disk, Collecting
<1>2. QED
  BY <1>1 DEF RInv, disk, GenerationsAreNamed, TargetHasResources, TargetIsNews, Name, Generation

LEMMA AnswerKeepsRInv ==
    ASSUME RInv, NEW outcome, Answer(outcome)
    PROVE  RInv'
BY QuietKeepsRInv DEF Answer, Closed, RequestIsKnown

-----------------------------------------------------------------------------
(* Requests.                                                               *)

LEMMA ManifestIsRecord ==
    ASSUME NEW m, IsManifest(m)
    PROVE  m = [profile |-> m.profile, resources |-> m.resources, files |-> m.files]
BY DEF IsManifest

\* What CURRENT names is there.
LEMMA CurrentIsThere ==
    ASSUME IInv, current # None
    PROVE  current \in DOMAIN generations
BY DEF IInv, PublishedIsListed

\* A batch without duplicates makes one change for each key.
LEMMA UniqueChanges ==
    ASSUME NEW m, NEW batch, ~HasDuplicates(batch)
    PROVE  HasUniqueKeys(IngestChanges(m, batch))
BY DEF HasDuplicates, HasUniqueKeys, IngestChanges

\* What a request works on has one resource for each key.
LEMMA BaseHasResources ==
    ASSUME RInv, ~Unopenable
    PROVE  /\ AreResources(Base.resources)
           /\ current # None => Base = generations[current] /\ current = Name(Base)
BY DEF RInv, GenerationsAreNamed, Unopenable, Complete, Base, EmptyManifest, AreResources,
   HasUniqueKeys

\* Files are rebuilt for what changes and what goes.
LEMMA PrepareKeepsRInv ==
    ASSUME IInv, RInv, ~Unopenable, NEW members, NEW gone, Prepare(Base, members, gone),
           HasUniqueKeys(members), \A c \in members : c.key \in Keys,
           current # None => \/ \E c \in members : IsNew(c)
                             \/ \E r \in Base.resources : r.key \in gone /\ members = {}
    PROVE  RInv'
<1> DEFINE kept == { r \in Base.resources : r.key \notin gone \union { c.key : c \in members } }
<1>1. /\ AreResources(Base.resources)
      /\ current # None => Base = generations[current]
  BY BaseHasResources
<1>2. IsManifest(Base)
  BY BaseIsOnDisk
<1>3. target'.resources = kept
  <2>1. target' = [Base EXCEPT !.resources = kept]
    BY DEF Prepare
  <2>2. Base = [profile |-> Base.profile, resources |-> Base.resources,
                files |-> [n \in Numbers |-> Base.files[n]]]
    BY <1>2 DEF IsManifest
  <2>3. QED
    BY <2>1, <2>2
<1>4. /\ changes' = members /\ pc' = "shards"
      /\ UNCHANGED <<current, generations, shards, rollback, overlooked, reader>>
  BY DEF Prepare, disk
<1>5. /\ \A c \in members : ShardOf[c.key] \in todo'
      /\ todo' \subseteq Numbers
  BY <1>1, ShardOfAssumption DEF Prepare, Affected, Numbers, AreResources
<1>6. AreResources(target'.resources)
  BY <1>1, <1>3 DEF AreResources, HasUniqueKeys
<1>7. \A r \in kept, c \in members : r.key # c.key
  OBVIOUS
<1>8. TargetHasResources'
  BY <1>3, <1>4, <1>5, <1>6, <1>7 DEF TargetHasResources
<1>9. ReaderIsKnown'
  BY <1>4, QuietKeepsReader DEF RInv, Collecting
<1>10. TargetIsNews'
  <2> SUFFICES ASSUME current # None
               PROVE  \/ \E c \in members : IsNew(c)' /\ ShardOf[c.key] \in todo'
                      \/ \E r \in generations[current].resources : IsGone(r)'
    BY <1>4 DEF TargetIsNews
  <2>1. CASE \E c \in members : IsNew(c)
    <3>1. PICK c \in members : IsNew(c)
      BY <2>1
    <3>2. IsNew(c)'
      BY <1>4, <3>1 DEF IsNew
    <3>3. QED
      BY <1>5, <3>2
  <2>2. CASE \E r \in Base.resources : r.key \in gone /\ members = {}
    <3>1. PICK r \in Base.resources : r.key \in gone /\ members = {}
      BY <2>2
    <3>2. IsGone(r)'
      BY <1>3, <1>4, <3>1 DEF IsGone, KeysOf
    <3>3. QED
      BY <1>1, <3>1, <3>2
  <2>3. QED
    BY <2>1, <2>2
<1>11. GenerationsAreNamed'
  BY <1>4 DEF RInv, GenerationsAreNamed, Name, Generation
<1>12. QED
  BY <1>4, <1>8, <1>9, <1>10, <1>11 DEF RInv, RequestIsKnown

LEMMA PublishOverKeepsRInv ==
    ASSUME RInv, NEW m, PublishOver(m), AreResources(m.resources), Name(m) # current
    PROVE  RInv'
<1>1. /\ target' = m /\ pc' = "publish"
      /\ UNCHANGED <<current, generations, shards, rollback, overlooked, reader>>
  BY DEF PublishOver, disk
<1>2. Name(target') # current'
  BY <1>1
<1>3. TargetIsNews' /\ TargetHasResources'
  BY <1>1, <1>2 DEF TargetIsNews, TargetHasResources, Name, Generation
<1>4. ReaderIsKnown'
  BY <1>1, QuietKeepsReader DEF RInv, Collecting
<1>5. GenerationsAreNamed'
  BY <1>1 DEF RInv, GenerationsAreNamed, Name, Generation
<1>6. QED
  BY <1>1, <1>3, <1>4, <1>5 DEF RInv, RequestIsKnown

\* An ingest only prepares what the store it opened has not got, or has with
\* other prints.
LEMMA ChangesAreNew ==
    ASSUME RInv, ForwardNeverLies, current # None, ~Unopenable, NEW batch \in Batches,
           NEW replace, IngestRefusal(Base, batch, replace) = "none",
           NEW c \in IngestChanges(Base, batch)
    PROVE  IsNew(c)
<1>1. /\ AreResources(Base.resources)
      /\ Base = generations[current]
  BY BaseHasResources
<1>2. PICK r \in batch : ~IsUnchanged(Base, r) /\ c.key = r.key /\ c.prints = r.prints
  BY DEF IngestChanges
<1>3. ~Unidentifiable(Base, r)
  BY DEF IngestRefusal
<1> SUFFICES ASSUME NEW s \in Base.resources, s.key = c.key, s.hash = ContentHash(c.prints)
             PROVE  FALSE
  BY <1>1 DEF IsNew
<1>4. Existing(Base, r)
  BY <1>2 DEF Existing, KeysOf
<1>5. InfoOf(Base, r.key) = s
  BY <1>1, <1>2 DEF InfoOf, AreResources, HasUniqueKeys
<1>6. Identity(Base, s) # ContentHash(c.prints)
  BY <1>2, <1>4, <1>5 DEF IsUnchanged
<1>7. ~Base.profile /\ ContentHash(Stored(Base, s)) # ContentHash(c.prints)
  BY <1>6 DEF Identity
<1>8. Readable(Base, s)
  BY <1>3, <1>4, <1>5, <1>7 DEF Unidentifiable
<1>9. Stored(Base, s) = s.hash.prints
  BY <1>1, <1>8 DEF ForwardNeverLies
<1>10. s.hash.prints = c.prints
  BY DEF ContentHash
<1>11. QED
  BY <1>7, <1>9, <1>10

LEMMA IngestKeepsRInv ==
    ASSUME IInv, RInv, ForwardNeverLies, Ingest
    PROVE  RInv'
<1> DEFINE members == IngestChanges(Base, request.batch)
<1>1. CASE \E outcome : Answer(outcome)
  BY <1>1, AnswerKeepsRInv
<1>2. CASE /\ ~Unopenable /\ Prepare(Base, members, {}) /\ members # {}
           /\ IngestRefusal(Base, request.batch, request.replace) = "none"
  <2>1. request.batch \in Batches
    BY DEF RInv, Ingest, RequestIsKnown
  <2>2. HasUniqueKeys(members)
    <3>1. ~HasDuplicates(request.batch)
      BY <1>2 DEF IngestRefusal
    <3>2. QED
      BY <3>1, UniqueChanges
  <2>3. \A c \in members : c.key \in Keys
    BY <2>1, BatchesAssumption DEF IngestChanges
  <2>4. current # None => \E c \in members : IsNew(c)
    BY <1>2, <2>1, ChangesAreNew
  <2>5. QED
    BY <1>2, <2>2, <2>3, <2>4, PrepareKeepsRInv
<1>3. QED
  BY <1>1, <1>2 DEF Ingest

LEMMA RetireKeepsRInv ==
    ASSUME IInv, RInv, Retire
    PROVE  RInv'
<1>1. CASE \E outcome : Answer(outcome)
  BY <1>1, AnswerKeepsRInv
<1>2. CASE /\ ~Unopenable /\ current # None
           /\ request.key \in KeysOf(Base) /\ Prepare(Base, {}, {request.key})
  <2>1. \E r \in Base.resources : r.key \in {request.key}
    BY <1>2 DEF KeysOf
  <2>2. QED
    BY <1>2, <2>1, PrepareKeepsRInv DEF HasUniqueKeys
<1>3. QED
  BY <1>1, <1>2 DEF Retire

\* Rehashing what is named so already changes nothing.
LEMMA RehashKeepsRInv ==
    ASSUME IInv, RInv, Rehash
    PROVE  RInv'
<1>1. CASE \E outcome : Answer(outcome)
  BY <1>1, AnswerKeepsRInv
<1>2. CASE /\ ~Unopenable /\ current # None /\ Rehashed(Base) # Base
           /\ PublishOver(Rehashed(Base))
  <2> DEFINE New(r) == [r EXCEPT !.hash = ContentHash(Stored(Base, r))]
             infos == { New(r) : r \in Base.resources }
  <2>1. /\ AreResources(Base.resources) /\ current = Name(Base)
        /\ IsManifest(Base)
    BY <1>2, BaseHasResources, BaseIsOnDisk
  <2>2. Rehashed(Base) = [profile |-> TRUE, resources |-> infos, files |-> Base.files]
    BY DEF Rehashed
  <2>3. \A r \in Base.resources :
            New(r) = [key |-> r.key, id |-> r.id, duration |-> r.duration,
                      hash |-> ContentHash(Stored(Base, r)), forward_start |-> r.forward_start]
    <3> SUFFICES ASSUME NEW r \in Base.resources
                 PROVE  New(r) = [key |-> r.key, id |-> r.id, duration |-> r.duration,
                                  hash |-> ContentHash(Stored(Base, r)),
                                  forward_start |-> r.forward_start]
      OBVIOUS
    <3>1. r = [key |-> r.key, id |-> r.id, duration |-> r.duration, hash |-> r.hash,
               forward_start |-> r.forward_start]
      BY <2>1 DEF AreResources, IsInfo
    <3>2. QED
      BY <3>1
  <2> HIDE DEF New
  <2>4. AreResources(infos)
    BY <2>1, <2>3 DEF AreResources, HasUniqueKeys, IsInfo
  <2>5. ASSUME Name(Rehashed(Base)) = Name(Base)
        PROVE  Rehashed(Base) = Base
    <3>1. ASSUME NEW r \in Base.resources
          PROVE  New(r) = r
      <4>1. New(r).key = r.key /\ New(r) \in Rehashed(Base).resources
        BY <2>2, <2>3
      <4>2. New(r).hash = r.hash
        BY <2>1, <2>5, <4>1, SameNameSameResource DEF AreResources
      <4>3. ContentHash(Stored(Base, r)) = r.hash
        BY <2>3, <4>2
      <4>4. r = [key |-> r.key, id |-> r.id, duration |-> r.duration, hash |-> r.hash,
                 forward_start |-> r.forward_start]
        BY <2>1 DEF AreResources, IsInfo
      <4>5. QED
        BY <2>3, <4>3, <4>4
    <3>2. infos = Base.resources
      BY <3>1
    <3>3. Base.profile = TRUE
      BY <2>2, <2>5 DEF Name, Generation
    <3>4. Base = [profile |-> Base.profile, resources |-> Base.resources, files |-> Base.files]
      BY <2>1, ManifestIsRecord
    <3>5. QED
      BY <2>2, <3>2, <3>3, <3>4
  <2>6. QED
    BY <1>2, <2>1, <2>2, <2>4, <2>5, PublishOverKeepsRInv
<1>3. QED
  BY <1>1, <1>2 DEF Rehash

LEMMA SetDurationsKeepsRInv ==
    ASSUME IInv, RInv, SetDurations
    PROVE  RInv'
<1>1. CASE \E outcome : Answer(outcome)
  BY <1>1, AnswerKeepsRInv
<1>2. CASE /\ ~Unopenable /\ current # None /\ WithDurations(Base, request.updates) # Base
           /\ PublishOver(WithDurations(Base, request.updates))
  <2> DEFINE Of(r) == (CHOOSE u \in request.updates : u.key = r.key).duration
             New(r) == [r EXCEPT !.duration = Of(r)]
             infos == { New(r) : r \in Base.resources }
             next == WithDurations(Base, request.updates)
  <2>1. /\ AreResources(Base.resources) /\ current = Name(Base)
        /\ IsManifest(Base)
    BY <1>2, BaseHasResources, BaseIsOnDisk
  <2>2. next = [profile |-> Base.profile, resources |-> infos, files |-> Base.files]
    BY DEF WithDurations
  <2> HIDE DEF Of, next
  <2>3. \A r \in Base.resources :
            New(r) = [key |-> r.key, id |-> r.id, duration |-> Of(r),
                      hash |-> r.hash, forward_start |-> r.forward_start]
    <3> SUFFICES ASSUME NEW r \in Base.resources
                 PROVE  New(r) = [key |-> r.key, id |-> r.id, duration |-> Of(r),
                                  hash |-> r.hash, forward_start |-> r.forward_start]
      OBVIOUS
    <3>1. r = [key |-> r.key, id |-> r.id, duration |-> r.duration, hash |-> r.hash,
               forward_start |-> r.forward_start]
      BY <2>1 DEF AreResources, IsInfo
    <3>2. QED
      BY <3>1
  <2> HIDE DEF New
  <2>4. AreResources(infos)
    BY <2>1, <2>3 DEF AreResources, HasUniqueKeys, IsInfo
  <2>5. ASSUME Name(next) = Name(Base)
        PROVE  next = Base
    <3>1. ASSUME NEW r \in Base.resources
          PROVE  New(r) = r
      <4>1. New(r).key = r.key /\ New(r) \in next.resources
        BY <2>2, <2>3
      <4>2. New(r).duration = r.duration
        BY <2>1, <2>5, <4>1, SameNameSameResource DEF AreResources
      <4>3. Of(r) = r.duration
        BY <2>3, <4>2
      <4>4. r = [key |-> r.key, id |-> r.id, duration |-> r.duration, hash |-> r.hash,
                 forward_start |-> r.forward_start]
        BY <2>1 DEF AreResources, IsInfo
      <4>5. QED
        BY <2>3, <4>3, <4>4
    <3>2. infos = Base.resources
      BY <3>1
    <3>3. Base = [profile |-> Base.profile, resources |-> Base.resources, files |-> Base.files]
      BY <2>1, ManifestIsRecord
    <3>4. QED
      BY <2>2, <3>2, <3>3
  <2>6. QED
    BY <1>2, <2>1, <2>2, <2>4, <2>5, PublishOverKeepsRInv DEF next
<1>3. QED
  BY <1>1, <1>2 DEF SetDurations

-----------------------------------------------------------------------------
(* Rebuilding shards.                                                      *)

\* A rebuilt shard has the resources of its group, and no others.
LEMMA GroupInfosAreResources ==
    ASSUME NEW group, HasUniqueKeys(group), \A m \in group : m.key \in Keys
    PROVE  /\ AreResources(GroupInfos(group))
           /\ \A r \in GroupInfos(group) : \E m \in group : r.key = m.key
           /\ \A m \in group : \E r \in GroupInfos(group) :
                  r.key = m.key /\ r.hash = ContentHash(m.prints)
<1> DEFINE Info(r) == [key |-> r.key, id |-> r.id, duration |-> r.duration,
                       hash |-> ContentHash(r.prints), forward_start |-> ForwardStart(group, r)]
<1>1. GroupInfos(group) = { Info(r) : r \in group }
  BY DEF GroupInfos
<1>2. \A r \in group : /\ IsInfo(Info(r))
                       /\ Info(r).key = r.key /\ Info(r).hash = ContentHash(r.prints)
  BY DEF IsInfo
<1> HIDE DEF Info
<1>3. QED
  BY <1>1, <1>2 DEF AreResources, HasUniqueKeys

\* A store of an older version has resources, too.
LEMMA LegacyHasResources ==
    ASSUME NEW batch \in Batches, ~HasDuplicates(batch)
    PROVE  AreResources(LegacyManifest(batch).resources)
<1> DEFINE members(n) == { m \in IngestChanges(EmptyManifest, batch) : ShardOf[m.key] = n }
           Legacy(r) == [r EXCEPT !.hash = [@ EXCEPT !.legacy = TRUE]]
           infos(n) == { Legacy(r) : r \in GroupInfos(members(n)) }
<1>1. LegacyManifest(batch).resources = UNION { infos(n) : n \in Numbers }
  BY DEF LegacyManifest
<1>2. \A n \in Numbers : \A m \in members(n) : m.key \in Keys /\ ShardOf[m.key] = n
  BY BatchesAssumption DEF IngestChanges
<1>3. \A n \in Numbers : HasUniqueKeys(members(n))
  BY UniqueChanges DEF HasUniqueKeys
<1> HIDE DEF members
<1>4. \A n \in Numbers : /\ AreResources(GroupInfos(members(n)))
                         /\ \A r \in GroupInfos(members(n)) : ShardOf[r.key] = n
  BY <1>2, <1>3, GroupInfosAreResources
<1>5. \A n \in Numbers : \A r \in GroupInfos(members(n)) :
          IsInfo(Legacy(r)) /\ Legacy(r).key = r.key
  <2> SUFFICES ASSUME NEW n \in Numbers, NEW r \in GroupInfos(members(n))
               PROVE  IsInfo(Legacy(r)) /\ Legacy(r).key = r.key
    OBVIOUS
  <2>1. r = [key |-> r.key, id |-> r.id, duration |-> r.duration, hash |-> r.hash,
             forward_start |-> r.forward_start]
    BY <1>4 DEF AreResources, IsInfo
  <2> DEFINE hash == [r.hash EXCEPT !.legacy = TRUE]
  <2>2. Legacy(r) = [r EXCEPT !.hash = hash]
    OBVIOUS
  <2> HIDE DEF hash, Legacy
  <2>3. Legacy(r) = [key |-> r.key, id |-> r.id, duration |-> r.duration, hash |-> hash,
                     forward_start |-> r.forward_start]
    BY <2>1, <2>2
  <2>4. QED
    BY <2>3 DEF IsInfo
<1> HIDE DEF Legacy
<1>6. \A n \in Numbers : /\ AreResources(infos(n))
                         /\ \A r \in infos(n) : ShardOf[r.key] = n
  BY <1>4, <1>5 DEF AreResources, HasUniqueKeys
<1> HIDE DEF infos
<1>7. QED
  BY <1>1, <1>6 DEF AreResources, HasUniqueKeys

\* A member of a group is what the shard keeps, or one of its changes.
LEMMA GroupMembers ==
    ASSUME NEW m
    PROVE  /\ m \in Group => \/ (\E r \in KeptInfos : m.key = r.key)
                             \/ (m \in changes /\ ShardOf[m.key] = NextShard)
           /\ m \in changes /\ ShardOf[m.key] = NextShard => m \in Group
<1> DEFINE Member(r) == [key |-> r.key, id |-> r.id, duration |-> r.duration,
                         prints |-> Stored(opened, r)]
<1>1. Group = { Member(r) : r \in KeptInfos } \union { c \in changes : ShardOf[c.key] = NextShard }
  BY DEF Group
<1>2. \A r : Member(r).key = r.key
  OBVIOUS
<1> HIDE DEF Member
<1>3. QED
  BY <1>1, <1>2

LEMMA GroupHasUniqueKeys ==
    ASSUME AreResources(target.resources), HasUniqueKeys(changes), NextShard \in todo,
           \A r \in target.resources, c \in changes : r.key = c.key => ShardOf[r.key] \notin todo
    PROVE  HasUniqueKeys(Group)
<1> DEFINE Member(r) == [key |-> r.key, id |-> r.id, duration |-> r.duration,
                         prints |-> Stored(opened, r)]
           kept == { Member(r) : r \in KeptInfos }
           new == { c \in changes : ShardOf[c.key] = NextShard }
<1>1. Group = kept \union new
  BY DEF Group
<1>2. HasUniqueKeys(kept)
  BY DEF HasUniqueKeys, KeptInfos, AreResources
<1>3. HasUniqueKeys(new)
  BY DEF HasUniqueKeys
<1>4. \A m \in kept, c \in new : m.key # c.key
  BY DEF KeptInfos
<1> HIDE DEF kept, new
<1>5. QED
  BY <1>1, <1>2, <1>3, <1>4 DEF HasUniqueKeys

\* The shard that is rebuilt takes its changes and keeps the rest.
LEMMA ShardDoneKeepsRInv ==
    ASSUME IInv, RInv, pc \in {"shards", "fill"}, todo # {}, ShardDone,
           shards \subseteq shards', UNCHANGED <<current, generations, rollback, overlooked>>
    PROVE  RInv'
<1> DEFINE infos == GroupInfos(Group)
           rest == target.resources \ KeptInfos
<1>1. /\ AreResources(target.resources)
      /\ todo \subseteq Numbers
      /\ HasUniqueKeys(changes) /\ \A c \in changes : c.key \in Keys
      /\ \A r \in target.resources, c \in changes : r.key = c.key => ShardOf[r.key] \notin todo
  BY DEF RInv, TargetHasResources
<1>2. /\ target'.resources = rest \union infos
      /\ todo' = todo \ {NextShard}
      /\ pc' = "shards"
      /\ UNCHANGED <<current, generations, rollback, overlooked, changes, reader>>
  BY DEF ShardDone, WithShard
<1>3. NextShard \in todo
  <2>1. todo \in SUBSET Nat
    BY <1>1, ShardCountAssumption DEF Numbers
  <2>2. \E x \in todo : \A y \in todo : x <= y
    BY <2>1, LeastElement
  <2>3. QED
    BY <2>2 DEF NextShard, Min
<1>4. HasUniqueKeys(Group)
  BY <1>1, <1>3, GroupHasUniqueKeys
<1>5. \A m \in Group : m.key \in Keys /\ ShardOf[m.key] = NextShard
  BY <1>1, GroupMembers DEF KeptInfos, AreResources
<1>6. /\ AreResources(infos)
      /\ \A r \in infos : ShardOf[r.key] = NextShard /\ \E m \in Group : r.key = m.key
      /\ \A m \in Group : \E r \in infos : r.key = m.key /\ r.hash = ContentHash(m.prints)
  BY <1>4, <1>5, GroupInfosAreResources
<1>7. \A r \in rest : r \in target.resources /\ ShardOf[r.key] # NextShard
  BY DEF KeptInfos
<1> HIDE DEF infos, rest
<1>8. AreResources(rest \union infos)
  BY <1>1, <1>6, <1>7 DEF AreResources, HasUniqueKeys
<1>9. TargetHasResources'
  <2>1. ASSUME NEW r \in rest \union infos, NEW c \in changes, r.key = c.key
        PROVE  ShardOf[r.key] \notin todo'
    BY <1>1, <1>2, <1>6, <1>7, <2>1
  <2>2. QED
    BY <1>1, <1>2, <1>8, <2>1 DEF TargetHasResources
<1>10. TargetIsNews'
  <2> SUFFICES ASSUME current # None
               PROVE  \/ \E c \in changes : IsNew(c)' /\ (ShardOf[c.key] \in todo' \/ IsTaken(c)')
                      \/ \E r \in generations[current].resources : IsGone(r)'
    BY <1>2 DEF TargetIsNews
  <2>1. CASE \E c \in changes : IsNew(c) /\ (ShardOf[c.key] \in todo \/ IsTaken(c))
    <3>1. PICK c \in changes : IsNew(c) /\ (ShardOf[c.key] \in todo \/ IsTaken(c))
      BY <2>1
    <3>2. IsNew(c)'
      BY <1>2, <3>1 DEF IsNew
    <3>3. CASE ShardOf[c.key] = NextShard
      <4>1. c \in Group
        BY <3>3, GroupMembers
      <4>2. \E r \in target'.resources : r.key = c.key /\ r.hash = ContentHash(c.prints)
        BY <1>2, <1>6, <4>1
      <4>3. QED
        BY <3>2, <4>2 DEF IsTaken
    <3>4. CASE ShardOf[c.key] # NextShard /\ ShardOf[c.key] \in todo
      BY <1>2, <3>2, <3>4
    <3>5. CASE ShardOf[c.key] # NextShard /\ IsTaken(c)
      <4>1. PICK r \in target.resources : r.key = c.key /\ r.hash = ContentHash(c.prints)
        BY <3>5 DEF IsTaken
      <4>2. r \in target'.resources
        BY <1>2, <3>5, <4>1 DEF rest, KeptInfos
      <4>3. IsTaken(c)'
        BY <4>1, <4>2 DEF IsTaken
      <4>4. QED
        BY <3>2, <4>3
    <3>6. QED
      BY <3>1, <3>3, <3>4, <3>5
  <2>2. CASE \E r \in generations[current].resources : IsGone(r)
    <3>1. PICK r \in generations[current].resources : IsGone(r)
      BY <2>2
    <3>2. ASSUME NEW s \in rest \union infos, s.key = r.key
          PROVE  FALSE
      <4>1. CASE s \in rest
        BY <1>7, <3>1, <3>2, <4>1 DEF IsGone, KeysOf
      <4>2. CASE s \in infos
        <5>1. PICK m \in Group : s.key = m.key
          BY <1>6, <4>2
        <5>2. QED
          BY <3>1, <3>2, <5>1, GroupMembers DEF IsGone, KeysOf, KeptInfos
      <4>3. QED
        BY <4>1, <4>2
    <3>3. r.key \notin { s.key : s \in target'.resources }
      BY <1>2, <3>2
    <3>4. IsGone(r)'
      BY <1>2, <3>1, <3>3 DEF IsGone, KeysOf
    <3>5. QED
      BY <3>4
  <2>3. QED
    BY <2>1, <2>2 DEF RInv, TargetIsNews
<1>11. ReaderIsKnown'
  BY <1>2, QuietKeepsReader DEF IInv, StartIsComplete, RInv, Collecting
<1>12. QED
  BY <1>2, <1>9, <1>10, <1>11 DEF RInv, GenerationsAreNamed, RequestIsKnown, Name, Generation

LEMMA WriteShardKeepsRInv ==
    ASSUME IInv, RInv, WriteShard
    PROVE  RInv'
<1>1. CASE Answer("internal") \/ Answer("already_exists")
  BY <1>1, AnswerKeepsRInv
<1>2. CASE ShardDone /\ UNCHANGED disk
  BY <1>2, ShardDoneKeepsRInv DEF WriteShard, disk
<1>3. CASE /\ pc' = "fill"
           /\ UNCHANGED <<current, generations, shards, rollback, overlooked, session, plan,
                          collector, reader>>
  <2>1. ReaderIsKnown'
    BY <1>3, QuietKeepsReader DEF RInv, Collecting
  <2>2. pc = "shards"
    BY DEF WriteShard
  <2>3. QED
    BY <1>3, <2>1, <2>2 DEF RInv, plan, session, GenerationsAreNamed, RequestIsKnown,
       TargetHasResources, TargetIsNews, IsNew, IsTaken, IsGone, KeysOf, Name, Generation
<1>4. QED
  BY <1>1, <1>2, <1>3 DEF WriteShard

LEMMA FillShardKeepsRInv ==
    ASSUME IInv, RInv, FillShard
    PROVE  RInv'
<1>1. todo # {} /\ shards \subseteq shards'
  BY DEF IInv, TargetIsOnDisk, FillShard
<1>2. QED
  BY <1>1, ShardDoneKeepsRInv DEF FillShard

\* When every shard is rebuilt, what is new is in the target.
LEMMA ShardsDoneKeepsRInv ==
    ASSUME IInv, RInv, ShardsDone
    PROVE  RInv'
<1>1. /\ pc = "shards" /\ pc' = "publish" /\ todo = {}
      /\ UNCHANGED <<current, generations, shards, rollback, overlooked, request, changes, target,
                     reader>>
  BY DEF ShardsDone, disk, session, plan
<1>2. Name(target)' = Name(target)
  BY <1>1 DEF Name, Generation
<1>3. TargetIsNews'
  <2> SUFFICES ASSUME current # None PROVE Name(target) # current
    BY <1>1, <1>2 DEF TargetIsNews
  <2>1. current \in DOMAIN generations => current = Name(generations[current])
    BY DEF RInv, GenerationsAreNamed
  <2>2. Name(target) # Name(generations[current])
    <3>1. CASE \E c \in changes : IsNew(c) /\ IsTaken(c)
      <4>1. PICK c \in changes : IsNew(c) /\ IsTaken(c)
        BY <3>1
      <4>2. PICK s \in target.resources : s.key = c.key /\ s.hash = ContentHash(c.prints)
        BY <4>1 DEF IsTaken
      <4>3. \A r \in generations[current].resources : r.key = s.key => r.hash # s.hash
        BY <4>1, <4>2 DEF IsNew
      <4>4. QED
        BY <4>2, <4>3, NewResourceNewName
    <3>2. CASE \E r \in generations[current].resources : IsGone(r)
      BY <3>2, GoneResourceNewName DEF IsGone
    <3>3. QED
      BY <1>1, <3>1, <3>2 DEF RInv, TargetIsNews
  <2>3. QED
    BY <2>1, <2>2, CurrentIsThere
<1>4. ReaderIsKnown'
  BY <1>1, QuietKeepsReader DEF RInv, Collecting
<1>5. QED
  BY <1>1, <1>3, <1>4 DEF RInv, GenerationsAreNamed, RequestIsKnown, TargetHasResources, Name,
     Generation

-----------------------------------------------------------------------------
(* Publishing and collecting.                                              *)

\* The manifest that CURRENT names stays as it is.
LEMMA WriteManifestKeepsRInv ==
    ASSUME IInv, RInv, WriteManifest
    PROVE  RInv'
<1>1. /\ pc = "publish" /\ pc' = "rename"
      /\ UNCHANGED <<current, shards, rollback, overlooked, request, changes, target, todo, reader>>
      /\ generations' = [g \in DOMAIN generations \union {Name(target)} |->
                           IF g = Name(target) THEN target ELSE generations[g]]
  BY DEF WriteManifest, session, plan
<1>2. Name(target)' = Name(target)
  BY <1>1 DEF Name, Generation
<1>3. current # None => generations'[current] = generations[current]
  BY <1>1, CurrentIsThere DEF RInv, TargetIsNews
<1>4. AreResources(target.resources)
  BY <1>1 DEF RInv, TargetHasResources
<1>5. GenerationsAreNamed'
  <2> SUFFICES ASSUME NEW g \in DOMAIN generations'
               PROVE  g = Name(generations'[g]) /\ AreResources(generations'[g].resources)
    BY DEF GenerationsAreNamed, Name, Generation
  <2>1. QED
    BY <1>1, <1>4 DEF RInv, GenerationsAreNamed
<1>6. ReaderIsKnown'
  <2>1. current # None => Complete(current)
    BY <1>1 DEF IInv, StartIsComplete
  <2>2. QED
    BY <1>1, <1>3, <2>1 DEF RInv, ReaderIsKnown, Collecting, IsOwed
<1>7. QED
  BY <1>1, <1>2, <1>5, <1>6 DEF RInv, RequestIsKnown, TargetHasResources, TargetIsNews

\* A reader of the present generation now reads the one to roll back to.
LEMMA RenameCurrentKeepsRInv ==
    ASSUME IInv, RInv, RenameCurrent
    PROVE  RInv'
<1>1. /\ pc = "rename" /\ pc' = "sync"
      /\ rollback' = current
      /\ UNCHANGED <<generations, shards>>
      /\ current # None => Complete(current)
      /\ reader' = [reader EXCEPT !.age = IF @ < 2 THEN @ + 1 ELSE @]
  BY DEF RenameCurrent, IInv, StartIsComplete
<1>2. /\ reader'.pc = reader.pc /\ reader'.name = reader.name
      /\ reader'.manifest = reader.manifest /\ reader'.next = reader.next
      /\ reader'.age = IF reader.age < 2 THEN reader.age + 1 ELSE reader.age
      /\ reader' = [pc |-> reader'.pc, name |-> reader'.name, manifest |-> reader'.manifest,
                     next |-> reader'.next, age |-> reader'.age]
  BY <1>1 DEF RInv, ReaderIsKnown
<1>3. ReaderIsKnown'
  <2>1. reader.age \in 0 .. 2 /\ reader'.age \in 1 .. 2 /\ (reader'.age = 1 => reader.age = 0)
    BY <1>2 DEF RInv, ReaderIsKnown
  <2>2. QED
    BY <1>1, <1>2, <2>1 DEF RInv, ReaderIsKnown, Collecting, IsOwed, Complete, FilesOf
<1>4. QED
  BY <1>1, <1>3 DEF RInv, GenerationsAreNamed, RequestIsKnown, TargetHasResources, TargetIsNews,
     Name, Generation

LEMMA CollectRootsKeepsRInv ==
    ASSUME RInv, CollectRoots
    PROVE  RInv'
<1>1. /\ pc = "sync" /\ pc' = "gc_generations" /\ overlooked \subseteq overlooked'
      /\ UNCHANGED <<current, generations, shards, temps, rollback, reader>>
  BY DEF CollectRoots
<1>2. ReaderIsKnown'
  BY <1>1 DEF RInv, ReaderIsKnown, Collecting, IsOwed, Complete
<1>3. QED
  BY <1>1, <1>2 DEF RInv, GenerationsAreNamed, RequestIsKnown, TargetHasResources,
     TargetIsNews, Name, Generation

\* The two generations that a reader may be reading are retained.
LEMMA CollectGenerationsKeepsRInv ==
    ASSUME IInv, RInv, CollectGenerations
    PROVE  RInv'
<1>1. /\ pc = "gc_generations" /\ pc' = "gc_shards"
      /\ UNCHANGED <<current, shards, rollback, overlooked, reader>>
      /\ generations' = [g \in DOMAIN generations \cap Retained |-> generations[g]]
  BY DEF CollectGenerations
<1>2. /\ {current, rollback} \ (overlooked \union {None}) \subseteq Retained
      /\ current # None => current \in Retained /\ current \in DOMAIN generations
      /\ \A g \in Retained \ overlooked : g \in DOMAIN generations
  BY <1>1, RetainedAreComplete
<1>3. \A g \in DOMAIN generations' : g \in DOMAIN generations /\ generations'[g] = generations[g]
  BY <1>1
<1>4. /\ current # None => generations'[current] = generations[current]
      /\ rollback \notin overlooked \union {None} => generations'[rollback] = generations[rollback]
  BY <1>1, <1>2
<1>5. ReaderIsKnown'
  BY <1>1, <1>3, <1>4 DEF RInv, ReaderIsKnown, Collecting, IsOwed, Complete
<1>6. GenerationsAreNamed'
  BY <1>3 DEF RInv, GenerationsAreNamed, Name, Generation
<1>7. QED
  BY <1>1, <1>5, <1>6 DEF RInv, RequestIsKnown, TargetHasResources, TargetIsNews

LEMMA CollectShardsKeepsRInv ==
    ASSUME IInv, RInv, CollectShards
    PROVE  RInv'
<1>1. /\ pc = "gc_shards" /\ pc' = "reopen"
      /\ UNCHANGED <<current, generations, rollback, overlooked, reader>>
      /\ shards' = shards \cap retained
  BY DEF CollectShards
<1>2. /\ {current, rollback} \ (overlooked \union {None}) \subseteq Retained
      /\ \A g \in Retained \ overlooked : FilesOf(generations[g]) \subseteq retained
  BY <1>1, RetainedAreComplete DEF IInv, RootsAreKnown
<1>3. \A g \in {current, rollback} \ (overlooked \union {None}) :
          FilesOf(generations[g]) \subseteq retained
  BY <1>2
<1>4. reader.pc = "shards" /\ IsOwed => FilesOf(reader.manifest) \subseteq shards'
  BY <1>1, <1>3 DEF RInv, ReaderIsKnown, Collecting, IsOwed
<1>5. ReaderIsKnown'
  BY <1>1, <1>4 DEF RInv, ReaderIsKnown, Collecting, IsOwed, Complete
<1>6. QED
  BY <1>1, <1>5 DEF RInv, GenerationsAreNamed, RequestIsKnown, TargetHasResources, TargetIsNews,
     Name, Generation

-----------------------------------------------------------------------------
(* The reader.                                                             *)

LEMMA ReaderStepKeepsRInv ==
    ASSUME IInv, RInv, ReaderStep
    PROVE  RInv'
<1>1. UNCHANGED <<disk, writer>>
  BY DEF ReaderStep, ReadCurrent, ReadManifest, OpenShard, ReaderDone
<1>2. /\ UNCHANGED <<current, generations, shards, rollback, overlooked, pc, request, changes,
                     target, todo>>
      /\ 0 \in Numbers
  BY <1>1, ShardCountAssumption DEF disk, writer, session, plan, Numbers
<1>3. ASSUME ReadCurrent PROVE ReaderIsKnown'
  <2>1. reader' = [pc |-> "manifest", name |-> current, manifest |-> None, next |-> 0, age |-> 0]
    BY <1>3 DEF ReadCurrent, ClosedReader
  <2>2. /\ reader'.pc = "manifest" /\ reader'.name = current /\ reader'.age = 0
        /\ reader'.manifest = None /\ reader'.next = 0
    BY <2>1
  <2>3. reader' = [pc |-> reader'.pc, name |-> reader'.name, manifest |-> reader'.manifest,
                   next |-> reader'.next, age |-> reader'.age]
    BY <2>1, <2>2
  <2>4. current # None
    BY <1>3 DEF ReadCurrent
  <2>5. QED
    BY <1>2, <2>2, <2>3, <2>4 DEF ReaderIsKnown, IsOwed
<1>4. ASSUME ReadManifest PROVE ReaderIsKnown'
  <2>1. IsOwed => Complete(reader.name)
    BY <1>4 DEF ReadManifest, RInv, ReaderIsKnown, IsOwed, IInv, PublishedIsComplete,
       RollbackIsComplete
  <2>2. IsOwed
        => reader.name \in DOMAIN generations /\ FilesOf(generations[reader.name]) \subseteq shards
    BY <2>1 DEF Complete, FilesOf
  <2>3. CASE reader.name \in DOMAIN generations
    <3>1. reader' = [reader EXCEPT !.pc = "shards", !.manifest = generations[reader.name]]
      BY <1>4, <2>3 DEF ReadManifest
    <3>2. /\ reader'.pc = "shards" /\ reader'.manifest = generations[reader.name]
          /\ reader'.name = reader.name /\ reader'.age = reader.age /\ reader'.next = reader.next
          /\ reader' = [pc |-> reader'.pc, name |-> reader'.name, manifest |-> reader'.manifest,
                         next |-> reader'.next, age |-> reader'.age]
      BY <3>1 DEF RInv, ReaderIsKnown
    <3>3. reader.pc = "manifest"
      BY <1>4 DEF ReadManifest
    <3>4. /\ reader.age \in 0 .. 2
          /\ reader.age = 0 => current # None /\ reader.name = current
          /\ reader.age = 1 => rollback # None /\ reader.name = rollback
      BY <3>3 DEF RInv, ReaderIsKnown
    <3>5. reader'.next \in Numbers
      BY <1>2, <3>2, <3>3 DEF RInv, ReaderIsKnown
    <3>6. QED
      BY <1>2, <2>2, <3>2, <3>4, <3>5 DEF ReaderIsKnown, IsOwed
  <2>4. CASE reader.name \notin DOMAIN generations
    <3>1. reader' = [reader EXCEPT !.pc = "failed"]
      BY <1>4, <2>4 DEF ReadManifest
    <3>2. reader.age # 0 /\ reader.pc = "manifest"
      BY <1>4, <2>4, CurrentIsThere DEF ReadManifest, RInv, ReaderIsKnown
    <3>3. QED
      BY <1>2, <2>2, <2>4, <3>1, <3>2 DEF RInv, ReaderIsKnown, IsOwed
  <2>5. QED
    BY <2>3, <2>4
<1>5. ASSUME OpenShard PROVE ReaderIsKnown'
  <2>1. CASE reader.manifest.files[reader.next] \notin shards
    <3>1. reader.pc = "shards" /\ reader' = [reader EXCEPT !.pc = "failed"]
      BY <1>5, <2>1 DEF OpenShard
    <3>2. /\ ~IsOwed
          /\ reader.age = 0 => ~Complete(current)
      BY <2>1, <3>1 DEF RInv, ReaderIsKnown, FilesOf, Complete
    <3>3. QED
      BY <1>2, <3>1, <3>2 DEF RInv, ReaderIsKnown, IsOwed, Complete
  <2>2. CASE reader' = [reader EXCEPT !.pc = "open"]
    BY <2>2 DEF RInv, ReaderIsKnown
  <2>3. CASE reader.next # ShardCount - 1 /\ reader' = [reader EXCEPT !.next = @ + 1]
    <3>1. /\ reader'.pc = reader.pc /\ reader'.manifest = reader.manifest
          /\ reader'.name = reader.name /\ reader'.age = reader.age /\ reader'.next = reader.next + 1
          /\ reader' = [pc |-> reader'.pc, name |-> reader'.name, manifest |-> reader'.manifest,
                         next |-> reader'.next, age |-> reader'.age]
      BY <2>3 DEF RInv, ReaderIsKnown
    <3>2. reader.pc = "shards"
      BY <1>5 DEF OpenShard
    <3>3. reader'.next \in Numbers
      BY <2>3, <3>1, <3>2, ShardCountAssumption DEF RInv, ReaderIsKnown, Numbers
    <3>4. QED
      BY <1>2, <3>1, <3>2, <3>3 DEF RInv, ReaderIsKnown, IsOwed
  <2>4. QED
    BY <1>5, <2>1, <2>2, <2>3 DEF OpenShard
<1>6. ASSUME ReaderDone PROVE ReaderIsKnown'
  BY <1>2, <1>6 DEF ReaderDone, ClosedReader, ReaderIsKnown
<1>7. ReaderIsKnown'
  BY <1>3, <1>4, <1>5, <1>6 DEF ReaderStep
<1>8. QED
  BY <1>2, <1>7 DEF RInv, GenerationsAreNamed, RequestIsKnown, TargetHasResources, TargetIsNews,
     IsNew, IsTaken, IsGone, KeysOf, Name, Generation

-----------------------------------------------------------------------------
LEMMA InitRInv == Init => RInv
<1> SUFFICES ASSUME Init PROVE RInv
  OBVIOUS
<1>1. pc = "idle" /\ reader = ClosedReader
  BY DEF Init
<1>2. ReaderIsKnown
  BY <1>1 DEF ReaderIsKnown, ClosedReader
<1>3. GenerationsAreNamed
  <2>1. CASE generations = [g \in {} |-> None]
    BY <2>1 DEF GenerationsAreNamed
  <2>2. CASE \E batch \in Batches : ~HasDuplicates(batch) /\ Holds(LegacyManifest(batch))
    <3> PICK batch \in Batches : ~HasDuplicates(batch) /\ Holds(LegacyManifest(batch))
      BY <2>2
    <3> DEFINE m == LegacyManifest(batch)
    <3>1. AreResources(m.resources)
      BY LegacyHasResources
    <3>2. DOMAIN generations = {Name(m)} /\ generations[Name(m)] = m
      BY DEF Holds
    <3>3. QED
      BY <3>1, <3>2 DEF GenerationsAreNamed
  <2>3. QED
    BY <2>1, <2>2 DEF Init
<1>4. QED
  BY <1>1, <1>2, <1>3 DEF RInv, RequestIsKnown, TargetHasResources, TargetIsNews

LEMMA NextKeepsRInv == IInv /\ RInv /\ ForwardNeverLies /\ [Next]_vars => RInv'
<1> SUFFICES ASSUME IInv, RInv, ForwardNeverLies, [Next]_vars PROVE RInv'
  OBVIOUS
<1>1. CASE Submit
  <2>1. RequestIsKnown'
    BY <1>1 DEF Submit, RequestIsKnown, IngestRequests, RetireRequests, DurationRequests
  <2>2. QED
    BY <1>1, <2>1, QuietKeepsRInv DEF Submit
<1>2. CASE Ingest
  BY <1>2, IngestKeepsRInv
<1>3. CASE Retire \/ Rehash \/ SetDurations
  BY <1>3, RetireKeepsRInv, RehashKeepsRInv, SetDurationsKeepsRInv
<1>4. CASE WriteShard \/ FillShard \/ ShardsDone
  BY <1>4, WriteShardKeepsRInv, FillShardKeepsRInv, ShardsDoneKeepsRInv
<1>5. CASE WriteManifest \/ RenameCurrent
  BY <1>5, WriteManifestKeepsRInv, RenameCurrentKeepsRInv
<1>6. CASE CollectRoots \/ CollectGenerations \/ CollectShards
  BY <1>6, CollectRootsKeepsRInv, CollectGenerationsKeepsRInv, CollectShardsKeepsRInv
<1>7. CASE Reopen
  BY <1>7, AnswerKeepsRInv DEF Reopen
<1>8. CASE Stop
  BY <1>8, QuietKeepsRInv DEF Stop, Closed, RequestIsKnown
<1>9. CASE ReaderStep
  BY <1>9, ReaderStepKeepsRInv
<1>10. CASE UNCHANGED vars
  BY <1>10 DEF vars, disk, writer, session, plan, RInv, RequestIsKnown, GenerationsAreNamed,
     TargetHasResources, TargetIsNews, ReaderIsKnown, IsOwed, Complete, IsNew, IsTaken, IsGone, KeysOf, Name,
     Generation
<1>11. QED
  BY <1>1, <1>2, <1>3, <1>4, <1>5, <1>6, <1>7, <1>8, <1>9, <1>10 DEF Next, WriterStep

\* Where forward reads back what was stored, a reader that has read CURRENT
\* without a lock is not broken by one publication and its collection, whatever
\* store.rs publishes and wherever it is stopped, unless the collection could
\* not read the manifest of the reader's generation.
THEOREM ReadersSurviveOnePublication ==
    Spec /\ []ForwardNeverLies => []ReaderSurvivesOnePublication
<1>1. IInv /\ RInv => ReaderSurvivesOnePublication
  BY DEF IInv, PublishedIsComplete, RInv, ReaderIsKnown, ReaderSurvivesOnePublication
<1>2. Spec => []IInv
  BY StoreInvariant
<1>3. QED
  BY <1>1, <1>2, InitRInv, NextKeepsRInv, PTL DEF Spec

-----------------------------------------------------------------------------
(* Store implements Catalog.                                               *)

\* The numbers of a resource are numbers and its identity a hash.
IsTyped(r) == r.id \in Nat /\ r.duration \in Nat /\ r.hash \in HashType

\* No two resources share an id.
HasUniqueIds(S) == \A r, s \in S : r.id = s.id => r = s

\* A manifest that a request may start from: a few resources, with ids of their
\* own, and under the prints-v1 profile the identities their prints give them.
IsFine(m) ==
    /\ IsFiniteSet(m.resources) /\ m.resources # {}
    /\ HasUniqueIds(m.resources)
    /\ \A r \in m.resources :
          IsTyped(r) /\ (m.profile => r.hash = ContentHash(r.hash.prints))
    /\ m.profile \in BOOLEAN

\* CURRENT names such a manifest, or nothing.
CatalogIsFine == current # None => IsFine(generations[current])

\* A request that waits at its first step carries what Submit gave it.
RequestIsTyped ==
    pc = "open" =>
        \/ request.type = "ingest" /\ request.batch \in Batches
        \/ request.type \in {"retire", "rehash"}
        \/ request.type = "durations" /\ request.updates \in DurationFiles

\* What the request adds or replaces, what it retires, and the keys of both.
Members == IF request.type = "ingest" THEN IngestChanges(Base, request.batch) ELSE {}
Gone == IF request.type = "retire" THEN {request.key} ELSE {}
Replaced == Gone \union { c.key : c \in Members }

\* A resource of the old manifest that the request does not replace; rebuilding
\* its shard may give it the identity of its prints, and nothing else.
IsKept(r) ==
    \E s \in Base.resources :
        /\ r.key = s.key /\ r.id = s.id /\ r.duration = s.duration
        /\ r.hash \in {s.hash, ContentHash(s.hash.prints)}
        /\ ShardOf[s.key] \in todo => r = s
        /\ s.key \notin Replaced

\* A resource that stands for one of the changes.
IsBuilt(r) ==
    \E c \in Members : /\ r.key = c.key /\ r.id = c.id /\ r.duration = c.duration
                       /\ r.hash = ContentHash(c.prints)

\* How far the rebuilding has come: the target has kept or built resources only,
\* and lacks no kept one, nor a built one of a shard that is done.
TargetIsDue ==
    /\ target.profile = Base.profile
    /\ changes = Members
    /\ opened = Base
    /\ \A r \in target.resources : IsKept(r) \/ IsBuilt(r)
    /\ \A s \in Base.resources : s.key \in KeysOf(target) \/ s.key \in Replaced
    /\ \A c \in Members : c.key \in KeysOf(target) \/ ShardOf[c.key] \in todo
    /\ pc \in {"publish", "rename"} => todo = {}
    /\ pc = "fill" => \A r \in KeptInfos : Readable(opened, r)

\* The request in progress passed the checks of its kind against the old manifest;
\* a rehash or a duration update has its whole target by then.
IngestIsAccepted ==
    /\ request.type = "ingest"
    /\ request.batch \in Batches
    /\ IngestRefusal(Base, request.batch, request.replace) = "none"
    /\ Members # {}

RetireIsAccepted ==
    /\ request.type = "retire"
    /\ current # None
    /\ request.key \in KeysOf(Base)
    /\ Cardinality(Base.resources) # 1

RehashIsAccepted ==
    /\ request.type = "rehash"
    /\ current # None
    /\ \A r \in Base.resources : Readable(Base, r)
    /\ target = Rehashed(Base)
    /\ target # Base

DurationsAreAccepted ==
    /\ request.type = "durations"
    /\ current # None
    /\ request.updates \in DurationFiles
    /\ ValidDurations(Base, request.expected, request.updates)
    /\ target = WithDurations(Base, request.updates)
    /\ target # Base

\* Past the first step the request was accepted, and its target is due or whole.
RequestIsAccepted ==
    pc \in {"shards", "fill", "publish", "rename"} =>
      \/ (IngestIsAccepted \/ RetireIsAccepted) /\ TargetIsDue
      \/ (RehashIsAccepted \/ DurationsAreAccepted) /\ pc \in {"publish", "rename"}

\* At the rename the target lies under the name CURRENT will give.
ManifestIsWritten ==
    pc = "rename" => Name(target) \in DOMAIN generations /\ generations[Name(target)] = target

\* The strengthening under which every step is one of the contract's.
CInv == RequestIsTyped /\ CatalogIsFine /\ RequestIsAccepted /\ ManifestIsWritten
-----------------------------------------------------------------------------

-----------------------------------------------------------------------------
(* What the catalog shows of the store.                                    *)

\* The contract counts as the store does.
LEMMA SameCount == \A S : Contract!Cardinality(S) = Cardinality(S)
BY DEF Cardinality, Contract!Cardinality

Shown(r) == [id |-> r.id, duration |-> r.duration, prints |-> r.hash.prints]

ViewOf(S) ==
    [k \in { r.key : r \in S } |->
        LET r == CHOOSE r \in S : r.key = k
        IN  [id |-> r.id, duration |-> r.duration, prints |-> r.hash.prints]]

\* A set of resources, one for each key, seen as a map from keys.
LEMMA ViewShows ==
    ASSUME NEW S, HasUniqueKeys(S)
    PROVE  /\ DOMAIN ViewOf(S) = { r.key : r \in S }
           /\ \A r \in S : r.key \in DOMAIN ViewOf(S) /\ ViewOf(S)[r.key] = Shown(r)
<1>1. ASSUME NEW r \in S
      PROVE  ViewOf(S)[r.key] = Shown(r)
  <2>1. (CHOOSE s \in S : s.key = r.key) = r
    BY DEF HasUniqueKeys
  <2>2. QED
    BY <2>1 DEF ViewOf, Shown
<1>2. QED
  BY <1>1 DEF ViewOf

\* The catalog is what the manifest of CURRENT shows, and empty without one.
LEMMA CatalogIsView ==
    /\ current # None => CatalogView = ViewOf(generations[current].resources)
    /\ current = None => CatalogView = ViewOf({})
<1>1. ASSUME current # None PROVE CatalogView = ViewOf(generations[current].resources)
  BY <1>1 DEF CatalogView, ViewOf, KeysOf, InfoOf
<1>2. ASSUME current = None PROVE CatalogView = ViewOf({})
  BY <1>2 DEF CatalogView, ViewOf
<1>3. QED
  BY <1>1, <1>2

\* Everything that is known of a state.
Sound == IInv /\ RInv /\ CInv /\ ForwardNeverLies

\* The manifest a request starts from, whether or not all its files are there.
LEMMA BaseIsKnown ==
    ASSUME IInv, RInv
    PROVE  /\ IsManifest(Base)
           /\ AreResources(Base.resources)
           /\ current # None => Base = generations[current] /\ current = Name(Base)
BY DEF IInv, PublishedIsListed, GenerationsAreManifests, RInv, GenerationsAreNamed, Base,
   EmptyManifest, IsManifest, AreResources, HasUniqueKeys

\* What a request starts from, and the catalog that shows it.
LEMMA BaseFacts ==
    ASSUME Sound
    PROVE  /\ current # None => /\ Base = generations[current]
                                /\ current = Name(Base)
                                /\ current.profile = Base.profile
                                /\ Base.resources # {}
           /\ current = None => Base = EmptyManifest /\ Base.resources = {} /\ Base.profile
           /\ IsManifest(Base)
           /\ AreResources(Base.resources)
           /\ IsFiniteSet(Base.resources)
           /\ HasUniqueIds(Base.resources)
           /\ Base.profile \in BOOLEAN
           /\ \A r \in Base.resources : /\ IsTyped(r)
                                        /\ Base.profile => r.hash = ContentHash(r.hash.prints)
                                        /\ Readable(Base, r) => Stored(Base, r) = r.hash.prints
           /\ DOMAIN CatalogView = KeysOf(Base)
           /\ \A r \in Base.resources : r.key \in KeysOf(Base) /\ CatalogView[r.key] = Shown(r)
<1>2. IsManifest(Base) /\ AreResources(Base.resources)
  BY BaseIsKnown DEF Sound
<1>3. CASE current # None
  <2>1. Base = generations[current] /\ current = Name(Base) /\ IsFine(Base)
    BY <1>3, BaseIsKnown DEF Sound, CInv, CatalogIsFine
  <2>2. current.profile = Base.profile
    <3>1. Name(Base).profile = Base.profile
      BY DEF Name, Generation
    <3>2. QED
      BY <2>1, <3>1
  <2>3. CatalogView = ViewOf(Base.resources)
    BY <1>3, <2>1, CatalogIsView
  <2>4. \A r \in Base.resources : Readable(Base, r) => Stored(Base, r) = r.hash.prints
    BY <1>3, <2>1 DEF Sound, ForwardNeverLies
  <2>5. QED
    BY <1>2, <1>3, <2>1, <2>2, <2>3, <2>4, ViewShows DEF IsFine, KeysOf, AreResources
<1>4. CASE current = None
  <2>1. Base = EmptyManifest /\ Base.resources = {} /\ Base.profile = TRUE
    BY <1>4 DEF Base, EmptyManifest
  <2>2. CatalogView = ViewOf(Base.resources)
    BY <1>4, <2>1, CatalogIsView
  <2>3. IsFiniteSet(Base.resources)
    BY <2>1, FS_EmptySet
  <2>4. QED
    BY <1>2, <1>4, <2>1, <2>2, <2>3, ViewShows DEF KeysOf, AreResources, HasUniqueIds
<1>5. QED
  BY <1>3, <1>4

\* The resource that a manifest lists under a key.
LEMMA InfoIsThere ==
    ASSUME NEW m, AreResources(m.resources), NEW r \in m.resources
    PROVE  InfoOf(m, r.key) = r
BY DEF InfoOf, AreResources, HasUniqueKeys

\* Identities by content agree where the prints do.
LEMMA SameHash == \A p, q : ContentHash(p) = ContentHash(q) <=> p = q
<1>1. \A p : ContentHash(p).prints = p
  BY DEF ContentHash
<1>2. QED
  BY <1>1

\* A resource whose identity can be told is found unchanged where the catalog
\* has the same prints under its key.
LEMMA UnchangedIsSame ==
    ASSUME Sound, NEW r, ~Unidentifiable(Base, r)
    PROVE  IsUnchanged(Base, r) <=> Contract!Same(r)
<1>1. CASE Existing(Base, r)
  <2>1. PICK s \in Base.resources : s.key = r.key
    BY <1>1 DEF Existing, KeysOf
  <2>2. InfoOf(Base, r.key) = s
    BY <2>1, BaseFacts, InfoIsThere
  <2>3. Identity(Base, s) = ContentHash(s.hash.prints)
    <3>1. CASE Base.profile
      BY <3>1, BaseFacts DEF Identity
    <3>2. CASE ~Base.profile
      <4>1. Readable(Base, s)
        BY <1>1, <2>2, <3>2 DEF Unidentifiable
      <4>2. Stored(Base, s) = s.hash.prints
        BY <4>1, BaseFacts
      <4>3. QED
        BY <3>2, <4>2 DEF Identity
    <3>3. QED
      BY <3>1, <3>2
  <2>4. r.key \in DOMAIN CatalogView /\ CatalogView[r.key].prints = s.hash.prints
    <3>1. Shown(s).prints = s.hash.prints
      BY DEF Shown
    <3>2. s.key \in KeysOf(Base) /\ CatalogView[s.key] = Shown(s) /\ DOMAIN CatalogView = KeysOf(Base)
      BY BaseFacts
    <3>3. QED
      BY <2>1, <3>1, <3>2
  <2>5. QED
    BY <1>1, <2>2, <2>3, <2>4, SameHash DEF IsUnchanged, Contract!Same
<1>2. CASE ~Existing(Base, r)
  <2>1. r.key \notin DOMAIN CatalogView
    BY <1>2, BaseFacts DEF Existing
  <2>2. QED
    BY <1>2, <2>1 DEF IsUnchanged, Contract!Same
<1>3. QED
  BY <1>1, <1>2

-----------------------------------------------------------------------------
(* Ids.                                                                    *)

\* No resource has an id beyond LastId.
LEMMA LastIdIsLast ==
    ASSUME NEW m, IsFiniteSet(m.resources), \A r \in m.resources : r.id \in Nat
    PROVE  /\ LastId(m) \in Nat
           /\ \A r \in m.resources : r.id <= LastId(m)
           /\ m.resources # {} => \E r \in m.resources : r.id = LastId(m)
<1>1. CASE m.resources = {}
  BY <1>1 DEF LastId
<1>2. CASE m.resources # {}
  <2> DEFINE f == [r \in m.resources |-> r.id]
             ids == { r.id : r \in m.resources }
  <2>1. f \in [m.resources -> Nat]
    OBVIOUS
  <2> HIDE DEF f
  <2>2. PICK last \in m.resources : \A r \in m.resources : f[r] <= f[last]
    BY <1>2, <2>1, LastMember
  <2>3. \A r \in m.resources : r.id <= last.id
    BY <2>2 DEF f
  <2>4. last.id \in ids /\ \A x \in ids : last.id >= x
    BY <2>3
  <2>5. Max(ids) \in ids /\ \A x \in ids : Max(ids) >= x
    BY <2>4 DEF Max
  <2>6. LastId(m) = Max(ids)
    BY <1>2 DEF LastId
  <2>7. QED
    BY <2>5, <2>6
<1>3. QED
  BY <1>1, <1>2

\* New keys get ids of their own after the last one, as many as there are keys.
LEMMA FreshIds ==
    ASSUME NEW m, LastId(m) \in Nat, NEW batch \in Batches, ~HasDuplicates(batch)
    PROVE  /\ IsFiniteSet(Fresh(m, batch))
           /\ Cardinality(Fresh(m, batch)) \in Nat
           /\ Cardinality(Fresh(m, batch)) <= Cardinality(batch)
           /\ \A r \in Fresh(m, batch) :
                /\ FreshId(m, batch, r) \in Nat
                /\ LastId(m) < FreshId(m, batch, r)
                /\ FreshId(m, batch, r) <= LastId(m) + Cardinality(Fresh(m, batch))
           /\ \A r, s \in Fresh(m, batch) : FreshId(m, batch, r) = FreshId(m, batch, s) => r = s
           /\ Fresh(m, batch) # {} =>
                \E r \in Fresh(m, batch) :
                    FreshId(m, batch, r) = LastId(m) + Cardinality(Fresh(m, batch))
<1> DEFINE S == Fresh(m, batch)
           f == [r \in S |-> r.key]
           Upto(r) == { x \in S : f[x] <= f[r] }
<1>1. S \in SUBSET batch /\ IsFiniteSet(batch)
  BY BatchesAssumption DEF Fresh
<1>2. IsFiniteSet(S) /\ Cardinality(S) <= Cardinality(batch) /\ Cardinality(S) \in Nat
  BY <1>1, FS_Subset, FS_CardinalityType
<1>3. \A r \in S : r.key \in Nat
  BY <1>1, BatchesAssumption, KeysAssumption
<1>4. f \in [S -> Nat] /\ \A r \in S : f[r] = r.key
  BY <1>3
<1>5. \A r, s \in S : r.key = s.key => r = s
  BY <1>1 DEF HasDuplicates
<1>6. \A r \in S : FreshId(m, batch, r) = LastId(m) + Cardinality(Upto(r))
  <2>1. ASSUME NEW r \in S PROVE Upto(r) = { s \in S : s.key <= r.key }
    BY <1>4
  <2>2. QED
    BY <2>1 DEF FreshId
<1> HIDE DEF S, f
<1>7. ASSUME NEW r \in S
      PROVE  /\ Cardinality(Upto(r)) \in Nat
             /\ Cardinality(Upto(r)) <= Cardinality(S)
             /\ Cardinality(Upto(r)) # 0
  <2>1. Upto(r) \in SUBSET S
    OBVIOUS
  <2>2. r \in Upto(r)
    BY <1>4
  <2>3. IsFiniteSet(Upto(r)) /\ Cardinality(Upto(r)) <= Cardinality(S)
    BY <1>2, <2>1, FS_Subset
  <2>4. QED
    BY <2>2, <2>3, FS_CardinalityType, FS_EmptySet
<1>8. \A r, s \in S : f[r] < f[s] => Cardinality(Upto(r)) < Cardinality(Upto(s))
  BY <1>2, <1>4, RankGrows
<1>9. S # {} => \E r \in S : Cardinality(Upto(r)) = Cardinality(S)
  <2> SUFFICES ASSUME S # {} PROVE \E r \in S : Cardinality(Upto(r)) = Cardinality(S)
    OBVIOUS
  <2>1. PICK r \in S : \A s \in S : f[s] <= f[r]
    BY <1>2, <1>4, LastMember
  <2>2. Upto(r) = S
    BY <2>1
  <2>3. QED
    BY <2>2
<1> HIDE DEF Upto
<1>10. \A r, s \in S : FreshId(m, batch, r) = FreshId(m, batch, s) => r = s
  <2> SUFFICES ASSUME NEW r \in S, NEW s \in S, FreshId(m, batch, r) = FreshId(m, batch, s)
               PROVE  r = s
    OBVIOUS
  <2>1. Cardinality(Upto(r)) = Cardinality(Upto(s))
    BY <1>6, <1>7
  <2>2. ~ (f[r] < f[s]) /\ ~ (f[s] < f[r])
    BY <1>7, <1>8, <2>1
  <2>3. f[r] = f[s]
    BY <1>4, <2>2
  <2>4. QED
    BY <1>4, <1>5, <2>3
<1>11. QED
  BY <1>2, <1>6, <1>7, <1>9, <1>10 DEF S

\* A change of a stored resource keeps its id, any other takes one that nothing
\* else has.
LEMMA ChangesAreFine ==
    ASSUME NEW m, IsFiniteSet(m.resources), HasUniqueIds(m.resources),
           AreResources(m.resources), \A r \in m.resources : r.id \in Nat,
           NEW batch \in Batches, ~HasDuplicates(batch)
    PROVE  /\ \A c \in IngestChanges(m, batch) :
                /\ c.key \in Keys /\ c.id \in Nat /\ c.duration \in Nat /\ c.prints \in Seq(Fingerprint)
                /\ \E r \in batch : c.key = r.key /\ c.duration = r.duration /\ c.prints = r.prints
           /\ \A c, d \in IngestChanges(m, batch) : c.id = d.id => c = d
           /\ \A c \in IngestChanges(m, batch), r \in m.resources : c.id = r.id <=> c.key = r.key
<1> DEFINE Id(r) == IF Existing(m, r) THEN InfoOf(m, r.key).id ELSE FreshId(m, batch, r)
           Change(r) == [key |-> r.key, duration |-> r.duration, prints |-> r.prints, id |-> Id(r)]
<1>1. IngestChanges(m, batch) = { Change(r) : r \in { r \in batch : ~IsUnchanged(m, r) } }
  BY DEF IngestChanges
<1>2. \A r : /\ Change(r).key = r.key /\ Change(r).duration = r.duration
             /\ Change(r).prints = r.prints /\ Change(r).id = Id(r)
  OBVIOUS
<1>3. \A r \in batch : r.key \in Keys /\ r.duration \in Nat /\ r.prints \in Seq(Fingerprint)
  BY BatchesAssumption
<1>4. \A r, s \in batch : r.key = s.key => r = s
  BY DEF HasDuplicates
<1>5. LastId(m) \in Nat /\ \A r \in m.resources : r.id <= LastId(m)
  BY LastIdIsLast
<1>6. ASSUME NEW r \in batch, Existing(m, r)
      PROVE  \E s \in m.resources : s.key = r.key /\ Id(r) = s.id
  <2>1. PICK s \in m.resources : s.key = r.key
    BY <1>6 DEF Existing, KeysOf
  <2>2. InfoOf(m, r.key) = s
    BY <2>1, InfoIsThere
  <2>3. QED
    BY <1>6, <2>1, <2>2
<1>7. ASSUME NEW r \in batch, ~Existing(m, r)
      PROVE  r \in Fresh(m, batch) /\ Id(r) = FreshId(m, batch, r)
  BY <1>7 DEF Fresh
<1>8. ASSUME NEW r \in batch, NEW s \in m.resources
      PROVE  Id(r) \in Nat /\ (Id(r) = s.id <=> r.key = s.key)
  <2>1. CASE Existing(m, r)
    BY <1>6, <2>1 DEF HasUniqueIds, AreResources, HasUniqueKeys
  <2>2. CASE ~Existing(m, r)
    <3>1. r.key # s.key
      BY <2>2 DEF Existing, KeysOf
    <3>2. Id(r) \in Nat /\ LastId(m) < Id(r)
      BY <1>5, <1>7, <2>2, FreshIds
    <3>3. s.id <= LastId(m) /\ s.id \in Nat
      BY <1>5
    <3>4. QED
      BY <1>5, <3>1, <3>2, <3>3
  <2>3. QED
    BY <2>1, <2>2
<1>9. ASSUME NEW r \in batch, NEW s \in batch, Id(r) = Id(s)
      PROVE  r = s
  <2>1. CASE Existing(m, r)
    BY <1>4, <1>6, <1>8, <1>9, <2>1
  <2>2. CASE Existing(m, s)
    BY <1>4, <1>6, <1>8, <1>9, <2>2
  <2>3. CASE ~Existing(m, r) /\ ~Existing(m, s)
    BY <1>5, <1>7, <1>9, <2>3, FreshIds
  <2>4. QED
    BY <2>1, <2>2, <2>3
<1>10. ASSUME NEW r \in batch
       PROVE  Id(r) \in Nat
  <2>1. CASE Existing(m, r)
    BY <1>6, <2>1
  <2>2. CASE ~Existing(m, r)
    BY <1>5, <1>7, <2>2, FreshIds
  <2>3. QED
    BY <2>1, <2>2
<1> HIDE DEF Id, Change
<1>11. QED
  BY <1>1, <1>2, <1>3, <1>8, <1>9, <1>10

-----------------------------------------------------------------------------
(* What is answered before anything is prepared.                           *)

\* What the checks of ingest let through.
LEMMA IngestIsTaken ==
    ASSUME NEW m, NEW batch, NEW replace, IngestRefusal(m, batch, replace) = "none"
    PROVE  /\ batch # {} /\ ~HasDuplicates(batch)
           /\ ~(LastId(m) + Spare(m) > MaxId)
           /\ \A r \in batch : /\ ~Unidentifiable(m, r)
                               /\ ~Conflicts(m, r, replace)
                               /\ ~IdsExhausted(m, batch, r)
BY DEF IngestRefusal

\* What they refuse, and for which reasons.
LEMMA IngestIsRefused ==
    ASSUME NEW m, NEW batch \in Batches, NEW replace,
           IngestRefusal(m, batch, replace) # "none",
           IngestRefusal(m, batch, replace) # "internal"
    PROVE  /\ IngestRefusal(m, batch, replace) = "bad_request"
           /\ \/ batch = {}
              \/ HasDuplicates(batch)
              \/ LastId(m) + Spare(m) > MaxId
              \/ /\ ~HasDuplicates(batch)
                 /\ \E r \in batch : \/ Conflicts(m, r, replace) /\ ~Unidentifiable(m, r)
                                     \/ IdsExhausted(m, batch, r)
<1> DEFINE refused == { r \in batch : \/ Unidentifiable(m, r)
                                      \/ Conflicts(m, r, replace)
                                      \/ IdsExhausted(m, batch, r) }
           first == CHOOSE r \in refused : \A s \in refused : r.key <= s.key
           malformed == batch = {} \/ HasDuplicates(batch) \/ LastId(m) + Spare(m) > MaxId
<1>1. IngestRefusal(m, batch, replace) =
        IF malformed THEN "bad_request"
        ELSE IF refused = {} THEN "none"
        ELSE IF Unidentifiable(m, first) THEN "internal" ELSE "bad_request"
  BY DEF IngestRefusal
<1>2. ASSUME refused # {} PROVE first \in refused
  <2> DEFINE keys == { r.key : r \in refused }
  <2>1. keys \in SUBSET Nat /\ keys # {}
    BY <1>2, BatchesAssumption, KeysAssumption
  <2>2. \E x \in keys : \A y \in keys : x <= y
    BY <2>1, LeastElement
  <2>3. \E r \in refused : \A s \in refused : r.key <= s.key
    BY <2>2
  <2>4. QED
    BY <2>3
<1> HIDE DEF refused, first
<1>3. CASE malformed
  BY <1>1, <1>3
<1>4. CASE ~malformed
  <2>1. refused # {} /\ ~Unidentifiable(m, first)
    BY <1>1, <1>4
  <2>2. first \in refused
    BY <1>2, <2>1
  <2>3. first \in batch /\ (Conflicts(m, first, replace) \/ IdsExhausted(m, batch, first))
    BY <2>1, <2>2 DEF refused
  <2>4. QED
    BY <1>1, <1>4, <2>1, <2>3
<1>5. QED
  BY <1>3, <1>4

\* The ids of the catalog are those of the manifest.
LEMMA IdsAreShown ==
    ASSUME Sound
    PROVE  Contract!Ids = { r.id : r \in Base.resources }
<1>1. \A r : Shown(r).id = r.id
  BY DEF Shown
<1>2. /\ DOMAIN CatalogView = { r.key : r \in Base.resources }
      /\ \A r \in Base.resources : CatalogView[r.key].id = r.id
  BY <1>1, BaseFacts DEF KeysOf
<1>3. QED
  BY <1>2 DEF Contract!Ids

\* The keys that are new to the manifest are new to the catalog.
LEMMA FreshIsShown ==
    ASSUME Sound, NEW batch
    PROVE  { r \in batch : r.key \notin DOMAIN CatalogView } = Fresh(Base, batch)
BY BaseFacts DEF Fresh, Existing

\* An ingest that the store takes is one the contract lets through.
LEMMA TakenCanBeIngested ==
    ASSUME Sound, request.batch \in Batches,
           IngestRefusal(Base, request.batch, request.replace) = "none"
    PROVE  Contract!CanIngest(request)
<1> DEFINE batch == request.batch
           last == LastId(Base)
           fresh == Cardinality(Fresh(Base, batch))
<1>1. /\ batch # {} /\ ~HasDuplicates(batch)
      /\ ~(last + Spare(Base) > MaxId)
      /\ \A r \in batch : /\ ~Unidentifiable(Base, r)
                          /\ ~Conflicts(Base, r, request.replace)
                          /\ ~IdsExhausted(Base, batch, r)
  BY IngestIsTaken
<1>2. Contract!OnePerKey(batch)
  BY <1>1 DEF HasDuplicates, Contract!OnePerKey
<1>3. last \in Nat /\ \A r \in Base.resources : r.id <= last
  BY BaseFacts, LastIdIsLast DEF IsTyped
<1>4. Spare(Base) \in {0, 1} /\ MaxId \in Nat
  BY LimitsAssumption DEF Spare
<1>5. Contract!IdsLeft(batch)
  <2>1. last + fresh <= MaxId
    <3>1. fresh \in Nat
      BY <1>1, <1>3, FreshIds
    <3>2. CASE Fresh(Base, batch) = {}
      <4>1. fresh = 0
        BY <3>2, FS_EmptySet
      <4>2. QED
        BY <1>1, <1>3, <1>4, <4>1
    <3>3. CASE Fresh(Base, batch) # {}
      <4>1. PICK r \in Fresh(Base, batch) : FreshId(Base, batch, r) = last + fresh
        BY <1>1, <1>3, <3>3, FreshIds
      <4>2. r \in batch /\ ~Existing(Base, r)
        BY DEF Fresh
      <4>3. ~(last + fresh + Spare(Base) > MaxId)
        BY <1>1, <4>1, <4>2 DEF IdsExhausted
      <4>4. QED
        BY <1>3, <1>4, <3>1, <4>3
    <3>4. QED
      BY <3>2, <3>3
  <2>2. last \in 0 .. MaxId
    <3>1. fresh \in Nat
      BY <1>1, <1>3, FreshIds
    <3>2. QED
      BY <1>3, <1>4, <2>1, <3>1
  <2>3. \A id \in Contract!Ids : id <= last
    BY <1>3, IdsAreShown
  <2>4. Cardinality({ r \in batch : r.key \notin DOMAIN CatalogView }) = fresh
    BY FreshIsShown
  <2> HIDE DEF last, fresh, batch
  <2>5. QED
    BY <2>1, <2>2, <2>3, <2>4, SameCount DEF Contract!IdsLeft
<1>6. request.replace \/ \A res \in batch : res.key \in DOMAIN CatalogView => Contract!Same(res)
  BY <1>1, UnchangedIsSame, BaseFacts DEF Conflicts, Existing
<1>7. QED
  BY <1>1, <1>2, <1>5, <1>6 DEF Contract!CanIngest

\* One that it refuses the contract refuses, or it is short of ids.
LEMMA RefusedCannotBeIngested ==
    ASSUME Sound, request.batch \in Batches,
           IngestRefusal(Base, request.batch, request.replace) # "none",
           IngestRefusal(Base, request.batch, request.replace) # "internal"
    PROVE  ~Contract!CanIngest(request) \/ Contract!ShortOfIds(request.batch)
<1> DEFINE batch == request.batch
           last == LastId(Base)
<1>1. /\ last \in Nat
      /\ Base.resources # {} => \E r \in Base.resources : r.id = last
  BY BaseFacts, LastIdIsLast DEF IsTyped
<1>2. Cardinality(batch) \in Nat /\ MaxId \in Nat
  BY BatchesAssumption, LimitsAssumption, FS_CardinalityType
<1>3. /\ Base.resources # {} => last \in Contract!Ids /\ Spare(Base) = 1
      /\ Base.resources = {} => Spare(Base) = 0 /\ last = 0
  <2>1. Base.resources # {} => last \in Contract!Ids
    BY <1>1, IdsAreShown
  <2>2. Base.resources # {} <=> Base # EmptyManifest
    BY BaseFacts DEF EmptyManifest
  <2>3. QED
    BY <2>1, <2>2 DEF Spare, LastId
<1>4. ASSUME Base.resources # {}, NEW n \in Nat, n <= Cardinality(batch), last + n + 1 > MaxId
      PROVE  Contract!ShortOfIds(batch)
  <2>1. last + Cardinality(batch) + 1 > MaxId
    BY <1>1, <1>2, <1>4
  <2>2. QED
    BY <1>3, <1>4, <2>1, SameCount DEF Contract!ShortOfIds
<1>5. CASE batch = {} \/ HasDuplicates(batch)
  BY <1>5 DEF HasDuplicates, Contract!CanIngest, Contract!OnePerKey
<1>6. CASE last + Spare(Base) > MaxId
  <2>1. Base.resources # {} /\ last + 0 + 1 > MaxId
    BY <1>1, <1>2, <1>3, <1>6
  <2>2. QED
    BY <1>2, <1>4, <2>1
<1>7. CASE \E r \in batch : Conflicts(Base, r, request.replace) /\ ~Unidentifiable(Base, r)
  <2>1. PICK r \in batch : Conflicts(Base, r, request.replace) /\ ~Unidentifiable(Base, r)
    BY <1>7
  <2>2. r.key \in DOMAIN CatalogView /\ ~Contract!Same(r) /\ ~request.replace
    BY <2>1, UnchangedIsSame, BaseFacts DEF Conflicts, Existing
  <2>3. QED
    BY <2>2 DEF Contract!CanIngest
<1>8. CASE ~HasDuplicates(batch) /\ \E r \in batch : IdsExhausted(Base, batch, r)
  <2> DEFINE fresh == Cardinality(Fresh(Base, batch))
             id == FreshId(Base, batch, CHOOSE r \in batch : IdsExhausted(Base, batch, r))
  <2>1. PICK r \in batch : IdsExhausted(Base, batch, r)
    BY <1>8
  <2>2. r \in Fresh(Base, batch) /\ FreshId(Base, batch, r) + Spare(Base) > MaxId
    BY <2>1 DEF IdsExhausted, Fresh
  <2>3. /\ FreshId(Base, batch, r) \in Nat /\ FreshId(Base, batch, r) <= last + fresh
        /\ fresh \in Nat /\ fresh <= Cardinality(batch)
    BY <1>1, <1>8, <2>2, FreshIds
  <2>4. last + fresh + Spare(Base) > MaxId
    BY <1>1, <1>2, <1>3, <2>2, <2>3
  <2>5. CASE Base.resources # {}
    BY <1>3, <1>4, <2>3, <2>4, <2>5
  <2>6. CASE Base.resources = {}
    <3>1. fresh > MaxId
      BY <1>2, <1>3, <2>3, <2>4, <2>6
    <3>2. Cardinality({ s \in batch : s.key \notin DOMAIN CatalogView }) = fresh
      BY FreshIsShown
    <3> HIDE DEF fresh, batch
    <3>3. ~Contract!IdsLeft(batch)
      <4>1. ASSUME NEW x \in 0 .. MaxId PROVE ~(x + fresh <= MaxId)
        BY <1>2, <2>3, <3>1
      <4>2. QED
        BY <3>2, <4>1, SameCount DEF Contract!IdsLeft
    <3>4. QED
      BY <3>3 DEF Contract!CanIngest, batch
  <2>7. QED
    BY <2>5, <2>6
<1>9. QED
  BY <1>5, <1>6, <1>7, <1>8, IngestIsRefused

\* An ingest has nothing to do where it changes nothing.
LEMMA NothingToIngest ==
    ASSUME Sound, request.batch \in Batches, request.type = "ingest",
           IngestRefusal(Base, request.batch, request.replace) = "none"
    PROVE  Contract!NothingToDo(request) <=> IngestChanges(Base, request.batch) = {}
<1>1. \A r \in request.batch : IsUnchanged(Base, r) <=> Contract!Same(r)
  BY IngestIsTaken, UnchangedIsSame
<1>2. IngestChanges(Base, request.batch) = {} <=> \A r \in request.batch : IsUnchanged(Base, r)
  BY DEF IngestChanges
<1>3. QED
  BY <1>1, <1>2 DEF Contract!NothingToDo

\* An entry of the catalog is the resource under its key.
LEMMA InfoIsShown ==
    ASSUME Sound, NEW k \in KeysOf(Base)
    PROVE  /\ InfoOf(Base, k) \in Base.resources
           /\ InfoOf(Base, k).key = k
           /\ CatalogView[k].id = InfoOf(Base, k).id
           /\ CatalogView[k].duration = InfoOf(Base, k).duration
           /\ CatalogView[k].prints = InfoOf(Base, k).hash.prints
<1>1. PICK r \in Base.resources : r.key = k
  BY DEF KeysOf
<1>2. InfoOf(Base, k) = r
  BY <1>1, BaseFacts, InfoIsThere
<1>3. CatalogView[k] = Shown(r)
  BY <1>1, BaseFacts
<1>4. QED
  BY <1>1, <1>2, <1>3 DEF Shown

\* The last resource of a store cannot be retired.
LEMMA RetireIsTaken ==
    ASSUME Sound
    PROVE  Contract!CanRetire(request)
             <=> request.key \in KeysOf(Base) /\ Cardinality(Base.resources) # 1
<1> DEFINE f == [r \in Base.resources |-> r.key]
           keys == KeysOf(Base)
           n == Cardinality(keys)
<1>1. keys = { f[r] : r \in Base.resources } /\ DOMAIN f = Base.resources
  BY DEF KeysOf
<1> HIDE DEF f
<1>2. IsFiniteSet(keys) /\ n \in Nat
  <2>1. IsFiniteSet({ f[r] : r \in Base.resources })
    BY <1>1, BaseFacts, ImageIsFinite
  <2>2. QED
    BY <1>1, <2>1, FS_CardinalityType
<1>3. Contract!CanRetire(request) <=> request.key \in keys /\ n > 1
  BY BaseFacts, SameCount DEF Contract!CanRetire
<1>4. ASSUME request.key \in keys PROVE n # 0
  BY <1>2, <1>4, FS_EmptySet
<1>5. ASSUME request.key \in keys, n = 1 PROVE Cardinality(Base.resources) = 1
  <2>1. PICK x : keys = {x}
    BY <1>2, <1>5, FS_Singleton
  <2>2. PICK r \in Base.resources : r.key = request.key
    BY <1>5 DEF KeysOf
  <2>3. \A s \in Base.resources : s.key \in keys /\ s.key = r.key
    BY <2>1, BaseFacts
  <2>4. \A s \in Base.resources : s = r
    BY <2>3, BaseFacts DEF AreResources, HasUniqueKeys
  <2>5. Base.resources = {r}
    BY <2>4
  <2>6. QED
    BY <2>5, FS_Singleton
<1>6. ASSUME Cardinality(Base.resources) = 1 PROVE n = 1
  <2>1. PICK r : Base.resources = {r}
    BY <1>6, BaseFacts, FS_Singleton
  <2>2. keys = {r.key}
    BY <2>1 DEF KeysOf
  <2>3. QED
    BY <2>2, FS_Singleton
<1> HIDE DEF keys, n
<1>7. QED
  BY <1>2, <1>3, <1>4, <1>5, <1>6 DEF keys

\* Rehashing gives every resource the identity that its prints have.
LEMMA RehashedResources ==
    ASSUME Sound, \A r \in Base.resources : Readable(Base, r)
    PROVE  /\ Rehashed(Base).profile = TRUE
           /\ Rehashed(Base).files = Base.files
           /\ Rehashed(Base).resources =
                { [key |-> r.key, id |-> r.id, duration |-> r.duration,
                   hash |-> ContentHash(r.hash.prints), forward_start |-> r.forward_start] :
                    r \in Base.resources }
           /\ Rehashed(Base) = Base <=> Base.profile
<1> DEFINE Old(r) == [r EXCEPT !.hash = ContentHash(Stored(Base, r))]
           New(r) == [key |-> r.key, id |-> r.id, duration |-> r.duration,
                      hash |-> ContentHash(r.hash.prints), forward_start |-> r.forward_start]
<1>1. Rehashed(Base) = [profile |-> TRUE, resources |-> { Old(r) : r \in Base.resources },
                        files |-> Base.files]
  BY DEF Rehashed
<1>2. ASSUME NEW r \in Base.resources PROVE Old(r) = New(r)
  <2>1. r = [key |-> r.key, id |-> r.id, duration |-> r.duration, hash |-> r.hash,
             forward_start |-> r.forward_start]
    BY BaseFacts DEF AreResources, IsInfo
  <2>2. Stored(Base, r) = r.hash.prints
    BY BaseFacts
  <2>3. QED
    BY <2>1, <2>2
<1>3. ASSUME Base.profile PROVE Rehashed(Base) = Base
  <2>1. ASSUME NEW r \in Base.resources PROVE Old(r) = r
    <3>1. r = [key |-> r.key, id |-> r.id, duration |-> r.duration, hash |-> r.hash,
               forward_start |-> r.forward_start]
      BY BaseFacts DEF AreResources, IsInfo
    <3>2. r.hash = ContentHash(r.hash.prints)
      BY <1>3, BaseFacts
    <3>3. New(r) = r
      BY <3>1, <3>2
    <3>4. QED
      BY <1>2, <3>3
  <2> HIDE DEF Old
  <2>2. { Old(r) : r \in Base.resources } = Base.resources
    BY <2>1
  <2>3. Base.profile = TRUE
    BY <1>3, BaseFacts
  <2>4. Base = [profile |-> Base.profile, resources |-> Base.resources, files |-> Base.files]
    BY BaseFacts, ManifestIsRecord
  <2>5. QED
    BY <1>1, <2>2, <2>3, <2>4
<1> HIDE DEF Old
<1>4. QED
  BY <1>1, <1>2, <1>3

\* A rehash is taken by any store, which has nothing to do under prints-v1.
LEMMA RehashIsTaken ==
    ASSUME Sound, request.type = "rehash"
    PROVE  /\ Contract!Accepts(request) <=> current # None
           /\ Contract!NothingToDo(request) <=> (current # None => Base.profile)
<1>1. DOMAIN CatalogView # {} <=> current # None
  BY BaseFacts DEF KeysOf
<1>2. (current # None => current.profile) <=> (current # None => Base.profile)
  BY BaseFacts
<1>3. QED
  BY <1>1, <1>2 DEF Contract!Accepts, Contract!NothingToDo

\* A duration update is taken where the contract takes it.
LEMMA DurationsAreTaken ==
    ASSUME Sound, request.type = "durations", current # None
    PROVE  Contract!Accepts(request)
             <=> ValidDurations(Base, request.expected, request.updates)
<1> DEFINE updates == request.updates
<1>1. /\ DOMAIN CatalogView = KeysOf(Base) /\ DOMAIN CatalogView # {}
      /\ current = Name(Base)
      /\ (current # None => current.profile) <=> Base.profile
  BY BaseFacts DEF KeysOf
<1>2. Contract!OnePerKey(updates) <=> ~HasDuplicates(updates)
  BY DEF Contract!OnePerKey, HasDuplicates
<1>3. Contract!IngestKeys(updates) = { u.key : u \in updates }
  BY DEF Contract!IngestKeys
<1>4. { u.key : u \in updates } = KeysOf(Base) =>
        \A u \in updates : CatalogView[u.key].prints = InfoOf(Base, u.key).hash.prints
  BY InfoIsShown
<1>5. Contract!Accepts(request) <=> Contract!CanSetDurations(request)
  BY <1>1 DEF Contract!Accepts
<1> HIDE DEF updates
<1>6. Contract!CanSetDurations(request) <=>
        /\ request.expected = current
        /\ Base.profile
        /\ ~HasDuplicates(updates)
        /\ { u.key : u \in updates } = KeysOf(Base)
        /\ \A u \in updates :
              u.duration > 0 /\ DurationFits(CatalogView[u.key].prints, u.duration)
  BY <1>1, <1>2, <1>3 DEF Contract!CanSetDurations, updates
<1>7. QED
  BY <1>1, <1>4, <1>5, <1>6 DEF ValidDurations, updates

\* Each resource has the duration that its line gives it.
LEMMA DurationOf ==
    ASSUME NEW updates, ~HasDuplicates(updates), NEW u \in updates
    PROVE  (CHOOSE v \in updates : v.key = u.key) = u
BY DEF HasDuplicates

\* A duration update changes durations, and nothing else.
LEMMA DurationResources ==
    ASSUME Sound, ValidDurations(Base, request.expected, request.updates)
    PROVE  /\ WithDurations(Base, request.updates).profile = Base.profile
           /\ WithDurations(Base, request.updates).files = Base.files
           /\ \A r \in Base.resources : \E u \in request.updates : u.key = r.key
           /\ \A r \in Base.resources, u \in request.updates : r.key = u.key =>
                [key |-> r.key, id |-> r.id, duration |-> u.duration, hash |-> r.hash,
                 forward_start |-> r.forward_start] \in WithDurations(Base, request.updates).resources
           /\ \A q \in WithDurations(Base, request.updates).resources :
                \E r \in Base.resources, u \in request.updates :
                    /\ r.key = u.key
                    /\ q = [key |-> r.key, id |-> r.id, duration |-> u.duration, hash |-> r.hash,
                            forward_start |-> r.forward_start]
           /\ WithDurations(Base, request.updates) = Base <=>
                \A r \in Base.resources, u \in request.updates :
                    r.key = u.key => r.duration = u.duration
<1> DEFINE updates == request.updates
           Of(r) == (CHOOSE u \in updates : u.key = r.key).duration
           Old(r) == [r EXCEPT !.duration = Of(r)]
           New(r) == [key |-> r.key, id |-> r.id, duration |-> Of(r), hash |-> r.hash,
                      forward_start |-> r.forward_start]
           next == WithDurations(Base, updates)
<1>1. next = [profile |-> Base.profile, resources |-> { Old(r) : r \in Base.resources },
              files |-> Base.files]
  BY DEF WithDurations
<1>2. ~HasDuplicates(updates) /\ { u.key : u \in updates } = KeysOf(Base)
  BY DEF ValidDurations
<1>3. \A r \in Base.resources : \E u \in updates : u.key = r.key
  BY <1>2, BaseFacts
<1>4. \A r \in Base.resources, u \in updates : r.key = u.key => Of(r) = u.duration
  <2> SUFFICES ASSUME NEW r \in Base.resources, NEW u \in updates, r.key = u.key
               PROVE  Of(r) = u.duration
    OBVIOUS
  <2>1. (CHOOSE v \in updates : v.key = u.key) = u
    BY <1>2, DurationOf
  <2>2. QED
    BY <2>1
<1> HIDE DEF Of, updates
<1>5. ASSUME NEW r \in Base.resources PROVE Old(r) = New(r) /\ (Of(r) = r.duration <=> New(r) = r)
  <2>1. r = [key |-> r.key, id |-> r.id, duration |-> r.duration, hash |-> r.hash,
             forward_start |-> r.forward_start]
    BY BaseFacts DEF AreResources, IsInfo
  <2>2. QED
    BY <2>1
<1> HIDE DEF Old, next
<1>6. next.resources = { New(r) : r \in Base.resources }
  BY <1>1, <1>5
<1>7. Base = [profile |-> Base.profile, resources |-> Base.resources, files |-> Base.files]
  BY BaseFacts, ManifestIsRecord
<1>8. \A r : New(r).key = r.key
  OBVIOUS
<1>9. next = Base <=> \A r \in Base.resources : New(r) = r
  <2>1. ASSUME next = Base, NEW r \in Base.resources PROVE New(r) = r
    <3>1. New(r) \in Base.resources
      BY <1>6, <2>1
    <3>2. QED
      BY <1>8, <3>1, BaseFacts DEF AreResources, HasUniqueKeys
  <2> HIDE DEF New
  <2>2. ASSUME \A r \in Base.resources : New(r) = r PROVE next = Base
    <3>1. next.resources = Base.resources
      BY <1>6, <2>2
    <3>2. QED
      BY <1>1, <1>7, <3>1
  <2>3. QED
    BY <2>1, <2>2
<1>10. next = Base <=> \A r \in Base.resources,
u \in updates : r.key = u.key => r.duration = u.duration
  BY <1>3, <1>4, <1>5, <1>9
<1>11. next.profile = Base.profile /\ next.files = Base.files
  BY <1>1
<1>12. ASSUME NEW r \in Base.resources, NEW u \in updates, r.key = u.key
       PROVE  New(r) = [key |-> r.key, id |-> r.id, duration |-> u.duration, hash |-> r.hash,
                        forward_start |-> r.forward_start]
  BY <1>4, <1>12
<1> HIDE DEF New
<1>13. /\ \A r \in Base.resources, u \in updates : r.key = u.key =>
            [key |-> r.key, id |-> r.id, duration |-> u.duration, hash |-> r.hash,
             forward_start |-> r.forward_start] \in next.resources
       /\ \A q \in next.resources : \E r \in Base.resources, u \in updates :
            /\ r.key = u.key
            /\ q = [key |-> r.key, id |-> r.id, duration |-> u.duration, hash |-> r.hash,
                    forward_start |-> r.forward_start]
  BY <1>3, <1>6, <1>12
<1>14. QED
  BY <1>3, <1>10, <1>11, <1>13 DEF next, updates

\* A duration update has nothing to do where every duration is as it was.
LEMMA NothingToSet ==
    ASSUME Sound, request.type = "durations",
           ValidDurations(Base, request.expected, request.updates)
    PROVE  Contract!NothingToDo(request) <=> WithDurations(Base, request.updates) = Base
<1>1. Contract!NothingToDo(request) <=>
        \A u \in request.updates : CatalogView[u.key].duration = u.duration
  BY DEF Contract!NothingToDo
<1>2. \A u \in request.updates : u.key \in KeysOf(Base)
  BY DEF ValidDurations
<1>3. \A r \in Base.resources : CatalogView[r.key].duration = r.duration
  <2>1. \A r : Shown(r).duration = r.duration
    BY DEF Shown
  <2>2. QED
    BY <2>1, BaseFacts
<1>4. (\A u \in request.updates : CatalogView[u.key].duration = u.duration)
        <=> \A r \in Base.resources,
        u \in request.updates : r.key = u.key => r.duration = u.duration
  BY <1>2, <1>3 DEF KeysOf
<1>5. QED
  BY <1>1, <1>4, DurationResources

-----------------------------------------------------------------------------
(* What is published.                                                      *)

\* Resources with keys of their own are finite where the keys are.
LEMMA FiniteByKeys ==
    ASSUME NEW S, HasUniqueKeys(S), NEW K, IsFiniteSet(K), \A r \in S : r.key \in K
    PROVE  IsFiniteSet(S)
<1> DEFINE f == [r \in S |-> r.key]
<1>1. f \in Injection(S, K)
  BY DEF Injection, IsInjective, HasUniqueKeys
<1>2. QED
  BY <1>1, FS_Injection

\* A finite batch has finitely many keys.
LEMMA KeysAreFinite ==
    ASSUME NEW S, IsFiniteSet(S)
    PROVE  IsFiniteSet({ r.key : r \in S })
<1> DEFINE f == [r \in S |-> r.key]
<1>1. DOMAIN f = S /\ { r.key : r \in S } = { f[r] : r \in S }
  OBVIOUS
<1> HIDE DEF f
<1>2. QED
  BY <1>1, ImageIsFinite

\* A manifest's name is never None.
LEMMA NameIsAName ==
    ASSUME NEW m, IsFine(m), AreResources(m.resources)
    PROVE  Name(m) \in Names /\ Name(m) # None /\ Name(m).profile = m.profile
<1>1. \A r \in m.resources : r.key \in Keys /\ IsTyped(r)
  BY DEF IsFine, AreResources
<1>2. Name(m) \in Names
  BY <1>1 DEF Name, Generation, Names, IsTyped, IsFine
<1>3. Name(m).profile = m.profile
  BY DEF Name, Generation
<1>4. QED
  BY <1>2, <1>3, NoneAssumption

\* The changes in progress come from the resources of the batch that differ.
LEMMA MembersAreFine ==
    ASSUME Sound, IngestIsAccepted \/ RetireIsAccepted
    PROVE  /\ \A c \in Members :
                c.key \in Keys /\ c.id \in Nat /\ c.duration \in Nat /\ c.prints \in Seq(Fingerprint)
           /\ \A c, d \in Members : c.id = d.id => c = d
           /\ \A c \in Members, r \in Base.resources : c.id = r.id <=> c.key = r.key
           /\ IsFiniteSet({ c.key : c \in Members })
<1>1. CASE IngestIsAccepted
  <2>1. /\ request.batch \in Batches /\ ~HasDuplicates(request.batch)
        /\ Members = IngestChanges(Base, request.batch)
    BY <1>1, IngestIsTaken DEF IngestIsAccepted, Members
  <2>2. /\ \A c \in Members :
             /\ c.key \in Keys /\ c.id \in Nat /\ c.duration \in Nat /\ c.prints \in Seq(Fingerprint)
             /\ \E r \in request.batch : c.key = r.key
        /\ \A c, d \in Members : c.id = d.id => c = d
        /\ \A c \in Members, r \in Base.resources : c.id = r.id <=> c.key = r.key
    BY <2>1, BaseFacts, ChangesAreFine DEF IsTyped
  <2>3. IsFiniteSet({ c.key : c \in Members })
    <3>1. IsFiniteSet({ r.key : r \in request.batch })
      BY <2>1, BatchesAssumption, KeysAreFinite
    <3>2. { c.key : c \in Members } \in SUBSET { r.key : r \in request.batch }
      BY <2>2
    <3>3. QED
      BY <3>1, <3>2, FS_Subset
  <2>4. QED
    BY <2>2, <2>3
<1>2. CASE RetireIsAccepted
  <2>1. Members = {}
    BY <1>2 DEF RetireIsAccepted, Members
  <2>2. { c.key : c \in Members } = {}
    BY <2>1
  <2>3. QED
    BY <2>1, <2>2, FS_EmptySet
<1>3. QED
  BY <1>1, <1>2

\* When every shard is rebuilt the target has the changes and what they leave.
LEMMA DueKeys ==
    ASSUME Sound, TargetIsDue, todo = {}
    PROVE  KeysOf(target) = (KeysOf(Base) \ Replaced) \union { c.key : c \in Members }
<1>1. ASSUME NEW r \in target.resources
      PROVE  r.key \in (KeysOf(Base) \ Replaced) \union { c.key : c \in Members }
  BY DEF TargetIsDue, IsKept, IsBuilt, KeysOf
<1>2. ASSUME NEW s \in Base.resources, s.key \notin Replaced PROVE s.key \in KeysOf(target)
  BY <1>2 DEF TargetIsDue
<1>3. ASSUME NEW c \in Members PROVE c.key \in KeysOf(target)
  BY DEF TargetIsDue
<1>4. QED
  BY <1>1, <1>2, <1>3 DEF KeysOf

\* The target of an ingest or a retirement can be started from again.
LEMMA DueIsFine ==
    ASSUME Sound, IngestIsAccepted \/ RetireIsAccepted, TargetIsDue, todo = {},
           AreResources(target.resources)
    PROVE  IsFine(target)
<1>1. target.profile = Base.profile /\ \A r \in target.resources : IsKept(r) \/ IsBuilt(r)
  BY DEF TargetIsDue
<1>2. KeysOf(target) = (KeysOf(Base) \ Replaced) \union { c.key : c \in Members }
  BY DueKeys
<1>3. IsFiniteSet(target.resources)
  <2> DEFINE K == KeysOf(Base) \union { c.key : c \in Members }
  <2>1. IsFiniteSet(K)
    BY BaseFacts, KeysAreFinite, MembersAreFine, FS_Union DEF KeysOf
  <2>2. \A r \in target.resources : r.key \in K
    BY <1>2 DEF KeysOf
  <2> HIDE DEF K
  <2>3. QED
    BY <2>1, <2>2, FiniteByKeys DEF AreResources
<1>4. target.resources # {}
  <2>1. CASE IngestIsAccepted
    <3>1. PICK c \in Members : TRUE
      BY <2>1 DEF IngestIsAccepted
    <3>2. c.key \in KeysOf(target)
      BY <1>2
    <3>3. QED
      BY <3>2 DEF KeysOf
  <2>2. CASE RetireIsAccepted
    <3>1. PICK r \in Base.resources : r.key = request.key
      BY <2>2 DEF RetireIsAccepted, KeysOf
    <3>2. Base.resources # {r}
      BY <2>2, FS_Singleton DEF RetireIsAccepted
    <3>3. PICK s \in Base.resources : s # r
      BY <3>2
    <3>4. s.key # request.key
      BY <3>1, <3>3, BaseFacts DEF AreResources, HasUniqueKeys
    <3>5. s.key \notin Replaced
      BY <2>2, <3>4 DEF Replaced, Gone, Members, RetireIsAccepted
    <3>6. s.key \in KeysOf(target)
      BY <1>2, <3>5 DEF KeysOf
    <3>7. QED
      BY <3>6 DEF KeysOf
  <2>3. QED
    BY <2>1, <2>2
<1>5. HasUniqueIds(target.resources)
  <2> SUFFICES ASSUME NEW r \in target.resources, NEW q \in target.resources, r.id = q.id
               PROVE  r.key = q.key
    BY DEF HasUniqueIds, AreResources, HasUniqueKeys
  <2>1. CASE IsKept(r) /\ IsKept(q)
    BY <2>1, BaseFacts DEF IsKept, HasUniqueIds
  <2>2. CASE IsBuilt(r) /\ IsBuilt(q)
    <3>1. PICK c \in Members : r.id = c.id /\ r.key = c.key
      BY <2>2 DEF IsBuilt
    <3>2. PICK d \in Members : q.id = d.id /\ q.key = d.key
      BY <2>2 DEF IsBuilt
    <3>3. c = d
      BY <3>1, <3>2, MembersAreFine
    <3>4. QED
      BY <3>1, <3>2, <3>3
  <2>3. ASSUME NEW x, NEW y, IsKept(x), IsBuilt(y), x.id = y.id
        PROVE  FALSE
    <3>1. PICK s \in Base.resources : x.id = s.id /\ s.key \notin Replaced
      BY <2>3 DEF IsKept
    <3>2. PICK c \in Members : y.id = c.id
      BY <2>3 DEF IsBuilt
    <3>3. c.key = s.key
      BY <2>3, <3>1, <3>2, MembersAreFine
    <3>4. QED
      BY <3>1, <3>2, <3>3 DEF Replaced
  <2>4. QED
    BY <1>1, <2>1, <2>2, <2>3
<1>6. ASSUME NEW r \in target.resources
      PROVE  IsTyped(r) /\ (target.profile => r.hash = ContentHash(r.hash.prints))
  <2>1. \A p : ContentHash(p).prints = p /\ (p \in Seq(Fingerprint) => ContentHash(p) \in HashType)
    BY DEF ContentHash, HashType
  <2>2. \A h \in HashType : h.prints \in Seq(Fingerprint)
    BY DEF HashType
  <2>3. CASE IsKept(r)
    <3>1. PICK s \in Base.resources :
              r.id = s.id /\ r.duration = s.duration /\ r.hash \in {s.hash, ContentHash(s.hash.prints)}
      BY <2>3 DEF IsKept
    <3>2. IsTyped(s) /\ (Base.profile => s.hash = ContentHash(s.hash.prints))
      BY BaseFacts
    <3>3. QED
      BY <1>1, <2>1, <2>2, <3>1, <3>2 DEF IsTyped
  <2>4. CASE IsBuilt(r)
    BY <2>1, <2>4, MembersAreFine DEF IsBuilt, IsTyped
  <2>5. QED
    BY <1>1, <2>3, <2>4
<1>7. QED
  BY <1>1, <1>3, <1>4, <1>5, <1>6, BaseFacts DEF IsFine

\* So can that of a rehash,
LEMMA RehashedIsFine ==
    ASSUME Sound, RehashIsAccepted, AreResources(target.resources)
    PROVE  IsFine(target)
<1>1. /\ current # None /\ target = Rehashed(Base)
      /\ \A r \in Base.resources : Readable(Base, r)
  BY DEF RehashIsAccepted
<1> DEFINE New(r) == [key |-> r.key, id |-> r.id, duration |-> r.duration,
                      hash |-> ContentHash(r.hash.prints), forward_start |-> r.forward_start]
<1>2. target.profile = TRUE /\ target.resources = { New(r) : r \in Base.resources }
  BY <1>1, RehashedResources
<1>3. \A r : /\ New(r).key = r.key /\ New(r).id = r.id /\ New(r).duration = r.duration
             /\ New(r).hash = ContentHash(r.hash.prints)
  OBVIOUS
<1>4. \A p : ContentHash(p).prints = p /\ (p \in Seq(Fingerprint) => ContentHash(p) \in HashType)
  BY DEF ContentHash, HashType
<1>5. \A h \in HashType : h.prints \in Seq(Fingerprint)
  BY DEF HashType
<1> HIDE DEF New
<1>6. IsFiniteSet(target.resources)
  <2>1. \A r \in target.resources : r.key \in { s.key : s \in Base.resources }
    BY <1>2, <1>3
  <2>2. IsFiniteSet({ s.key : s \in Base.resources })
    BY BaseFacts, KeysAreFinite
  <2>3. QED
    BY <2>1, <2>2, FiniteByKeys DEF AreResources
<1>7. target.resources # {}
  BY <1>1, <1>2, BaseFacts
<1>8. HasUniqueIds(target.resources)
  BY <1>2, <1>3, BaseFacts DEF HasUniqueIds
<1>9. \A r \in target.resources : IsTyped(r) /\ r.hash = ContentHash(r.hash.prints)
  <2> SUFFICES ASSUME NEW r \in Base.resources
               PROVE  IsTyped(New(r)) /\ New(r).hash = ContentHash(New(r).hash.prints)
    BY <1>2
  <2>1. IsTyped(r)
    BY BaseFacts
  <2>2. QED
    BY <1>3, <1>4, <1>5, <2>1 DEF IsTyped
<1>10. QED
  BY <1>2, <1>6, <1>7, <1>8, <1>9 DEF IsFine

\* and that of a duration update.
LEMMA DurationsAreFine ==
    ASSUME Sound, DurationsAreAccepted, AreResources(target.resources)
    PROVE  IsFine(target)
<1>1. /\ current # None /\ target = WithDurations(Base, request.updates)
      /\ request.updates \in DurationFiles
      /\ ValidDurations(Base, request.expected, request.updates)
  BY DEF DurationsAreAccepted
<1>2. target.profile = Base.profile
  BY <1>1, DurationResources
<1>3. \A q \in target.resources : \E r \in Base.resources, u \in request.updates :
          q.key = r.key /\ q.id = r.id /\ q.duration = u.duration /\ q.hash = r.hash
  <2> SUFFICES ASSUME NEW q \in target.resources
               PROVE  \E r \in Base.resources, u \in request.updates :
                        q.key = r.key /\ q.id = r.id /\ q.duration = u.duration /\ q.hash = r.hash
    OBVIOUS
  <2>1. PICK r \in Base.resources, u \in request.updates :
            q = [key |-> r.key, id |-> r.id, duration |-> u.duration, hash |-> r.hash,
                 forward_start |-> r.forward_start]
    BY <1>1, DurationResources
  <2>2. QED
    BY <2>1
<1>4. IsFiniteSet(target.resources)
  <2>1. \A r \in target.resources : r.key \in { s.key : s \in Base.resources }
    BY <1>3
  <2>2. IsFiniteSet({ s.key : s \in Base.resources })
    BY BaseFacts, KeysAreFinite
  <2>3. QED
    BY <2>1, <2>2, FiniteByKeys DEF AreResources
<1>5. target.resources # {}
  <2>1. PICK r \in Base.resources : TRUE
    BY <1>1, BaseFacts
  <2>2. PICK u \in request.updates : u.key = r.key
    BY <1>1, DurationResources
  <2>3. QED
    BY <1>1, <2>2, DurationResources
<1>6. HasUniqueIds(target.resources)
  <2> SUFFICES ASSUME NEW q \in target.resources, NEW p \in target.resources, q.id = p.id
               PROVE  q.key = p.key
    BY DEF HasUniqueIds, AreResources, HasUniqueKeys
  <2>1. QED
    BY <1>3, BaseFacts DEF HasUniqueIds
<1>7. \A u \in request.updates : u.duration \in Nat
  BY <1>1, DurationFilesAssumption
<1>8. \A q \in target.resources :
          IsTyped(q) /\ (target.profile => q.hash = ContentHash(q.hash.prints))
  <2> SUFFICES ASSUME NEW q \in target.resources
               PROVE  IsTyped(q) /\ (target.profile => q.hash = ContentHash(q.hash.prints))
    OBVIOUS
  <2>1. PICK r \in Base.resources, u \in request.updates :
            q.id = r.id /\ q.duration = u.duration /\ q.hash = r.hash
    BY <1>3
  <2>2. IsTyped(r) /\ (Base.profile => r.hash = ContentHash(r.hash.prints))
    BY BaseFacts
  <2>3. QED
    BY <1>2, <1>7, <2>1, <2>2 DEF IsTyped
<1>9. QED
  BY <1>2, <1>4, <1>5, <1>6, <1>8, BaseFacts DEF IsFine

\* What gets its name in CURRENT is a catalog of resources with keys and ids of
\* their own.
LEMMA TargetIsFine ==
    ASSUME Sound, pc = "rename"
    PROVE  /\ AreResources(target.resources)
           /\ IsFine(target)
           /\ TargetIsDue => todo = {}
<1>1. AreResources(target.resources)
  BY DEF Sound, RInv, TargetHasResources
<1>2. TargetIsDue => todo = {}
  BY DEF TargetIsDue
<1>3. \/ (IngestIsAccepted \/ RetireIsAccepted) /\ TargetIsDue
      \/ RehashIsAccepted \/ DurationsAreAccepted
  BY DEF Sound, CInv, RequestIsAccepted
<1>4. QED
  BY <1>1, <1>2, <1>3, DueIsFine, RehashedIsFine, DurationsAreFine

-----------------------------------------------------------------------------
(* The commit.                                                             *)

\* After the rename the catalog shows the target.
LEMMA CommitShows ==
    ASSUME Sound, RenameCurrent
    PROVE  /\ pc = "rename" /\ pc' = "sync"
           /\ current' = Name(target) /\ current' # None /\ current' # current
           /\ current'.profile = target.profile
           /\ generations'[current'] = target
           /\ CatalogView' = ViewOf(target.resources)
           /\ UNCHANGED <<generations, request, reply>>
<1>1. /\ pc = "rename" /\ pc' = "sync" /\ current' = Name(target)
      /\ UNCHANGED <<generations, request, reply>>
  BY DEF RenameCurrent, session
<1>2. /\ Name(target) # None
      /\ Name(target).profile = target.profile
      /\ generations[Name(target)] = target
  BY <1>1, TargetIsFine, NameIsAName DEF Sound, CInv, ManifestIsWritten
<1>3. current' # current
  BY <1>1, <1>2 DEF Sound, RInv, TargetIsNews
<1>4. CatalogView' = ViewOf(target.resources)
  <2>1. current' # None /\ generations'[current'] = target
    BY <1>1, <1>2
  <2>2. QED
    BY <2>1 DEF CatalogView, ViewOf, KeysOf, InfoOf
<1>5. QED
  BY <1>1, <1>2, <1>3, <1>4

\* An entry of the new catalog.
LEMMA TargetShows ==
    ASSUME Sound, pc = "rename"
    PROVE  /\ DOMAIN ViewOf(target.resources) = KeysOf(target)
           /\ \A r \in target.resources :
                /\ r.key \in KeysOf(target)
                /\ ViewOf(target.resources)[r.key] = Shown(r)
           /\ ViewOf(target.resources) = [k \in KeysOf(target) |-> ViewOf(target.resources)[k]]
<1>1. HasUniqueKeys(target.resources)
  BY TargetIsFine DEF AreResources
<1>2. ViewOf(target.resources) = [k \in KeysOf(target) |-> ViewOf(target.resources)[k]]
  BY DEF ViewOf, KeysOf
<1>3. QED
  BY <1>1, <1>2, ViewShows DEF KeysOf

\* An entry of the old catalog.
LEMMA BaseShows ==
    ASSUME Sound
    PROVE  /\ CatalogView = [k \in KeysOf(Base) |-> CatalogView[k]]
           /\ CatalogView = ViewOf(Base.resources)
<1>1. CatalogView = ViewOf(Base.resources)
  BY BaseFacts, CatalogIsView
<1>2. ViewOf(Base.resources) = [k \in KeysOf(Base) |-> ViewOf(Base.resources)[k]]
  BY DEF ViewOf, KeysOf
<1>3. QED
  BY <1>1, <1>2

\* The contents of the new catalog that an ingest promises.
LEMMA IngestTakesEffect ==
    ASSUME Sound, RenameCurrent, IngestIsAccepted, TargetIsDue
    PROVE  Contract!Ingested(request)
<1> DEFINE batch == request.batch
           changed == { res \in batch : ~Contract!Same(res) }
           keys == { c.key : c \in Members }
           Incoming(k) == CHOOSE res \in changed : res.key = k
           next == ViewOf(target.resources)
<1>1. /\ batch \in Batches /\ ~HasDuplicates(batch)
      /\ Members = IngestChanges(Base, batch) /\ Replaced = keys
      /\ \A r \in batch : ~Unidentifiable(Base, r)
  BY IngestIsTaken DEF IngestIsAccepted, Members, Replaced, Gone
<1>2. /\ \A c \in Members : \E r \in changed :
            c.key = r.key /\ c.duration = r.duration /\ c.prints = r.prints
      /\ \A r \in changed : \E c \in Members : c.key = r.key
  <2>1. \A r \in batch : r \in changed <=> ~IsUnchanged(Base, r)
    BY <1>1, UnchangedIsSame
  <2> HIDE DEF changed
  <2>2. /\ \A c \in IngestChanges(Base, batch) : \E r \in batch :
              /\ ~IsUnchanged(Base, r)
              /\ c.key = r.key /\ c.duration = r.duration /\ c.prints = r.prints
        /\ \A r \in batch : ~IsUnchanged(Base, r) =>
              \E c \in IngestChanges(Base, batch) : c.key = r.key
    <3> DEFINE Change(r) == [key |-> r.key, duration |-> r.duration, prints |-> r.prints,
                             id |-> IF Existing(Base, r) THEN InfoOf(Base, r.key).id
                                                         ELSE FreshId(Base, batch, r)]
    <3>1. IngestChanges(Base, batch) = { Change(r) : r \in { r \in batch : ~IsUnchanged(Base, r) } }
      BY DEF IngestChanges
    <3>2. \A r : /\ Change(r).key = r.key /\ Change(r).duration = r.duration
                 /\ Change(r).prints = r.prints
      OBVIOUS
    <3> HIDE DEF Change, batch
    <3>3. QED
      BY <3>1, <3>2
  <2>3. \A r \in changed : r \in batch
    BY DEF changed
  <2>4. QED
    BY <1>1, <2>1, <2>2, <2>3
<1>3. Contract!IngestKeys(changed) = keys
  BY <1>2 DEF Contract!IngestKeys
<1>4. \A r \in changed : Incoming(r.key) = r
  BY <1>1 DEF HasDuplicates
<1> HIDE DEF changed, Incoming
<1>5. KeysOf(target) = KeysOf(Base) \union keys
  <2>1. KeysOf(target) = (KeysOf(Base) \ keys) \union keys
    BY <1>1, CommitShows, TargetIsFine, DueKeys
  <2>2. QED
    BY <2>1
<1>6. ASSUME NEW k \in KeysOf(target)
      PROVE  IF k \in keys
             THEN /\ next[k].prints = Incoming(k).prints
                  /\ next[k].duration = Incoming(k).duration
                  /\ IF k \in KeysOf(Base) THEN next[k].id = CatalogView[k].id
                                           ELSE next[k].id \notin Contract!Ids
             ELSE next[k] = CatalogView[k]
  <2>1. PICK q \in target.resources : q.key = k
    BY DEF KeysOf
  <2>2. next[k] = Shown(q)
    BY <2>1, CommitShows, TargetShows
  <2>3. IsKept(q) \/ IsBuilt(q)
    BY DEF TargetIsDue
  <2>4. CASE k \in keys
    <3>1. ~IsKept(q)
      BY <1>1, <2>1, <2>4 DEF IsKept
    <3>2. PICK c \in Members : /\ q.key = c.key /\ q.id = c.id /\ q.duration = c.duration
                               /\ q.hash = ContentHash(c.prints)
      BY <2>3, <3>1 DEF IsBuilt
    <3>3. PICK r \in changed : c.key = r.key /\ c.duration = r.duration /\ c.prints = r.prints
      BY <1>2
    <3>4. Incoming(k) = r
      BY <1>4, <2>1, <3>2, <3>3
    <3>5. next[k].prints = r.prints /\ next[k].duration = r.duration /\ next[k].id = c.id
      BY <2>2, <3>2, <3>3 DEF Shown, ContentHash
    <3>6. \A s \in Base.resources : c.id = s.id <=> k = s.key
      BY <2>1, <3>2, MembersAreFine
    <3>7. CASE k \in KeysOf(Base)
      BY <2>4, <3>4, <3>5, <3>6, <3>7, InfoIsShown
    <3>8. CASE k \notin KeysOf(Base)
      <4>1. c.id \notin Contract!Ids
        BY <3>6, <3>8, IdsAreShown DEF KeysOf
      <4>2. QED
        BY <2>4, <3>4, <3>5, <3>8, <4>1
    <3>9. QED
      BY <3>7, <3>8
  <2>5. CASE k \notin keys
    <3>1. ~IsBuilt(q)
      BY <2>1, <2>5 DEF IsBuilt
    <3>2. PICK s \in Base.resources :
              /\ q.key = s.key /\ q.id = s.id /\ q.duration = s.duration
              /\ q.hash \in {s.hash, ContentHash(s.hash.prints)}
      BY <2>3, <3>1 DEF IsKept
    <3>3. q.hash.prints = s.hash.prints
      BY <3>2 DEF ContentHash
    <3>4. Shown(q) = Shown(s)
      BY <3>2, <3>3 DEF Shown
    <3>5. CatalogView[k] = Shown(s)
      BY <2>1, <3>2, BaseFacts
    <3>6. QED
      BY <2>2, <2>5, <3>4, <3>5
  <2>6. QED
    BY <2>4, <2>5
<1>7. ASSUME NEW j \in KeysOf(target), NEW k \in KeysOf(target), next[j].id = next[k].id
      PROVE  j = k
  <2>1. PICK p \in target.resources : p.key = j
    BY DEF KeysOf
  <2>2. PICK q \in target.resources : q.key = k
    BY DEF KeysOf
  <2>3. next[j] = Shown(p) /\ next[k] = Shown(q)
    BY <2>1, <2>2, CommitShows, TargetShows
  <2>4. p.id = q.id
    BY <1>7, <2>3 DEF Shown
  <2>5. HasUniqueIds(target.resources)
    BY CommitShows, TargetIsFine DEF IsFine
  <2>6. QED
    BY <2>1, <2>2, <2>4, <2>5 DEF HasUniqueIds
<1>8. /\ CatalogView' = next /\ DOMAIN next = KeysOf(target)
      /\ DOMAIN CatalogView = KeysOf(Base)
  BY CommitShows, TargetShows, BaseFacts
<1> HIDE DEF keys, next
<1>9. QED
  BY <1>3, <1>5, <1>6, <1>7, <1>8 DEF Contract!Ingested, changed, batch, Incoming

\* The contents of the new catalog that a retirement promises,
LEMMA RetireTakesEffect ==
    ASSUME Sound, RenameCurrent, RetireIsAccepted, TargetIsDue
    PROVE  Contract!Retired(request)
<1> DEFINE next == ViewOf(target.resources)
<1>1. Members = {} /\ Replaced = {request.key}
  BY DEF RetireIsAccepted, Members, Gone, Replaced
<1>2. KeysOf(target) = KeysOf(Base) \ {request.key}
  BY <1>1, CommitShows, TargetIsFine, DueKeys
<1>3. ASSUME NEW k \in KeysOf(target) PROVE next[k] = CatalogView[k]
  <2>1. PICK q \in target.resources : q.key = k
    BY DEF KeysOf
  <2>2. next[k] = Shown(q)
    BY <2>1, CommitShows, TargetShows
  <2>3. IsKept(q)
    BY <1>1 DEF TargetIsDue, IsBuilt
  <2>4. PICK s \in Base.resources :
            /\ q.key = s.key /\ q.id = s.id /\ q.duration = s.duration
            /\ q.hash \in {s.hash, ContentHash(s.hash.prints)}
    BY <2>3 DEF IsKept
  <2>5. q.hash.prints = s.hash.prints
    BY <2>4 DEF ContentHash
  <2>6. Shown(q) = Shown(s)
    BY <2>4, <2>5 DEF Shown
  <2>7. CatalogView[k] = Shown(s)
    BY <2>1, <2>4, BaseFacts
  <2>8. QED
    BY <2>2, <2>6, <2>7
<1>4. CatalogView' = [k \in KeysOf(target) |-> next[k]]
  BY CommitShows, TargetShows
<1>5. CatalogView' = [k \in DOMAIN CatalogView \ {request.key} |-> CatalogView[k]]
  BY <1>2, <1>3, <1>4, BaseFacts
<1>6. QED
  BY <1>5 DEF Contract!Retired

\* that a rehash promises,
LEMMA RehashTakesEffect ==
    ASSUME Sound, RenameCurrent, RehashIsAccepted
    PROVE  CatalogView' = CatalogView
<1> DEFINE New(r) == [key |-> r.key, id |-> r.id, duration |-> r.duration,
                      hash |-> ContentHash(r.hash.prints), forward_start |-> r.forward_start]
           next == ViewOf(target.resources)
<1>1. target.resources = { New(r) : r \in Base.resources }
  BY RehashedResources DEF RehashIsAccepted
<1>2. ASSUME NEW r \in Base.resources
      PROVE  New(r).key = r.key /\ Shown(New(r)) = Shown(r)
  BY DEF Shown, ContentHash
<1> HIDE DEF New
<1>3. KeysOf(target) = KeysOf(Base)
  BY <1>1, <1>2 DEF KeysOf
<1>4. ASSUME NEW k \in KeysOf(Base) PROVE next[k] = CatalogView[k]
  <2>1. PICK r \in Base.resources : r.key = k
    BY DEF KeysOf
  <2>2. New(r) \in target.resources /\ New(r).key = k
    BY <1>1, <1>2, <2>1
  <2>3. next[k] = Shown(New(r))
    BY <2>2, CommitShows, TargetShows
  <2>4. CatalogView[k] = Shown(r)
    BY <2>1, BaseFacts
  <2>5. QED
    BY <1>2, <2>3, <2>4
<1>5. CatalogView' = [k \in KeysOf(target) |-> next[k]]
  BY CommitShows, TargetShows
<1>6. CatalogView = [k \in KeysOf(Base) |-> CatalogView[k]]
  BY BaseShows
<1> HIDE DEF next
<1>7. QED
  BY <1>3, <1>4, <1>5, <1>6

\* and that a duration update promises.
LEMMA DurationsTakeEffect ==
    ASSUME Sound, RenameCurrent, DurationsAreAccepted
    PROVE  Contract!DurationsSet(request)
<1> DEFINE updates == request.updates
           New(k) == (CHOOSE u \in updates : u.key = k).duration
           next == ViewOf(target.resources)
<1>1. /\ target = WithDurations(Base, updates)
      /\ ValidDurations(Base, request.expected, updates) /\ ~HasDuplicates(updates)
  BY DEF DurationsAreAccepted, ValidDurations
<1>2. ASSUME NEW r \in Base.resources
      PROVE  /\ r.key \in KeysOf(target)
             /\ next[r.key] = [CatalogView[r.key] EXCEPT !.duration = New(r.key)]
  <2>1. PICK u \in updates : u.key = r.key
    BY <1>1, DurationResources
  <2>2. New(r.key) = u.duration
    <3>1. (CHOOSE v \in updates : v.key = u.key) = u
      BY <1>1, DurationOf
    <3>2. QED
      BY <2>1, <3>1
  <2> DEFINE q == [key |-> r.key, id |-> r.id, duration |-> u.duration, hash |-> r.hash,
                   forward_start |-> r.forward_start]
  <2>3. q \in target.resources
    BY <1>1, <2>1, DurationResources
  <2>4. q.key = r.key /\ Shown(q) = [id |-> r.id, duration |-> u.duration, prints |-> r.hash.prints]
    BY DEF Shown
  <2> HIDE DEF q
  <2>5. r.key \in KeysOf(target) /\ next[r.key] = Shown(q)
    BY <2>3, <2>4, CommitShows, TargetShows
  <2>6. CatalogView[r.key] = [id |-> r.id, duration |-> r.duration, prints |-> r.hash.prints]
    BY BaseFacts DEF Shown
  <2> HIDE DEF New, next
  <2>7. QED
    BY <2>2, <2>4, <2>5, <2>6
<1>3. \A q \in target.resources : q.key \in KeysOf(Base)
  <2> SUFFICES ASSUME NEW q \in target.resources PROVE q.key \in KeysOf(Base)
    OBVIOUS
  <2>1. PICK r \in Base.resources, u \in updates :
            q = [key |-> r.key, id |-> r.id, duration |-> u.duration, hash |-> r.hash,
                 forward_start |-> r.forward_start]
    BY <1>1, DurationResources
  <2>2. q.key = r.key
    BY <2>1
  <2>3. QED
    BY <2>2 DEF KeysOf
<1>4. KeysOf(target) = KeysOf(Base)
  <2>1. \A r \in Base.resources : r.key \in KeysOf(target)
    BY <1>2
  <2>2. QED
    BY <1>3, <2>1 DEF KeysOf
<1>5. CatalogView' = [k \in KeysOf(target) |-> next[k]]
  BY CommitShows, TargetShows
<1> HIDE DEF next, New
<1>6. \A k \in KeysOf(Base) : next[k] = [CatalogView[k] EXCEPT !.duration = New(k)]
  BY <1>2 DEF KeysOf
<1>7. CatalogView' = [k \in DOMAIN CatalogView |-> [CatalogView[k] EXCEPT !.duration = New(k)]]
  BY <1>4, <1>5, <1>6, BaseFacts
<1>8. QED
  BY <1>7 DEF Contract!DurationsSet, New

\* The rename of CURRENT is the contract's commit.
LEMMA RenameIsCommit ==
    ASSUME Sound, RenameCurrent
    PROVE  Contract!Commit
<1>1. /\ PhaseView = "pending" /\ PhaseView' = "done"
      /\ current' # current /\ UNCHANGED request /\ ReplyView' = ReplyView
  BY CommitShows DEF PhaseView, ReplyView
<1>2. /\ \/ IngestIsAccepted /\ TargetIsDue
         \/ RetireIsAccepted /\ TargetIsDue
         \/ RehashIsAccepted
         \/ DurationsAreAccepted
      /\ (current' # None => current'.profile) <=> target.profile
  BY CommitShows DEF Sound, CInv, RequestIsAccepted
<1>3. ((current # None => current.profile) \/ DOMAIN CatalogView = {}) <=> Base.profile
  BY BaseFacts DEF KeysOf
<1>4. CASE IngestIsAccepted /\ TargetIsDue
  <2>1. /\ request.type = "ingest" /\ target.profile = Base.profile
        /\ Members = IngestChanges(Base, request.batch) /\ Members # {}
        /\ request.batch \in Batches
        /\ IngestRefusal(Base, request.batch, request.replace) = "none"
    BY <1>4 DEF IngestIsAccepted, TargetIsDue, Members
  <2>2. Contract!CanIngest(request) /\ ~Contract!NothingToDo(request)
    BY <2>1, TakenCanBeIngested, NothingToIngest
  <2>3. Contract!Ingested(request)
    BY <1>4, IngestTakesEffect
  <2>4. Contract!Accepts(request) /\ Contract!Effect(request)
    BY <2>1, <2>2, <2>3 DEF Contract!Accepts, Contract!Effect
  <2>5. QED
    BY <1>1, <1>2, <1>3, <2>1, <2>2, <2>4 DEF Contract!Commit
<1>5. CASE RetireIsAccepted /\ TargetIsDue
  <2>1. /\ request.type = "retire" /\ target.profile = Base.profile
        /\ request.key \in KeysOf(Base) /\ Cardinality(Base.resources) # 1
    BY <1>5 DEF RetireIsAccepted, TargetIsDue
  <2>2. Contract!CanRetire(request) /\ ~Contract!NothingToDo(request)
    BY <2>1, RetireIsTaken DEF Contract!NothingToDo
  <2>3. Contract!Retired(request)
    BY <1>5, RetireTakesEffect
  <2>4. Contract!Accepts(request) /\ Contract!Effect(request)
    BY <2>1, <2>2, <2>3 DEF Contract!Accepts, Contract!Effect
  <2>5. QED
    BY <1>1, <1>2, <1>3, <2>1, <2>2, <2>4 DEF Contract!Commit
<1>6. CASE RehashIsAccepted
  <2>1. /\ request.type = "rehash" /\ target.profile = TRUE /\ current # None
        /\ ~Base.profile
    BY <1>6, RehashedResources DEF RehashIsAccepted
  <2>2. Contract!Accepts(request) /\ ~Contract!NothingToDo(request)
    BY <2>1, RehashIsTaken
  <2>3. Contract!Effect(request)
    BY <1>6, <2>1, RehashTakesEffect DEF Contract!Effect
  <2>4. QED
    BY <1>1, <1>2, <1>3, <2>1, <2>2, <2>3 DEF Contract!Commit
<1>7. CASE DurationsAreAccepted
  <2>1. /\ request.type = "durations" /\ current # None
        /\ ValidDurations(Base, request.expected, request.updates)
        /\ target = WithDurations(Base, request.updates) /\ target # Base
    BY <1>7 DEF DurationsAreAccepted
  <2>2. target.profile = Base.profile
    BY <2>1, DurationResources
  <2>3. Contract!Accepts(request) /\ ~Contract!NothingToDo(request)
    BY <2>1, DurationsAreTaken, NothingToSet
  <2>4. Contract!DurationsSet(request)
    BY <1>7, DurationsTakeEffect
  <2>5. Contract!Effect(request)
    BY <2>1, <2>4 DEF Contract!Effect
  <2>6. QED
    BY <1>1, <1>2, <1>3, <2>1, <2>2, <2>3, <2>5 DEF Contract!Commit
<1>8. QED
  BY <1>2, <1>4, <1>5, <1>6, <1>7

-----------------------------------------------------------------------------
(* The invariant.                                                          *)

\* A member of a rebuilt shard is a change, or what was read back.
LEMMA GroupShows ==
    /\ \A x \in GroupInfos(Group) :
         \/ \E r \in KeptInfos : /\ x.key = r.key /\ x.id = r.id /\ x.duration = r.duration
                                 /\ x.hash = ContentHash(Stored(opened, r))
         \/ \E c \in changes : /\ ShardOf[c.key] = NextShard
                               /\ x.key = c.key /\ x.id = c.id /\ x.duration = c.duration
                               /\ x.hash = ContentHash(c.prints)
    /\ \A r \in KeptInfos : \E x \in GroupInfos(Group) : x.key = r.key
    /\ \A c \in changes : ShardOf[c.key] = NextShard =>
         \E x \in GroupInfos(Group) : x.key = c.key
<1> DEFINE Member(r) == [key |-> r.key, id |-> r.id, duration |-> r.duration,
                         prints |-> Stored(opened, r)]
           Info(m) == [key |-> m.key, id |-> m.id, duration |-> m.duration,
                       hash |-> ContentHash(m.prints), forward_start |-> ForwardStart(Group, m)]
<1>1. /\ Group = { Member(r) : r \in KeptInfos } \union { c \in changes : ShardOf[c.key] = NextShard }
      /\ GroupInfos(Group) = { Info(m) : m \in Group }
  BY DEF Group, GroupInfos
<1>2. \A r : /\ Member(r).key = r.key /\ Member(r).id = r.id /\ Member(r).duration = r.duration
             /\ Member(r).prints = Stored(opened, r)
  OBVIOUS
<1>3. \A m : /\ Info(m).key = m.key /\ Info(m).id = m.id /\ Info(m).duration = m.duration
             /\ Info(m).hash = ContentHash(m.prints)
  OBVIOUS
<1> HIDE DEF Member, Info
<1>4. ASSUME NEW m \in Group
      PROVE  \/ \E r \in KeptInfos : /\ Info(m).key = r.key /\ Info(m).id = r.id
                                     /\ Info(m).duration = r.duration
                                     /\ Info(m).hash = ContentHash(Stored(opened, r))
             \/ \E c \in changes : /\ ShardOf[c.key] = NextShard
                                   /\ Info(m).key = c.key /\ Info(m).id = c.id
                                   /\ Info(m).duration = c.duration
                                   /\ Info(m).hash = ContentHash(c.prints)
  <2>1. CASE \E r \in KeptInfos : m = Member(r)
    BY <1>2, <1>3, <2>1
  <2>2. CASE m \in changes /\ ShardOf[m.key] = NextShard
    BY <1>3, <2>2
  <2>3. QED
    BY <1>1, <2>1, <2>2
<1>5. ASSUME NEW r \in KeptInfos PROVE \E x \in GroupInfos(Group) : x.key = r.key
  BY <1>1, <1>2, <1>3
<1>6. ASSUME NEW c \in changes, ShardOf[c.key] = NextShard
      PROVE  \E x \in GroupInfos(Group) : x.key = c.key
  BY <1>1, <1>3, <1>6
<1>7. ASSUME NEW x \in GroupInfos(Group)
      PROVE  \/ \E r \in KeptInfos : /\ x.key = r.key /\ x.id = r.id /\ x.duration = r.duration
                                     /\ x.hash = ContentHash(Stored(opened, r))
             \/ \E c \in changes : /\ ShardOf[c.key] = NextShard
                                   /\ x.key = c.key /\ x.id = c.id /\ x.duration = c.duration
                                   /\ x.hash = ContentHash(c.prints)
  <2>1. PICK m \in Group : x = Info(m)
    BY <1>1
  <2>2. QED
    BY <1>4, <2>1
<1>8. QED
  BY <1>5, <1>6, <1>7

\* While what a request starts from is what it was, so is what it has to do.
LEMMA BaseStays ==
    ASSUME UNCHANGED current, current # None => generations'[current] = generations[current]
    PROVE  Base' = Base
BY DEF Base

\* A request accepted against a manifest stays so while the manifest stays.
LEMMA AcceptedStays ==
    ASSUME Base' = Base, UNCHANGED <<current, request>>
    PROVE  /\ Members' = Members /\ Replaced' = Replaced
           /\ IngestIsAccepted => IngestIsAccepted'
           /\ RetireIsAccepted => RetireIsAccepted'
           /\ target' = target /\ RehashIsAccepted => RehashIsAccepted'
           /\ target' = target /\ DurationsAreAccepted => DurationsAreAccepted'
<1>1. Members' = Members
  BY DEF Members
<1>2. Replaced' = Replaced
  BY <1>1 DEF Replaced, Gone
<1>3. QED
  BY <1>1, <1>2 DEF IngestIsAccepted, RetireIsAccepted, RehashIsAccepted, DurationsAreAccepted

\* The catalog stays fine while nothing is published.
LEMMA FineStays ==
    ASSUME CInv, UNCHANGED current, current # None => generations'[current] = generations[current]
    PROVE  CatalogIsFine'
BY DEF CInv, CatalogIsFine

\* Steps between requests keep the invariant,
LEMMA QuietKeepsCInv ==
    ASSUME CInv, RequestIsTyped', UNCHANGED disk, pc' \in {"idle", "open"}
    PROVE  CInv'
<1>1. CatalogIsFine'
  BY FineStays DEF disk
<1>2. QED
  BY <1>1 DEF CInv, RequestIsAccepted, ManifestIsWritten

\* and so does the end of a request.
LEMMA AnswerKeepsCInv ==
    ASSUME CInv, NEW outcome, Answer(outcome)
    PROVE  CInv'
BY QuietKeepsCInv DEF Answer, Closed, RequestIsTyped

\* An accepted ingest or retirement starts with all of its work to do.
LEMMA PrepareKeepsCInv ==
    ASSUME Sound, IngestIsAccepted \/ RetireIsAccepted, Prepare(Base, Members, Gone)
    PROVE  CInv'
<1> DEFINE kept == { r \in Base.resources : r.key \notin Replaced }
<1>1. /\ opened' = Base /\ changes' = Members /\ pc' = "shards"
      /\ UNCHANGED <<current, generations, request>>
  BY DEF Prepare, disk, session
<1>2. target' = [Base EXCEPT !.resources = kept]
  BY DEF Prepare, Replaced
<1>3. target'.profile = Base.profile /\ target'.resources = kept
  BY <1>2, BaseFacts, ManifestIsRecord
<1>4. \A c \in Members : ShardOf[c.key] \in todo'
  <2>1. \A c \in Members : c.key \in Keys
    BY MembersAreFine
  <2>2. QED
    BY <2>1, ShardOfAssumption DEF Prepare, Affected, Numbers
<1>5. Base' = Base
  BY <1>1, BaseStays
<1>6. /\ IngestIsAccepted' \/ RetireIsAccepted'
      /\ Members' = Members /\ Replaced' = Replaced
  BY <1>1, <1>5, AcceptedStays
<1>7. \A r \in kept : IsKept(r)'
  BY <1>5, <1>6 DEF IsKept
<1>8. \A s \in Base.resources : s.key \in KeysOf(target)' \/ s.key \in Replaced
  BY <1>3 DEF KeysOf
<1>9. TargetIsDue'
  BY <1>1, <1>3, <1>4, <1>5, <1>6, <1>7, <1>8 DEF TargetIsDue
<1>10. CatalogIsFine'
  BY <1>1, FineStays DEF Sound
<1>11. QED
  BY <1>1, <1>6, <1>9, <1>10 DEF CInv, RequestIsTyped, RequestIsAccepted, ManifestIsWritten

\* A rehash or a duration update starts with its target made.
LEMMA PublishOverKeepsCInv ==
    ASSUME Sound, NEW m, PublishOver(m), RehashIsAccepted' \/ DurationsAreAccepted'
    PROVE  CInv'
<1>1. pc' = "publish" /\ UNCHANGED <<current, generations, request>>
  BY DEF PublishOver, disk, session
<1>2. CatalogIsFine'
  BY <1>1, FineStays DEF Sound
<1>3. QED
  BY <1>1, <1>2 DEF CInv, RequestIsTyped, RequestIsAccepted, ManifestIsWritten

\* The first step of every request keeps the invariant.
LEMMA RequestsKeepCInv ==
    ASSUME Sound, Ingest \/ Retire \/ Rehash \/ SetDurations
    PROVE  CInv'
<1>1. CASE \E outcome : Answer(outcome)
  BY <1>1, AnswerKeepsCInv DEF Sound
<1>2. CASE Ingest /\ ~\E outcome : Answer(outcome)
  <2>1. /\ request.type = "ingest" /\ pc = "open"
        /\ IngestRefusal(Base, request.batch, request.replace) = "none"
        /\ IngestChanges(Base, request.batch) # {}
        /\ Prepare(Base, IngestChanges(Base, request.batch), {})
    BY <1>2 DEF Ingest
  <2>2. request.batch \in Batches
    BY <2>1 DEF Sound, CInv, RequestIsTyped
  <2>3. Members = IngestChanges(Base, request.batch) /\ Gone = {}
    BY <2>1 DEF Members, Gone
  <2>4. IngestIsAccepted
    BY <2>1, <2>2, <2>3 DEF IngestIsAccepted
  <2>5. QED
    BY <2>1, <2>3, <2>4, PrepareKeepsCInv
<1>3. CASE Retire /\ ~\E outcome : Answer(outcome)
  <2>1. /\ request.type = "retire" /\ current # None
        /\ request.key \in KeysOf(Base) /\ Cardinality(Base.resources) # 1
        /\ Prepare(Base, {}, {request.key})
    BY <1>3 DEF Retire
  <2>2. Members = {} /\ Gone = {request.key}
    BY <2>1 DEF Members, Gone
  <2>3. RetireIsAccepted
    BY <2>1 DEF RetireIsAccepted
  <2>4. QED
    BY <2>1, <2>2, <2>3, PrepareKeepsCInv
<1>4. CASE Rehash /\ ~\E outcome : Answer(outcome)
  <2>1. /\ request.type = "rehash" /\ current # None
        /\ \A r \in Base.resources : Readable(Base, r)
        /\ Rehashed(Base) # Base /\ PublishOver(Rehashed(Base))
    BY <1>4 DEF Rehash
  <2>2. target' = Rehashed(Base) /\ UNCHANGED <<current, generations, request>>
    BY <2>1 DEF PublishOver, disk, session
  <2>3. Base' = Base
    BY <2>2, BaseStays
  <2>4. RehashIsAccepted'
    BY <2>1, <2>2, <2>3 DEF RehashIsAccepted
  <2>5. QED
    BY <2>1, <2>4, PublishOverKeepsCInv
<1>5. CASE SetDurations /\ ~\E outcome : Answer(outcome)
  <2>1. /\ request.type = "durations" /\ pc = "open" /\ current # None
        /\ ValidDurations(Base, request.expected, request.updates)
        /\ WithDurations(Base, request.updates) # Base
        /\ PublishOver(WithDurations(Base, request.updates))
    BY <1>5 DEF SetDurations
  <2>2. request.updates \in DurationFiles
    BY <2>1 DEF Sound, CInv, RequestIsTyped
  <2>3. /\ target' = WithDurations(Base, request.updates)
        /\ UNCHANGED <<current, generations, request>>
    BY <2>1 DEF PublishOver, disk, session
  <2>4. Base' = Base
    BY <2>3, BaseStays
  <2>5. DurationsAreAccepted'
    BY <2>1, <2>2, <2>3, <2>4 DEF DurationsAreAccepted
  <2>6. QED
    BY <2>1, <2>5, PublishOverKeepsCInv
<1>6. QED
  BY <1>1, <1>2, <1>3, <1>4, <1>5

\* Shards are rebuilt only for an ingest or a retirement.
LEMMA RebuildingIsDue ==
    ASSUME CInv, pc \in {"shards", "fill"}
    PROVE  (IngestIsAccepted \/ RetireIsAccepted) /\ TargetIsDue
BY DEF CInv, RequestIsAccepted

\* A rebuilt shard has its changes, and of the rest what was there.
LEMMA ShardDoneKeepsCInv ==
    ASSUME Sound, pc \in {"shards", "fill"}, todo # {}, ShardDone,
           UNCHANGED <<current, generations>>, \A r \in KeptInfos : Readable(opened, r)
    PROVE  CInv'
<1> DEFINE infos == GroupInfos(Group)
           rest == target.resources \ KeptInfos
<1>1. (IngestIsAccepted \/ RetireIsAccepted) /\ TargetIsDue
  BY RebuildingIsDue DEF Sound
<1>2. /\ target'.profile = target.profile /\ target'.resources = rest \union infos
      /\ todo' = todo \ {NextShard} /\ pc' = "shards"
      /\ UNCHANGED <<request, opened, changes>>
  BY DEF ShardDone, WithShard, session
<1>3. NextShard \in todo
  <2>1. todo \in SUBSET Nat
    BY ShardCountAssumption DEF Sound, RInv, TargetHasResources, Numbers
  <2>2. \E x \in todo : \A y \in todo : x <= y
    BY <2>1, LeastElement
  <2>3. QED
    BY <2>2 DEF NextShard, Min
<1>4. Base' = Base
  BY BaseStays
<1>5. /\ IngestIsAccepted' \/ RetireIsAccepted'
      /\ Members' = Members /\ Replaced' = Replaced
  BY <1>1, <1>2, <1>4, AcceptedStays
<1>6. /\ opened = Base /\ changes = Members /\ target.profile = Base.profile
      /\ \A r \in target.resources : IsKept(r) \/ IsBuilt(r)
      /\ \A s \in Base.resources : s.key \in KeysOf(target) \/ s.key \in Replaced
      /\ \A c \in Members : c.key \in KeysOf(target) \/ ShardOf[c.key] \in todo
  BY <1>1 DEF TargetIsDue
<1>7. \A r \in target.resources, c \in changes : r.key = c.key => ShardOf[r.key] \notin todo
  BY DEF Sound, RInv, TargetHasResources
<1>8. \A r : r \in KeptInfos <=> r \in target.resources /\ ShardOf[r.key] = NextShard
  BY DEF KeptInfos
<1> HIDE DEF infos, rest
<1>9. ASSUME NEW r \in rest PROVE IsKept(r)' \/ IsBuilt(r)'
  <2>1. r \in target.resources
    BY DEF rest
  <2>2. CASE IsKept(r)
    <3>1. PICK s \in Base.resources :
              /\ r.key = s.key /\ r.id = s.id /\ r.duration = s.duration
              /\ r.hash \in {s.hash, ContentHash(s.hash.prints)}
              /\ ShardOf[s.key] \in todo => r = s
              /\ s.key \notin Replaced
      BY <2>2 DEF IsKept
    <3>2. ShardOf[s.key] \in todo' => r = s
      BY <1>2, <3>1
    <3>3. IsKept(r)'
      BY <1>4, <1>5, <3>1, <3>2 DEF IsKept
    <3>4. QED
      BY <3>3
  <2>3. CASE IsBuilt(r)
    BY <1>5, <2>3 DEF IsBuilt
  <2>4. QED
    BY <1>6, <2>1, <2>2, <2>3
<1>10. ASSUME NEW x \in infos PROVE IsKept(x)' \/ IsBuilt(x)'
  <2>1. CASE \E r \in KeptInfos : /\ x.key = r.key /\ x.id = r.id /\ x.duration = r.duration
                                  /\ x.hash = ContentHash(Stored(opened, r))
    <3>1. PICK r \in KeptInfos : /\ x.key = r.key /\ x.id = r.id /\ x.duration = r.duration
                                 /\ x.hash = ContentHash(Stored(opened, r))
      BY <2>1
    <3>2. r \in target.resources /\ ShardOf[r.key] = NextShard
      BY <1>8
    <3>3. ~IsBuilt(r)
      BY <1>3, <1>6, <1>7, <3>2 DEF IsBuilt
    <3>4. r \in Base.resources /\ r.key \notin Replaced
      BY <1>3, <1>6, <3>2, <3>3 DEF IsKept
    <3>5. Stored(opened, r) = r.hash.prints
      BY <1>6, <3>4, BaseFacts
    <3>6. ShardOf[r.key] \notin todo'
      BY <1>2, <3>2
    <3>7. IsKept(x)'
      BY <1>4, <1>5, <3>1, <3>4, <3>5, <3>6 DEF IsKept
    <3>8. QED
      BY <3>7
  <2>2. CASE \E c \in changes : /\ x.key = c.key /\ x.id = c.id /\ x.duration = c.duration
                                /\ x.hash = ContentHash(c.prints)
    <3>1. IsBuilt(x)
      BY <1>6, <2>2 DEF IsBuilt
    <3>2. QED
      BY <1>5, <3>1 DEF IsBuilt
  <2>3. QED
    BY <2>1, <2>2, GroupShows DEF infos
<1>11. ASSUME NEW r \in target.resources PROVE r.key \in KeysOf(target)'
  <2>1. CASE r \in rest
    BY <1>2, <2>1 DEF KeysOf
  <2>2. CASE r \in KeptInfos
    <3>1. PICK x \in infos : x.key = r.key
      BY <2>2, GroupShows DEF infos
    <3>2. QED
      BY <1>2, <3>1 DEF KeysOf
  <2>3. QED
    BY <2>1, <2>2 DEF rest
<1>12. \A k \in KeysOf(target) : k \in KeysOf(target)'
  BY <1>11 DEF KeysOf
<1>13. ASSUME NEW c \in Members PROVE c.key \in KeysOf(target)' \/ ShardOf[c.key] \in todo'
  <2>1. CASE ShardOf[c.key] = NextShard
    <3>1. PICK x \in infos : x.key = c.key
      BY <1>6, <2>1, GroupShows DEF infos
    <3>2. QED
      BY <1>2, <3>1 DEF KeysOf
  <2>2. CASE ShardOf[c.key] # NextShard
    BY <1>2, <1>6, <1>12, <2>2
  <2>3. QED
    BY <2>1, <2>2
<1>14. TargetIsDue'
  BY <1>2, <1>4, <1>5, <1>6, <1>9, <1>10, <1>12, <1>13 DEF TargetIsDue
<1>15. CatalogIsFine'
  BY FineStays DEF Sound
<1>16. QED
  BY <1>2, <1>5, <1>14, <1>15 DEF CInv, RequestIsTyped, RequestIsAccepted, ManifestIsWritten

\* A shard that is written whole keeps the invariant,
LEMMA WriteShardKeepsCInv ==
    ASSUME Sound, WriteShard
    PROVE  CInv'
<1>1. CASE Answer("internal") \/ Answer("already_exists")
  BY <1>1, AnswerKeepsCInv DEF Sound
<1>2. CASE (\A r \in KeptInfos : Readable(opened, r)) /\ ShardDone /\ UNCHANGED disk
  BY <1>2, ShardDoneKeepsCInv DEF WriteShard, disk
<1>3. CASE /\ \A r \in KeptInfos : Readable(opened, r)
           /\ pc' = "fill"
           /\ UNCHANGED <<current, generations, shards, rollback, session, plan, collector, reader>>
  <2>1. /\ (IngestIsAccepted \/ RetireIsAccepted) /\ TargetIsDue
        /\ UNCHANGED <<request, opened, changes, target, todo>>
    BY <1>3, RebuildingIsDue DEF WriteShard, Sound, session, plan
  <2>2. Base' = Base
    BY <1>3, BaseStays
  <2>3. /\ IngestIsAccepted' \/ RetireIsAccepted'
        /\ Members' = Members /\ Replaced' = Replaced
    BY <1>3, <2>1, <2>2, AcceptedStays
  <2>4. KeptInfos' = KeptInfos
    BY <2>1 DEF KeptInfos, NextShard
  <2>5. TargetIsDue'
    BY <1>3, <2>1, <2>2, <2>3, <2>4 DEF TargetIsDue, IsKept, IsBuilt
  <2>6. CatalogIsFine'
    BY <1>3, FineStays DEF Sound
  <2>7. QED
    BY <1>3, <2>3, <2>5, <2>6 DEF CInv, RequestIsTyped, RequestIsAccepted, ManifestIsWritten
<1>4. QED
  BY <1>1, <1>2, <1>3 DEF WriteShard

\* a shard that is rebuilt with what forward read back keeps it,
LEMMA FillShardKeepsCInv ==
    ASSUME Sound, FillShard
    PROVE  CInv'
<1>1. todo # {} /\ pc = "fill"
  BY DEF Sound, IInv, TargetIsOnDisk, FillShard
<1>2. \A r \in KeptInfos : Readable(opened, r)
  BY <1>1, RebuildingIsDue DEF Sound, TargetIsDue
<1>3. QED
  BY <1>1, <1>2, ShardDoneKeepsCInv DEF FillShard

\* and so does the end of the rebuilding.
LEMMA ShardsDoneKeepsCInv ==
    ASSUME Sound, ShardsDone
    PROVE  CInv'
<1>1. /\ pc = "shards" /\ pc' = "publish" /\ todo = {}
      /\ UNCHANGED <<current, generations, request, opened, changes, target, todo>>
  BY DEF ShardsDone, disk, session, plan
<1>2. (IngestIsAccepted \/ RetireIsAccepted) /\ TargetIsDue
  BY <1>1, RebuildingIsDue DEF Sound
<1>3. Base' = Base
  BY <1>1, BaseStays
<1>4. /\ IngestIsAccepted' \/ RetireIsAccepted'
      /\ Members' = Members /\ Replaced' = Replaced
  BY <1>1, <1>2, <1>3, AcceptedStays
<1>5. TargetIsDue'
  BY <1>1, <1>2, <1>3, <1>4 DEF TargetIsDue, IsKept, IsBuilt
<1>6. CatalogIsFine'
  BY <1>1, FineStays DEF Sound
<1>7. QED
  BY <1>1, <1>4, <1>5, <1>6 DEF CInv, RequestIsTyped, RequestIsAccepted, ManifestIsWritten

\* The manifest gets its name beside the one that CURRENT names.
LEMMA WriteManifestKeepsCInv ==
    ASSUME Sound, WriteManifest
    PROVE  CInv'
<1>1. /\ pc = "publish" /\ pc' = "rename"
      /\ UNCHANGED <<current, request, opened, changes, target, todo>>
      /\ generations' = [g \in DOMAIN generations \union {Name(target)} |->
                           IF g = Name(target) THEN target ELSE generations[g]]
  BY DEF WriteManifest, session, plan
<1>2. current # None => generations'[current] = generations[current]
  BY <1>1, CurrentIsThere DEF Sound, RInv, TargetIsNews
<1>3. Base' = Base
  BY <1>1, <1>2, BaseStays
<1>4. /\ IngestIsAccepted => IngestIsAccepted'
      /\ RetireIsAccepted => RetireIsAccepted'
      /\ RehashIsAccepted => RehashIsAccepted'
      /\ DurationsAreAccepted => DurationsAreAccepted'
      /\ Members' = Members /\ Replaced' = Replaced
  BY <1>1, <1>3, AcceptedStays
<1>5. TargetIsDue => TargetIsDue'
  BY <1>1, <1>3, <1>4 DEF TargetIsDue, IsKept, IsBuilt
<1>6. RequestIsAccepted'
  BY <1>1, <1>4, <1>5 DEF Sound, CInv, RequestIsAccepted
<1>7. ManifestIsWritten'
  <2>1. Name(target)' = Name(target)
    BY <1>1
  <2>2. Name(target) \in DOMAIN generations' /\ generations'[Name(target)] = target
    BY <1>1
  <2>3. QED
    BY <1>1, <2>1, <2>2 DEF ManifestIsWritten
<1>8. CatalogIsFine'
  BY <1>1, <1>2, FineStays DEF Sound
<1>9. QED
  BY <1>1, <1>6, <1>7, <1>8 DEF CInv, RequestIsTyped

\* What the rename publishes can be started from again.
LEMMA RenameCurrentKeepsCInv ==
    ASSUME Sound, RenameCurrent
    PROVE  CInv'
<1>1. pc = "rename" /\ pc' = "sync" /\ generations'[current'] = target /\ IsFine(target)
  BY CommitShows, TargetIsFine
<1>2. CatalogIsFine'
  BY <1>1 DEF CatalogIsFine
<1>3. QED
  BY <1>1, <1>2 DEF CInv, RequestIsTyped, RequestIsAccepted, ManifestIsWritten

\* The collector spares what CURRENT names.
LEMMA CollectorKeepsCInv ==
    ASSUME Sound, CollectRoots \/ CollectGenerations \/ CollectShards
    PROVE  /\ CInv'
           /\ pc \in {"sync", "gc_generations", "gc_shards"}
           /\ pc' \in {"gc_generations", "gc_shards", "reopen"}
           /\ UNCHANGED <<current, request, reply>>
           /\ current # None => generations'[current] = generations[current]
<1>1. /\ pc \in {"sync", "gc_generations", "gc_shards"}
      /\ pc' \in {"gc_generations", "gc_shards", "reopen"}
      /\ UNCHANGED <<current, request, reply>>
  BY DEF CollectRoots, CollectGenerations, CollectShards, disk, session
<1>2. current # None => generations'[current] = generations[current]
  <2>1. CASE CollectGenerations
    <3>1. current # None => current \in Retained \cap DOMAIN generations
      BY <1>1, RetainedAreComplete DEF Sound
    <3>2. QED
      BY <2>1, <3>1 DEF CollectGenerations
  <2>2. CASE CollectRoots \/ CollectShards
    BY <2>2 DEF CollectRoots, CollectShards, disk
  <2>3. QED
    BY <2>1, <2>2
<1>3. CatalogIsFine'
  BY <1>1, <1>2, FineStays DEF Sound
<1>4. QED
  BY <1>1, <1>2, <1>3 DEF CInv, RequestIsTyped, RequestIsAccepted, ManifestIsWritten

\* A reader's steps disturb nothing of this.
LEMMA IdleKeepsCInv ==
    ASSUME CInv, UNCHANGED <<disk, writer>>
    PROVE  CInv'
<1>1. UNCHANGED <<current, generations, pc, request, opened, changes, target, todo>>
  BY DEF disk, writer, session, plan
<1>2. Base' = Base
  BY <1>1, BaseStays
<1>3. /\ IngestIsAccepted => IngestIsAccepted'
      /\ RetireIsAccepted => RetireIsAccepted'
      /\ RehashIsAccepted => RehashIsAccepted'
      /\ DurationsAreAccepted => DurationsAreAccepted'
      /\ Members' = Members /\ Replaced' = Replaced
  BY <1>1, <1>2, AcceptedStays
<1>4. KeptInfos' = KeptInfos
  BY <1>1 DEF KeptInfos, NextShard
<1>5. TargetIsDue => TargetIsDue'
  BY <1>1, <1>2, <1>3, <1>4 DEF TargetIsDue, IsKept, IsBuilt
<1>6. RequestIsAccepted'
  BY <1>1, <1>3, <1>5 DEF CInv, RequestIsAccepted
<1>7. CatalogIsFine'
  BY <1>1, FineStays
<1>8. QED
  BY <1>1, <1>6, <1>7 DEF CInv, RequestIsTyped, ManifestIsWritten

\* What a version without the identity profile lists of a shard.
LegacyMembers(batch, n) == { c \in IngestChanges(EmptyManifest, batch) : ShardOf[c.key] = n }
LegacyInfo(batch, n, c) ==
    [key |-> c.key, id |-> c.id, duration |-> c.duration,
     hash |-> [legacy |-> TRUE, prints |-> c.prints],
     forward_start |-> ForwardStart(LegacyMembers(batch, n), c)]
LegacyInfos(batch, n) == { LegacyInfo(batch, n, c) : c \in LegacyMembers(batch, n) }

\* The legacy identity replaces that of the prints and nothing else.
LEMMA LegacyShards ==
    ASSUME NEW batch
    PROVE  LegacyManifest(batch) =
             [profile |-> FALSE,
              resources |-> UNION { LegacyInfos(batch, n) : n \in Numbers },
              files |-> [n \in Numbers |-> ShardName(n, LegacyInfos(batch, n))]]
<1> DEFINE members(n) == { m \in IngestChanges(EmptyManifest, batch) : ShardOf[m.key] = n }
           Legacy(r) == [r EXCEPT !.hash = [@ EXCEPT !.legacy = TRUE]]
           infos(n) == { Legacy(r) : r \in GroupInfos(members(n)) }
           Old(n, c) == [key |-> c.key, id |-> c.id, duration |-> c.duration,
                         hash |-> ContentHash(c.prints),
                         forward_start |-> ForwardStart(members(n), c)]
           Info(n, c) == LegacyInfo(batch, n, c)
<1>1. ASSUME NEW n, NEW c
      PROVE  Legacy(Old(n, c)) = Info(n, c)
  <2> DEFINE start == ForwardStart(members(n), c)
             fresh == ContentHash(c.prints)
             yes == TRUE
             no == FALSE
             hash == [fresh EXCEPT !.legacy = yes]
  <2>1. hash = [legacy |-> yes, prints |-> c.prints]
    <3>1. fresh = [legacy |-> no, prints |-> c.prints]
      BY DEF ContentHash
    <3> HIDE DEF fresh, yes, no
    <3>2. QED
      BY <3>1
  <2>2. Old(n, c) = [key |-> c.key, id |-> c.id, duration |-> c.duration, hash |-> fresh,
                     forward_start |-> start]
    OBVIOUS
  <2>3. Info(n, c) = [key |-> c.key, id |-> c.id, duration |-> c.duration,
                      hash |-> [legacy |-> yes, prints |-> c.prints], forward_start |-> start]
    BY DEF LegacyInfo, LegacyMembers
  <2>4. Old(n, c).hash = fresh
    BY <2>2
  <2>5. Legacy(Old(n, c)) = [Old(n, c) EXCEPT !.hash = hash]
    BY <2>4
  <2> HIDE DEF hash, fresh, start, Old, Info, Legacy
  <2>6. Legacy(Old(n, c)) = [key |-> c.key, id |-> c.id, duration |-> c.duration, hash |-> hash,
                             forward_start |-> start]
    BY <2>2, <2>5
  <2>7. QED
    BY <2>1, <2>3, <2>6
<1>2. ASSUME NEW n PROVE infos(n) = LegacyInfos(batch, n)
  <2>1. GroupInfos(members(n)) = { Old(n, c) : c \in members(n) }
    BY DEF GroupInfos
  <2>2. members(n) = LegacyMembers(batch, n)
    BY DEF LegacyMembers
  <2>3. LegacyInfos(batch, n) = { Info(n, c) : c \in members(n) }
    BY <2>2 DEF LegacyInfos
  <2> HIDE DEF Old, Info, Legacy, members
  <2>4. infos(n) = { Legacy(r) : r \in { Old(n, c) : c \in members(n) } }
    BY <2>1
  <2>5. { Legacy(r) : r \in { Old(n, c) : c \in members(n) } } = { Legacy(Old(n,
  c)) : c \in members(n) }
    OBVIOUS
  <2>6. QED
    BY <1>1, <2>3, <2>4, <2>5
<1>3. LegacyManifest(batch) =
        [profile |-> FALSE,
         resources |-> UNION { infos(n) : n \in Numbers },
         files |-> [n \in Numbers |-> ShardName(n, infos(n))]]
  BY DEF LegacyManifest
<1> HIDE DEF infos
<1>4. QED
  BY <1>2, <1>3

\* A store of an older version has the resources of one batch, under ids of
\* their own.
LEMMA LegacyIsFine ==
    ASSUME NEW batch \in Batches, batch # {}, ~HasDuplicates(batch)
    PROVE  IsFine(LegacyManifest(batch))
<1> DEFINE C == IngestChanges(EmptyManifest, batch)
           m == LegacyManifest(batch)
<1>1. m.profile = FALSE /\ m.resources = UNION { LegacyInfos(batch, n) : n \in Numbers }
  BY LegacyShards
<1>2. /\ \A c \in C : /\ c.key \in Keys /\ c.id \in Nat /\ c.duration \in Nat
                      /\ c.prints \in Seq(Fingerprint)
                      /\ \E r \in batch : c.key = r.key
      /\ \A c, d \in C : c.id = d.id => c = d
  <2>1. EmptyManifest.resources = {}
    BY DEF EmptyManifest
  <2>2. /\ IsFiniteSet(EmptyManifest.resources) /\ HasUniqueIds(EmptyManifest.resources)
        /\ AreResources(EmptyManifest.resources) /\ \A r \in EmptyManifest.resources : r.id \in Nat
    BY <2>1, FS_EmptySet DEF HasUniqueIds, AreResources, HasUniqueKeys
  <2>3. QED
    BY <2>2, ChangesAreFine
<1>3. C # {}
  <2>1. \A r \in batch : ~IsUnchanged(EmptyManifest, r)
    BY DEF IsUnchanged, Existing, KeysOf, EmptyManifest
  <2>2. QED
    BY <2>1 DEF IngestChanges
<1>4. AreResources(m.resources)
  BY LegacyHasResources
<1>5. \A n, c : /\ LegacyInfo(batch, n, c).key = c.key /\ LegacyInfo(batch, n, c).id = c.id
                /\ LegacyInfo(batch, n, c).duration = c.duration
                /\ LegacyInfo(batch, n, c).hash = [legacy |-> TRUE, prints |-> c.prints]
  BY DEF LegacyInfo
<1>6. \A n : LegacyMembers(batch, n) = { c \in C : ShardOf[c.key] = n }
  BY DEF LegacyMembers
<1> HIDE DEF C, m
<1>7. ASSUME NEW x \in m.resources
      PROVE  \E c \in C : /\ x.key = c.key /\ x.id = c.id /\ x.duration = c.duration
                          /\ x.hash = [legacy |-> TRUE, prints |-> c.prints]
  <2>1. PICK n \in Numbers : x \in LegacyInfos(batch, n)
    BY <1>1
  <2>2. PICK c \in LegacyMembers(batch, n) : x = LegacyInfo(batch, n, c)
    BY <2>1 DEF LegacyInfos
  <2>3. QED
    BY <1>5, <1>6, <2>2
<1>8. m.resources # {}
  <2>1. PICK c \in C : TRUE
    BY <1>3
  <2>2. ShardOf[c.key] \in Numbers /\ c \in LegacyMembers(batch, ShardOf[c.key])
    BY <1>2, <1>6, ShardOfAssumption DEF Numbers
  <2>3. LegacyInfo(batch, ShardOf[c.key], c) \in LegacyInfos(batch, ShardOf[c.key])
    BY <2>2 DEF LegacyInfos
  <2>4. QED
    BY <1>1, <2>2, <2>3
<1>9. IsFiniteSet(m.resources)
  <2>1. IsFiniteSet({ r.key : r \in batch })
    BY BatchesAssumption, KeysAreFinite
  <2>2. ASSUME NEW x \in m.resources
        PROVE  x.key \in { r.key : r \in batch }
    <3>1. PICK c \in C : x.key = c.key
      BY <1>7
    <3>2. PICK r \in batch : c.key = r.key
      BY <1>2
    <3>3. QED
      BY <3>1, <3>2
  <2>3. QED
    BY <1>4, <2>1, <2>2, FiniteByKeys DEF AreResources
<1>10. HasUniqueIds(m.resources)
  <2> SUFFICES ASSUME NEW x \in m.resources, NEW y \in m.resources, x.id = y.id
               PROVE  x.key = y.key
    BY <1>4 DEF HasUniqueIds, AreResources, HasUniqueKeys
  <2>1. PICK c \in C : x.key = c.key /\ x.id = c.id
    BY <1>7
  <2>2. PICK d \in C : y.key = d.key /\ y.id = d.id
    BY <1>7
  <2>3. c = d
    BY <1>2, <2>1, <2>2
  <2>4. QED
    BY <2>1, <2>2, <2>3
<1>11. ASSUME NEW x \in m.resources PROVE IsTyped(x)
  <2>1. PICK c \in C : /\ x.id = c.id /\ x.duration = c.duration
                       /\ x.hash = [legacy |-> TRUE, prints |-> c.prints]
    BY <1>7
  <2>2. QED
    BY <1>2, <2>1 DEF IsTyped, HashType
<1>12. QED
  BY <1>1, <1>8, <1>9, <1>10, <1>11 DEF IsFine, m

\* The initial stores can be started from.
LEMMA InitHolds ==
    ASSUME Init
    PROVE  /\ \/ current = None
              \/ /\ current # None
                 /\ current \in DOMAIN generations
                 /\ IsFine(generations[current])
           /\ CInv
<1>1. pc = "idle"
  BY DEF Init
<1>2. \/ current = None
      \/ current # None /\ current \in DOMAIN generations /\ IsFine(generations[current])
  <2>1. CASE \E batch \in Batches :
                batch # {} /\ ~HasDuplicates(batch) /\ Holds(LegacyManifest(batch))
    <3> PICK batch \in Batches :
            batch # {} /\ ~HasDuplicates(batch) /\ Holds(LegacyManifest(batch))
      BY <2>1
    <3> DEFINE m == LegacyManifest(batch)
    <3>1. IsFine(m) /\ AreResources(m.resources)
      BY LegacyIsFine, LegacyHasResources
    <3>2. current = Name(m) /\ generations = [g \in {Name(m)} |-> m]
      BY DEF Holds
    <3> HIDE DEF m
    <3>3. Name(m) # None
      BY <3>1, NameIsAName
    <3>4. QED
      BY <3>1, <3>2, <3>3
  <2>2. QED
    BY <2>1 DEF Init
<1>3. QED
  BY <1>1, <1>2 DEF CInv, RequestIsTyped, CatalogIsFine, RequestIsAccepted, ManifestIsWritten

\* Every step keeps the invariant.
LEMMA NextKeepsCInv == Sound /\ [Next]_vars => CInv'
<1> SUFFICES ASSUME Sound, [Next]_vars PROVE CInv'
  OBVIOUS
<1>0. CInv
  BY DEF Sound
<1>1. CASE Submit
  <2>1. RequestIsTyped'
    BY <1>1 DEF Submit, RequestIsTyped, IngestRequests, RetireRequests, DurationRequests
  <2>2. QED
    BY <1>0, <1>1, <2>1, QuietKeepsCInv DEF Submit
<1>2. CASE Ingest \/ Retire \/ Rehash \/ SetDurations
  BY <1>2, RequestsKeepCInv
<1>3. CASE WriteShard \/ FillShard \/ ShardsDone
  BY <1>3, WriteShardKeepsCInv, FillShardKeepsCInv, ShardsDoneKeepsCInv
<1>4. CASE WriteManifest \/ RenameCurrent
  BY <1>4, WriteManifestKeepsCInv, RenameCurrentKeepsCInv
<1>5. CASE CollectRoots \/ CollectGenerations \/ CollectShards
  BY <1>5, CollectorKeepsCInv
<1>6. CASE Reopen
  BY <1>0, <1>6, AnswerKeepsCInv DEF Reopen
<1>7. CASE Stop
  BY <1>0, <1>7, QuietKeepsCInv DEF Stop, Closed, RequestIsTyped
<1>8. CASE ReaderStep \/ UNCHANGED vars
  BY <1>0, <1>8, IdleKeepsCInv
     DEF ReaderStep, ReadCurrent, ReadManifest, OpenShard, ReaderDone, vars
<1>9. QED
  BY <1>1, <1>2, <1>3, <1>4, <1>5, <1>6, <1>7, <1>8 DEF Next, WriterStep

-----------------------------------------------------------------------------
(* The refinement.                                                         *)

Waiting == {"open", "shards", "fill", "publish", "rename"}

\* What the catalog shows depends on CURRENT and the manifest it names.
LEMMA SameCatalog ==
    ASSUME UNCHANGED current, current # None => generations'[current] = generations[current]
    PROVE  /\ CatalogView' = CatalogView
           /\ (current # None => current.profile)' <=> (current # None => current.profile)
BY DEF CatalogView, KeysOf, InfoOf

\* A step that changes neither the catalog nor the phase is a stutter.
LEMMA QuietStepsStutter ==
    ASSUME UNCHANGED <<current, request, reply>>,
           current # None => generations'[current] = generations[current],
           \/ pc' = pc
           \/ pc \in Waiting /\ pc' \in Waiting
           \/ pc \notin Waiting \union {"idle"} /\ pc' \notin Waiting \union {"idle"}
    PROVE  UNCHANGED Contract!vars
<1>1. PhaseView' = PhaseView
  BY DEF PhaseView, Waiting
<1>2. ReplyView' = ReplyView
  BY DEF ReplyView
<1>3. QED
  BY <1>1, <1>2, SameCatalog DEF Contract!vars

\* The phases of a request that has just been answered, or stopped.
LEMMA EndShows ==
    ASSUME Closed, UNCHANGED disk, pc # "idle"
    PROVE  /\ PhaseView' = "idle" /\ request' = Contract!NoRequest
           /\ CatalogView' = CatalogView /\ UNCHANGED current
           /\ (current # None => current.profile)' <=> (current # None => current.profile)
           /\ PhaseView \in {"pending", "done"}
           /\ pc \in Waiting <=> PhaseView = "pending"
<1>1. PhaseView' = "idle" /\ request' = Contract!NoRequest
  BY DEF Closed, PhaseView, NoRequest, Contract!NoRequest
<1>2. PhaseView \in {"pending", "done"} /\ (pc \in Waiting <=> PhaseView = "pending")
  BY DEF PhaseView, Waiting
<1>3. QED
  BY <1>1, <1>2, SameCatalog DEF disk

\* An error or a kill is the contract's failure, wherever it strikes.
LEMMA FailureIsFail ==
    ASSUME Closed, UNCHANGED disk, pc # "idle", reply' \in {"internal", "already_exists", "none"}
    PROVE  Contract!Fail
<1>1. ReplyView' \in {"internal", "none"}
  BY DEF ReplyView
<1>2. QED
  BY <1>1, EndShows DEF Contract!Fail

\* An ok answers what is done, or had nothing to do.
LEMMA OkIsSucceed ==
    ASSUME Answer("ok"), pc # "idle",
           \/ pc \notin Waiting
           \/ Contract!Accepts(request) /\ Contract!NothingToDo(request)
    PROVE  Contract!Succeed
<1>1. ReplyView' = "ok"
  BY DEF ReplyView, Answer
<1>2. QED
  BY <1>1, EndShows DEF Contract!Succeed, Answer

\* A refusal comes before anything is done, for a reason the contract has.
LEMMA RefusalIsRefuse ==
    ASSUME NEW outcome \in {"bad_request", "store_missing"}, Answer(outcome), pc \in Waiting,
           \/ ~Contract!Accepts(request)
           \/ request.type = "ingest" /\ Contract!ShortOfIds(request.batch)
    PROVE  Contract!Refuse
<1>1. ReplyView' \in {"bad_request", "store_missing"}
  BY DEF ReplyView, Answer
<1>2. pc # "idle"
  BY DEF Waiting
<1>3. QED
  BY <1>1, <1>2, EndShows DEF Contract!Refuse, Answer

\* The start of the rebuilding is no step of the contract,
LEMMA PrepareStutters ==
    ASSUME NEW m, NEW members, NEW gone, Prepare(m, members, gone), pc = "open"
    PROVE  UNCHANGED Contract!vars
<1>1. pc' \in Waiting /\ pc \in Waiting
  BY DEF Prepare, Waiting
<1>2. QED
  BY <1>1, QuietStepsStutter DEF Prepare, disk, session

\* nor is a target that is ready at once.
LEMMA PublishOverStutters ==
    ASSUME NEW m, PublishOver(m), pc = "open"
    PROVE  UNCHANGED Contract!vars
<1>1. pc' \in Waiting /\ pc \in Waiting
  BY DEF PublishOver, Waiting
<1>2. QED
  BY <1>1, QuietStepsStutter DEF PublishOver, disk, session

\* An internal error is the contract's failure.
LEMMA InternalIsFail ==
    ASSUME Answer("internal"), pc # "idle"
    PROVE  Contract!Next
BY FailureIsFail DEF Answer, Contract!Next

\* The first step of an ingest, by its outcome,
LEMMA IngestImplements ==
    ASSUME Sound, Ingest
    PROVE  [Contract!Next]_(Contract!vars)
<1> DEFINE refusal == IngestRefusal(Base, request.batch, request.replace)
           members == IngestChanges(Base, request.batch)
<1>0. CASE Unopenable
  <2>1. Answer("internal") /\ pc # "idle"
    BY <1>0 DEF Ingest
  <2>2. QED
    BY <2>1, InternalIsFail
<1> SUFFICES ASSUME ~Unopenable PROVE [Contract!Next]_(Contract!vars)
  BY <1>0
<1>1. /\ pc = "open" /\ request.type = "ingest" /\ request.batch \in Batches
      /\ pc # "idle" /\ pc \in Waiting
  BY DEF Ingest, Sound, CInv, RequestIsTyped, Waiting
<1>2. Contract!Accepts(request) <=> Contract!CanIngest(request)
  BY <1>1 DEF Contract!Accepts
<1>3. CASE refusal = "internal"
  <2>1. Answer("internal")
    BY <1>1, <1>3 DEF Ingest
  <2>2. QED
    BY <1>1, <2>1, InternalIsFail
<1>4. CASE refusal # "none" /\ refusal # "internal"
  <2>1. refusal = "bad_request"
    BY <1>1, <1>4, IngestIsRefused
  <2>2. Answer("bad_request")
    BY <1>1, <2>1 DEF Ingest
  <2>3. ~Contract!CanIngest(request) \/ Contract!ShortOfIds(request.batch)
    BY <1>1, <1>4, RefusedCannotBeIngested
  <2>4. QED
    BY <1>1, <1>2, <2>2, <2>3, RefusalIsRefuse DEF Contract!Next
<1>5. CASE refusal = "none" /\ members = {}
  <2>1. Answer("ok")
    BY <1>1, <1>5 DEF Ingest
  <2>2. Contract!CanIngest(request) /\ Contract!NothingToDo(request)
    BY <1>1, <1>5, TakenCanBeIngested, NothingToIngest
  <2>3. QED
    BY <1>1, <1>2, <2>1, <2>2, OkIsSucceed DEF Contract!Next
<1>6. CASE refusal = "none" /\ members # {}
  <2>1. Prepare(Base, members, {})
    BY <1>1, <1>6 DEF Ingest
  <2>2. QED
    BY <1>1, <2>1, PrepareStutters
<1>7. QED
  BY <1>3, <1>4, <1>5, <1>6

\* of a retirement,
LEMMA RetireImplements ==
    ASSUME Sound, Retire
    PROVE  [Contract!Next]_(Contract!vars)
<1>0. CASE Unopenable
  <2>1. Answer("internal") /\ pc # "idle"
    BY <1>0 DEF Retire
  <2>2. QED
    BY <2>1, InternalIsFail
<1> SUFFICES ASSUME ~Unopenable PROVE [Contract!Next]_(Contract!vars)
  BY <1>0
<1>1. /\ pc = "open" /\ request.type = "retire" /\ pc # "idle" /\ pc \in Waiting
  BY DEF Retire, Waiting
<1>2. Contract!Accepts(request) <=> Contract!CanRetire(request)
  BY <1>1 DEF Contract!Accepts
<1>3. current = None => KeysOf(Base) = {}
  BY BaseFacts DEF KeysOf
<1>4. CASE current = None \/ request.key \notin KeysOf(Base) \/ Cardinality(Base.resources) = 1
  <2>1. ~Contract!Accepts(request)
    BY <1>2, <1>3, <1>4, RetireIsTaken
  <2>2. \E outcome \in {"bad_request", "store_missing"} : Answer(outcome)
    BY <1>1, <1>4 DEF Retire
  <2>3. QED
    BY <1>1, <2>1, <2>2, RefusalIsRefuse DEF Contract!Next
<1>5. CASE ~(current = None \/ request.key \notin KeysOf(Base) \/ Cardinality(Base.resources) = 1)
  <2>1. Prepare(Base, {}, {request.key})
    BY <1>1, <1>5 DEF Retire
  <2>2. QED
    BY <1>1, <2>1, PrepareStutters
<1>6. QED
  BY <1>4, <1>5

\* of a rehash,
LEMMA RehashImplements ==
    ASSUME Sound, Rehash
    PROVE  [Contract!Next]_(Contract!vars)
<1>0. CASE Unopenable
  <2>1. Answer("internal") /\ pc # "idle"
    BY <1>0 DEF Rehash
  <2>2. QED
    BY <2>1, InternalIsFail
<1> SUFFICES ASSUME ~Unopenable PROVE [Contract!Next]_(Contract!vars)
  BY <1>0
<1>1. /\ pc = "open" /\ request.type = "rehash" /\ pc # "idle" /\ pc \in Waiting
  BY DEF Rehash, Waiting
<1>2. CASE current = None
  <2>1. Answer("store_missing")
    BY <1>1, <1>2 DEF Rehash
  <2>2. QED
    BY <1>1, <1>2, <2>1, RehashIsTaken, RefusalIsRefuse DEF Contract!Next
<1>3. CASE current # None /\ \E r \in Base.resources : ~Readable(Base, r)
  <2>1. Answer("internal")
    BY <1>1, <1>3 DEF Rehash
  <2>2. QED
    BY <1>1, <2>1, InternalIsFail
<1>4. CASE current # None /\ (\A r \in Base.resources : Readable(Base, r)) /\ Rehashed(Base) = Base
  <2>1. Answer("ok")
    BY <1>1, <1>4 DEF Rehash
  <2>2. Contract!Accepts(request) /\ Contract!NothingToDo(request)
    BY <1>1, <1>4, RehashIsTaken, RehashedResources
  <2>3. QED
    BY <1>1, <2>1, <2>2, OkIsSucceed DEF Contract!Next
<1>5. CASE current # None /\ (\A r \in Base.resources : Readable(Base, r)) /\ Rehashed(Base) # Base
  <2>1. PublishOver(Rehashed(Base))
    BY <1>1, <1>5 DEF Rehash
  <2>2. QED
    BY <1>1, <2>1, PublishOverStutters
<1>6. QED
  BY <1>2, <1>3, <1>4, <1>5

\* and of a duration update.
LEMMA SetDurationsImplements ==
    ASSUME Sound, SetDurations
    PROVE  [Contract!Next]_(Contract!vars)
<1> DEFINE next == WithDurations(Base, request.updates)
           valid == ValidDurations(Base, request.expected, request.updates)
<1>0. CASE Unopenable
  <2>1. Answer("internal") /\ pc # "idle"
    BY <1>0 DEF SetDurations
  <2>2. QED
    BY <2>1, InternalIsFail
<1> SUFFICES ASSUME ~Unopenable PROVE [Contract!Next]_(Contract!vars)
  BY <1>0
<1>1. /\ pc = "open" /\ request.type = "durations" /\ pc # "idle" /\ pc \in Waiting
  BY DEF SetDurations, Waiting
<1>2. CASE current = None
  <2>1. Answer("store_missing")
    BY <1>1, <1>2 DEF SetDurations
  <2>2. DOMAIN CatalogView = {}
    BY <1>2, BaseFacts DEF KeysOf
  <2>3. ~Contract!Accepts(request)
    BY <1>1, <2>2 DEF Contract!Accepts
  <2>4. QED
    BY <1>1, <2>1, <2>3, RefusalIsRefuse DEF Contract!Next
<1>3. CASE current # None /\ ~valid
  <2>1. Answer("bad_request")
    BY <1>1, <1>3 DEF SetDurations
  <2>2. ~Contract!Accepts(request)
    BY <1>1, <1>3, DurationsAreTaken
  <2>3. QED
    BY <1>1, <2>1, <2>2, RefusalIsRefuse DEF Contract!Next
<1>4. CASE current # None /\ valid /\ next = Base
  <2>1. Answer("ok")
    BY <1>1, <1>4 DEF SetDurations
  <2>2. Contract!Accepts(request) /\ Contract!NothingToDo(request)
    BY <1>1, <1>4, DurationsAreTaken, NothingToSet
  <2>3. QED
    BY <1>1, <2>1, <2>2, OkIsSucceed DEF Contract!Next
<1>5. CASE current # None /\ valid /\ next # Base
  <2>1. PublishOver(next)
    BY <1>1, <1>5 DEF SetDurations
  <2>2. QED
    BY <1>1, <2>1, PublishOverStutters
<1>6. QED
  BY <1>2, <1>3, <1>4, <1>5

\* Every step of the store is one of the contract's, or a stutter.
LEMMA StepsAreContractSteps == Sound /\ [Next]_vars => [Contract!Next]_(Contract!vars)
<1> SUFFICES ASSUME Sound, [Next]_vars PROVE [Contract!Next]_(Contract!vars)
  OBVIOUS
<1>1. CASE Submit
  <2>1. /\ pc = "idle" /\ pc' = "open" /\ reply' = "none" /\ UNCHANGED <<current, generations>>
        /\ request'.type \in {"ingest", "retire", "rehash", "durations"}
    BY <1>1 DEF Submit, disk, IngestRequests, RetireRequests, DurationRequests
  <2>2. PhaseView = "idle" /\ PhaseView' = "pending" /\ ReplyView' = "none"
    BY <2>1 DEF PhaseView, ReplyView
  <2>3. Contract!Submit
    BY <2>1, <2>2, SameCatalog DEF Contract!Submit
  <2>4. QED
    BY <2>3 DEF Contract!Next
<1>2. CASE Ingest \/ Retire \/ Rehash \/ SetDurations
  BY <1>2, IngestImplements, RetireImplements, RehashImplements, SetDurationsImplements
<1>3. CASE WriteShard
  <2>1. pc # "idle" /\ pc \in Waiting
    BY <1>3 DEF WriteShard, Waiting
  <2>2. CASE Answer("internal") \/ Answer("already_exists")
    BY <2>1, <2>2, FailureIsFail DEF Answer, Contract!Next
  <2>3. CASE ~(Answer("internal") \/ Answer("already_exists"))
    <3>1. pc' \in Waiting /\ UNCHANGED <<current, generations, request, reply>>
      BY <1>3, <2>3 DEF WriteShard, ShardDone, Waiting, disk, session
    <3>2. QED
      BY <2>1, <3>1, QuietStepsStutter
  <2>4. QED
    BY <2>2, <2>3
<1>4. CASE FillShard \/ ShardsDone
  <2>1. /\ pc \in Waiting /\ pc' \in Waiting
        /\ UNCHANGED <<current, generations, request, reply>>
    BY <1>4 DEF FillShard, ShardsDone, ShardDone, Waiting, disk, session
  <2>2. QED
    BY <2>1, QuietStepsStutter
<1>5. CASE WriteManifest
  <2>1. /\ pc = "publish" /\ pc' = "rename" /\ UNCHANGED <<current, request, reply>>
        /\ generations' = [g \in DOMAIN generations \union {Name(target)} |->
                             IF g = Name(target) THEN target ELSE generations[g]]
    BY <1>5 DEF WriteManifest, session
  <2>2. current # None => generations'[current] = generations[current]
    BY <2>1, CurrentIsThere DEF Sound, RInv, TargetIsNews
  <2>3. QED
    BY <2>1, <2>2, QuietStepsStutter DEF Waiting
<1>6. CASE RenameCurrent
  BY <1>6, RenameIsCommit DEF Contract!Next
<1>7. CASE CollectRoots \/ CollectGenerations \/ CollectShards
  <2>1. /\ pc \in {"sync", "gc_generations", "gc_shards"}
        /\ pc' \in {"gc_generations", "gc_shards", "reopen"}
        /\ UNCHANGED <<current, request, reply>>
        /\ current # None => generations'[current] = generations[current]
    BY <1>7, CollectorKeepsCInv
  <2>2. pc \notin Waiting \union {"idle"} /\ pc' \notin Waiting \union {"idle"}
    BY <2>1 DEF Waiting
  <2>3. QED
    BY <2>1, <2>2, QuietStepsStutter
<1>8. CASE Reopen
  <2>1. pc # "idle" /\ pc \notin Waiting /\ (Answer("ok") \/ Answer("internal"))
    BY <1>8 DEF Reopen, Waiting
  <2>2. QED
    BY <2>1, OkIsSucceed, InternalIsFail DEF Contract!Next
<1>9. CASE Stop
  <2>1. Contract!Fail
    BY <1>9, FailureIsFail DEF Stop
  <2>2. QED
    BY <2>1 DEF Contract!Next
<1>10. CASE ReaderStep \/ UNCHANGED vars
  <2>1. UNCHANGED <<current, generations, request, reply, pc>>
    BY <1>10 DEF ReaderStep, ReadCurrent, ReadManifest, OpenShard, ReaderDone, vars, disk, writer,
       session
  <2>2. QED
    BY <2>1, QuietStepsStutter
<1>11. QED
  BY <1>1, <1>2, <1>3, <1>4, <1>5, <1>6, <1>7, <1>8, <1>9, <1>10 DEF Next, WriterStep

\* The initial stores are initial catalogs.
LEMMA InitImplements ==
    ASSUME Init
    PROVE  Contract!Init
<1>1. pc = "idle" /\ request = NoRequest /\ reply = "none"
  BY DEF Init
<1>2. CASE current = None
  BY <1>1, <1>2 DEF Contract!Init, PhaseView, ReplyView, CatalogView, NoRequest, Contract!NoRequest
<1>3. CASE current # None /\ IsFine(generations[current])
  <2>1. DOMAIN CatalogView # {}
    BY <1>3 DEF CatalogView, KeysOf, IsFine
  <2>2. QED
    BY <1>1, <1>3, <2>1 DEF Contract!Init, PhaseView, ReplyView, NoRequest, Contract!NoRequest
<1>4. QED
  BY <1>2, <1>3, InitHolds

\* Where forward reads back what was stored, whatever store.rs is asked and
\* wherever it is stopped, a request changes the catalog as a whole in the one
\* rename of CURRENT or not at all, and is answered accordingly.
THEOREM CatalogIsImplemented == Spec /\ []ForwardNeverLies => ImplementsCatalog
<1>1. Init => IInv /\ RInv /\ CInv /\ Contract!Init
  BY InitIInv, InitRInv, InitHolds, InitImplements
<1>2. IInv /\ RInv /\ CInv /\ ForwardNeverLies /\ [Next]_vars
        => IInv' /\ RInv' /\ CInv' /\ [Contract!Next]_(Contract!vars)
  BY NextKeepsIInv, NextKeepsRInv, NextKeepsCInv, StepsAreContractSteps DEF Sound
<1>3. QED
  BY <1>1, <1>2, PTL DEF Spec, ImplementsCatalog, Contract!Spec
=============================================================================
