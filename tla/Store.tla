------------------------------- MODULE Store --------------------------------
(***************************************************************************)
(* The generation store of core/src/store.rs: one store root on disk, the  *)
(* one writer that publishes generations into it (README.md asks for "one  *)
(* explicit writer"; inside the daemon a mutex makes it so) and a reader   *)
(* of another process that opens it without any lock.                      *)
(*                                                                         *)
(* The writer's steps are the points where another process or a crash can  *)
(* see the disk: each file created, renamed or removed.  Stop is an I/O    *)
(* error or a kill between any two of them.                                *)
(***************************************************************************)
EXTENDS Shards

CONSTANTS
    Batches,        \* the resource sets an ingest may bring
    DurationFiles,  \* the update sets a set-durations may bring
    MaxId,          \* u32::MAX, the largest resource id
    MaxRequests,    \* bound on the requests, the one that made a first store included
    None            \* an absent file, and what a closed process remembers

\* A batch is a list of parsed dumps, an update set the lines of a file.
ASSUME BatchesAssumption ==
    \A batch \in Batches :
        /\ IsFiniteSet(batch)
        /\ \A r \in batch : r \in [key: Keys, duration: Nat, prints: Seq(Fingerprint)]
ASSUME DurationFilesAssumption ==
    \A updates \in DurationFiles : \A u \in updates : u \in [key: Keys, duration: Nat]
ASSUME LimitsAssumption == MaxId \in Nat /\ MaxRequests \in Nat \ {0}

VARIABLES
    current,      \* the manifest named in CURRENT, or None
    generations,  \* manifest name -> manifest, the complete files of generations/
    shards,       \* the complete files of shards/
    temps,        \* the shard files whose .bin.tmp is left in shards/
    rollback,     \* history: the generation that CURRENT named before this one
    overlooked,   \* history: which of these two the last publication failed to read
    pc,           \* where the writer is
    request,      \* what it was asked
    opened,       \* the manifest of the Store it opened, None outside a request
    changes,      \* the (id, resource) pairs of an ingest
    target,       \* the manifest it is preparing
    todo,         \* shards still to be rebuilt
    previous,     \* CURRENT as publish_manifest read it
    retained,     \* the shard files garbage_collect keeps
    reply,        \* the outcome of the last request
    requests,     \* how many requests there have been
    reader        \* a process in the middle of Store::open

disk == <<current, generations, shards, temps, rollback, overlooked>>
session == <<request, reply, requests>>
plan == <<opened, changes, target, todo>>
collector == <<previous, retained>>
writer == <<pc, session, plan, collector>>
vars == <<disk, writer, reader>>

-----------------------------------------------------------------------------
(* Manifests.                                                              *)

\* generation_id_from_infos: positions in the shard files are not digested.
Generation(profile, resources) ==
    [profile |-> profile,
     resources |-> { [key |-> r.key, id |-> r.id, duration |-> r.duration,
                      hash |-> r.hash] : r \in resources }]

Name(manifest) == Generation(manifest.profile, manifest.resources)

Names == [profile: BOOLEAN,
          resources: SUBSET [key: Keys, id: Nat, duration: Nat, hash: HashType]]

ASSUME NoneAssumption == None \notin Names

Manifest == [profile: BOOLEAN, resources: SUBSET ResourceInfo, files: [Numbers -> ShardFile]]

\* Mutation: the loop over the shards misses the first.
ManifestFromOne ==
    [profile |-> TRUE, resources |-> {},
     files |-> [n \in Numbers \ {0} |-> ShardName(n, {})]]

\* What build starts from: no resources, a current profile, nothing written.
EmptyManifest ==
    [profile |-> TRUE, resources |-> {}, files |-> [n \in Numbers |-> ShardName(n, {})]]

KeysOf(manifest) == { r.key : r \in manifest.resources }
InfoOf(manifest, key) == CHOOSE r \in manifest.resources : r.key = key

Readable(manifest, info) == ForwardReadable(manifest.files[ShardOf[info.key]], info)
Stored(manifest, info) == Forward(manifest.files[ShardOf[info.key]], info)

\* Store::fingerprint_content_hash: legacy identities are recomputed.
Identity(manifest, info) ==
    IF manifest.profile THEN info.hash ELSE ContentHash(Stored(manifest, info))

\* Store::open succeeds when every file it follows is there.
Complete(name) ==
    /\ name \in DOMAIN generations
    /\ \A n \in Numbers : generations[name].files[n] \in shards

\* Store::lookup, each hit with the keys that its id stands for.
Lookup(manifest, probe) ==
    { [keys |-> { r.key : r \in { r \in manifest.resources : r.id = hit.id } },
       t |-> hit.t, hash |-> hit.hash] :
        hit \in UNION { LookupRange(manifest.files[n], probe) : n \in Numbers } }

-----------------------------------------------------------------------------
(* Requests.  They are complete before the store sees them: Dump parsing   *)
(* has already refused what is malformed.                                  *)

NoRequest == [type |-> "none"]
IngestRequests == [type: {"ingest"}, batch: Batches, replace: BOOLEAN]
RetireRequests == [type: {"retire"}, key: Keys]
\* The operator pins a generation it has seen, or one that was never there.
DurationRequests ==
    [type: {"durations"}, updates: DurationFiles, expected: DOMAIN generations \union {None}]

Submit ==
    /\ pc = "idle"
    /\ requests < MaxRequests
    /\ request' \in IngestRequests \union RetireRequests \union DurationRequests
                      \union {[type |-> "rehash"]}
    /\ requests' = requests + 1
    /\ pc' = "open"
    /\ reply' = "none"
    /\ UNCHANGED <<disk, plan, collector, reader>>

\* What the process forgets when a request ends.
Closed ==
    /\ pc' = "idle"
    /\ request' = NoRequest
    /\ opened' = None
    /\ target' = None
    /\ changes' = {}
    /\ todo' = {}
    /\ previous' = None
    /\ retained' = {}

Answer(outcome) ==
    /\ Closed
    /\ reply' = outcome
    /\ UNCHANGED <<disk, requests, reader>>

-----------------------------------------------------------------------------
(* Store::ingest: compare, assign ids, and collect what changes.           *)

HasDuplicates(batch) == \E r, s \in batch : r # s /\ r.key = s.key

LastId(manifest) == IF manifest.resources = {} THEN 0 ELSE Max({ r.id : r \in manifest.resources })

Existing(manifest, r) == r.key \in KeysOf(manifest)

IsUnchanged(manifest, r) ==
    /\ Existing(manifest, r)
    /\ Identity(manifest, InfoOf(manifest, r.key)) = ContentHash(r.prints)

Fresh(manifest, batch) == { r \in batch : ~Existing(manifest, r) }

\* New keys take the ids after the last one, in key order.
FreshId(manifest, batch, r) ==
    LastId(manifest) + Cardinality({ s \in Fresh(manifest, batch) : s.key <= r.key })

\* Mutation: ids count from the number of resources, not from the largest id.
CountedChanges(manifest, batch) ==
    { [key |-> r.key, duration |-> r.duration, prints |-> r.prints,
       id |-> IF Existing(manifest, r) THEN InfoOf(manifest, r.key).id
              ELSE Cardinality(manifest.resources)
                     + Cardinality({ s \in Fresh(manifest, batch) : s.key <= r.key })] :
        r \in { r \in batch : ~IsUnchanged(manifest, r) } }

IngestChanges(manifest, batch) ==
    { [key |-> r.key, duration |-> r.duration, prints |-> r.prints,
       id |-> IF Existing(manifest, r) THEN InfoOf(manifest, r.key).id
                                       ELSE FreshId(manifest, batch, r)] :
        r \in { r \in batch : ~IsUnchanged(manifest, r) } }

\* A legacy identity has to be recomputed, which needs a readable range.
Unidentifiable(manifest, r) ==
    /\ Existing(manifest, r)
    /\ ~manifest.profile
    /\ ~Readable(manifest, InfoOf(manifest, r.key))

\* Mutation: changed content replaces what is stored without being asked to.
NeverConflicts(manifest, r, replace) == FALSE

Conflicts(manifest, r, replace) ==
    /\ Existing(manifest, r)
    /\ ~IsUnchanged(manifest, r)
    /\ ~replace

\* ingest computes next_id before it is needed and once more after every use;
\* build numbers from 1 and needs no spare.
Spare(manifest) == IF manifest = EmptyManifest THEN 0 ELSE 1

IdsExhausted(manifest, batch, r) ==
    /\ ~Existing(manifest, r)
    /\ FreshId(manifest, batch, r) + Spare(manifest) > MaxId

\* The first resource in key order that cannot be taken decides the answer.
IngestRefusal(manifest, batch, replace) ==
    LET refused == { r \in batch : \/ Unidentifiable(manifest, r)
                                   \/ Conflicts(manifest, r, replace)
                                   \/ IdsExhausted(manifest, batch, r) }
        first == CHOOSE r \in refused : \A s \in refused : r.key <= s.key
    IN  IF batch = {} \/ HasDuplicates(batch) \/ LastId(manifest) + Spare(manifest) > MaxId
        THEN "bad_request"
        ELSE IF refused = {} THEN "none"
        ELSE IF Unidentifiable(manifest, first) THEN "internal" ELSE "bad_request"

\* Every shard is written by build; later only those whose members change.
Affected(manifest, members) ==
    IF manifest = EmptyManifest THEN Numbers ELSE { ShardOf[r.key] : r \in members }

\* Keep what is neither changed nor retired; the shards to rebuild follow.
Prepare(manifest, members, gone) ==
    /\ opened' = manifest
    /\ changes' = members
    /\ target' = [manifest EXCEPT !.resources =
                    { r \in @ : r.key \notin gone \union { c.key : c \in members } }]
    /\ todo' = Affected(manifest, members \union { r \in manifest.resources : r.key \in gone })
    /\ pc' = "shards"
    /\ UNCHANGED <<disk, session, collector, reader>>

\* The manifest the writer works from: an ingest into a missing store builds.
Base == IF current = None THEN EmptyManifest ELSE generations[current]

Unopenable == current # None /\ ~Complete(current)

Ingest ==
    /\ pc = "open"
    /\ request.type = "ingest"
    /\ IF Unopenable THEN Answer("internal")
       ELSE LET refusal == IngestRefusal(Base, request.batch, request.replace)
                members == IngestChanges(Base, request.batch)
            IN  IF refusal # "none" THEN Answer(refusal)
                ELSE IF members = {} THEN Answer("ok")
                ELSE Prepare(Base, members, {})

-----------------------------------------------------------------------------
(* Store::retire.                                                          *)

Retire ==
    /\ pc = "open"
    /\ request.type = "retire"
    /\ IF Unopenable THEN Answer("internal")
       ELSE IF current = None THEN Answer("store_missing")
       ELSE IF request.key \notin KeysOf(Base) \/ Cardinality(Base.resources) = 1
       THEN Answer("bad_request")
       ELSE Prepare(Base, {}, {request.key})

-----------------------------------------------------------------------------
(* Operations that publish a manifest over the shards already there.       *)

PublishOver(manifest) ==
    /\ opened' = Base
    /\ target' = manifest
    /\ pc' = "publish"
    /\ UNCHANGED <<disk, session, changes, todo, collector, reader>>

\* Store::rehash_identities.
Rehashed(manifest) ==
    [profile |-> TRUE,
     resources |-> { [r EXCEPT !.hash = ContentHash(Stored(manifest, r))] : r \in manifest.resources },
     files |-> manifest.files]

Rehash ==
    /\ pc = "open"
    /\ request.type = "rehash"
    /\ IF Unopenable THEN Answer("internal")
       ELSE IF current = None THEN Answer("store_missing")
       ELSE IF \E r \in Base.resources : ~Readable(Base, r) THEN Answer("internal")
       ELSE IF Rehashed(Base) = Base THEN Answer("ok")
       ELSE PublishOver(Rehashed(Base))

\* bins_to_seconds, in milliseconds: 128 samples a bin and 12,464 of latency.
BinsToMillis(t) == t * 8 + 779

\* validate_duration: at most 1 s before the last fingerprint, and at most the
\* greater of 10 s and 1 % of the duration after it.
DurationFits(prints, millis) ==
    prints # <<>> =>
        LET last == BinsToMillis(prints[Len(prints)].t)
        IN  /\ last <= millis + 1000
            /\ millis <= last + 10000 \/ 100 * millis <= 100 * last + millis

ValidDurations(manifest, expected, updates) ==
    /\ expected = Name(manifest)
    /\ manifest.profile
    /\ \A u \in updates : u.duration > 0
    /\ ~HasDuplicates(updates)
    /\ { u.key : u \in updates } = KeysOf(manifest)
    /\ \A u \in updates : DurationFits(InfoOf(manifest, u.key).hash.prints, u.duration)

WithDurations(manifest, updates) ==
    LET New(r) == (CHOOSE u \in updates : u.key = r.key).duration
    IN  [profile |-> manifest.profile,
         resources |-> { [r EXCEPT !.duration = New(r)] : r \in manifest.resources },
         files |-> manifest.files]

SetDurations ==
    /\ pc = "open"
    /\ request.type = "durations"
    /\ IF Unopenable THEN Answer("internal")
       ELSE IF current = None THEN Answer("store_missing")
       ELSE IF ~ValidDurations(Base, request.expected, request.updates) THEN Answer("bad_request")
       ELSE IF WithDurations(Base, request.updates) = Base THEN Answer("ok")
       ELSE PublishOver(WithDurations(Base, request.updates))

-----------------------------------------------------------------------------
(* rebuild_changed_shards and write_shard, one shard at a time.            *)

NextShard == Min(todo)

\* What the rebuilt shard keeps of the opened store.
KeptInfos == { r \in target.resources : ShardOf[r.key] = NextShard }

Group ==
    { [key |-> r.key, id |-> r.id, duration |-> r.duration, prints |-> Stored(opened, r)] :
        r \in KeptInfos }
    \union { c \in changes : ShardOf[c.key] = NextShard }

WithShard(infos) ==
    [profile |-> target.profile,
     resources |-> (target.resources \ KeptInfos) \union infos,
     files |-> [target.files EXCEPT ![NextShard] = ShardName(NextShard, infos)]]

\* Shard files are immutable and content-addressed: one that exists is reused.
ShardDone ==
    /\ target' = WithShard(GroupInfos(Group))
    /\ todo' = todo \ {NextShard}
    /\ pc' = "shards"
    /\ UNCHANGED <<session, opened, changes, collector, reader>>

\* Mutation: a temporary of an earlier attempt is taken for the file.
TrustLeftovers ==
    /\ pc = "shards"
    /\ todo # {}
    /\ LET file == ShardName(NextShard, GroupInfos(Group))
       IN  IF \E r \in KeptInfos : ~Readable(opened, r) THEN Answer("internal")
           ELSE IF file \in shards \union temps THEN ShardDone /\ UNCHANGED disk
           ELSE /\ temps' = temps \union {file}
                /\ pc' = "fill"
                /\ UNCHANGED <<current, generations, shards, rollback, overlooked, session, plan,
                               collector, reader>>

WriteShard ==
    /\ pc = "shards"
    /\ todo # {}
    /\ LET file == ShardName(NextShard, GroupInfos(Group))
       IN  IF \E r \in KeptInfos : ~Readable(opened, r) THEN Answer("internal")
           ELSE IF file \in shards THEN ShardDone /\ UNCHANGED disk
           ELSE IF file \in temps THEN Answer("already_exists")
           ELSE /\ temps' = temps \union {file}
                /\ pc' = "fill"
                /\ UNCHANGED <<current, generations, shards, rollback, overlooked, session, plan,
                               collector, reader>>

\* The bytes are written and synced, then the temporary gets its name.
FillShard ==
    /\ pc = "fill"
    /\ LET file == ShardName(NextShard, GroupInfos(Group))
       IN  /\ temps' = temps \ {file}
           /\ shards' = shards \union {file}
    /\ ShardDone
    /\ UNCHANGED <<current, generations, rollback, overlooked>>

ShardsDone ==
    /\ pc = "shards"
    /\ todo = {}
    /\ pc' = "publish"
    /\ UNCHANGED <<disk, session, plan, collector, reader>>

-----------------------------------------------------------------------------
(* publish_manifest and garbage_collect.                                   *)

\* CURRENT is read before the manifest gets its name.  An error there is
\* swallowed (.ok()): publication goes on as if there were no predecessor.
WriteManifest ==
    /\ pc = "publish"
    /\ previous' \in {current, None}
    /\ generations' = [g \in DOMAIN generations \union {Name(target)} |->
                         IF g = Name(target) THEN target ELSE generations[g]]
    /\ pc' = "rename"
    /\ UNCHANGED <<current, shards, temps, rollback, overlooked, session, plan, retained, reader>>

\* The commit point.  A reader in the middle of its open ages by one.  All of
\* the predecessor is there, since the request has opened it; it is overlooked
\* from now on if CURRENT could not be read.
RenameCurrent ==
    /\ pc = "rename"
    /\ current' = Name(target)
    /\ rollback' = current
    /\ overlooked' = {current} \ {previous, None}
    /\ pc' = "sync"
    /\ reader' = [reader EXCEPT !.age = IF @ < 2 THEN @ + 1 ELSE @]
    /\ UNCHANGED <<generations, shards, temps, session, plan, collector>>

\* Mutation: only the generation just published is retained.
OnlyCurrent == {Name(target)}

Retained == {Name(target), previous} \ {None}

\* sync_directory, then the shard files of the retained manifests are listed.
\* A manifest that cannot be read is passed over (if let Ok): its files are
\* not among those to keep.
CollectRoots ==
    /\ pc = "sync"
    /\ \E read \in SUBSET (Retained \cap DOMAIN generations) :
            /\ retained' = UNION { { generations[g].files[n] : n \in Numbers } : g \in read }
            /\ overlooked' = overlooked \union ((Retained \cap DOMAIN generations) \ read)
    /\ pc' = "gc_generations"
    /\ UNCHANGED <<current, generations, shards, temps, rollback, session, plan, previous, reader>>

CollectGenerations ==
    /\ pc = "gc_generations"
    /\ generations' = [g \in DOMAIN generations \cap Retained |-> generations[g]]
    /\ pc' = "gc_shards"
    /\ UNCHANGED <<current, shards, temps, rollback, overlooked, session, plan, collector, reader>>

\* Mutation: only the *.bin files of shards/ are looked at.
CollectBins ==
    /\ pc = "gc_shards"
    /\ shards' = shards \cap retained
    /\ pc' = "reopen"
    /\ UNCHANGED <<current, generations, temps, rollback, overlooked, session, plan, collector,
                   reader>>

\* Everything else in shards/ goes, abandoned temporaries included.
CollectShards ==
    /\ pc = "gc_shards"
    /\ shards' = shards \cap retained
    /\ temps' = {}
    /\ pc' = "reopen"
    /\ UNCHANGED <<current, generations, rollback, overlooked, session, plan, collector, reader>>

\* Store::open on what was published, then the answer.
Reopen ==
    /\ pc = "reopen"
    /\ Answer(IF Complete(current) THEN "ok" ELSE "internal")

\* An I/O error or a kill.  Removals are best effort and do not fail a request.
Stop ==
    /\ pc # "idle"
    /\ Closed
    /\ reply' \in IF pc \in {"gc_generations", "gc_shards"} THEN {"none"} ELSE {"internal", "none"}
    /\ UNCHANGED <<disk, requests, reader>>

-----------------------------------------------------------------------------
(* Store::open in another process: CURRENT, its manifest, then each shard. *)

ClosedReader == [pc |-> "idle", name |-> None, manifest |-> None, next |-> 0, age |-> 0]

ReadCurrent ==
    /\ reader.pc = "idle"
    /\ current # None
    /\ reader' = [ClosedReader EXCEPT !.pc = "manifest", !.name = current]
    /\ UNCHANGED <<disk, writer>>

ReadManifest ==
    /\ reader.pc = "manifest"
    /\ reader' = IF reader.name \in DOMAIN generations
                 THEN [reader EXCEPT !.pc = "shards", !.manifest = generations[reader.name]]
                 ELSE [reader EXCEPT !.pc = "failed"]
    /\ UNCHANGED <<disk, writer>>

\* A mapped file stays readable after it is unlinked.
OpenShard ==
    /\ reader.pc = "shards"
    /\ reader' = IF reader.manifest.files[reader.next] \notin shards
                 THEN [reader EXCEPT !.pc = "failed"]
                 ELSE IF reader.next = ShardCount - 1
                 THEN [reader EXCEPT !.pc = "open"]
                 ELSE [reader EXCEPT !.next = @ + 1]
    /\ UNCHANGED <<disk, writer>>

ReaderDone ==
    /\ reader.pc \in {"open", "failed"}
    /\ reader' = ClosedReader
    /\ UNCHANGED <<disk, writer>>

-----------------------------------------------------------------------------
\* No store, or one that a version without the identity profile left behind:
\* its endpoint identities and shard names digest more than the prints.
LegacyManifest(batch) ==
    LET members(n) == { m \in IngestChanges(EmptyManifest, batch) : ShardOf[m.key] = n }
        infos(n) == { [r EXCEPT !.hash = [@ EXCEPT !.legacy = TRUE]] : r \in GroupInfos(members(n)) }
    IN  [profile |-> FALSE,
         resources |-> UNION { infos(n) : n \in Numbers },
         files |-> [n \in Numbers |-> ShardName(n, infos(n))]]

Holds(manifest) ==
    /\ current = Name(manifest)
    /\ generations = [g \in {Name(manifest)} |-> manifest]
    /\ shards = { manifest.files[n] : n \in Numbers }

Init ==
    /\ \/ /\ current = None /\ generations = [g \in {} |-> None] /\ shards = {}
          /\ requests = 0
       \/ /\ \E batch \in Batches : /\ batch # {}
                                   /\ ~HasDuplicates(batch)
                                   /\ Holds(LegacyManifest(batch))
          /\ requests = 1
    /\ temps = {}
    /\ rollback = None
    /\ overlooked = {}
    /\ pc = "idle"
    /\ request = NoRequest
    /\ opened = None
    /\ changes = {}
    /\ target = None
    /\ todo = {}
    /\ previous = None
    /\ retained = {}
    /\ reply = "none"
    /\ reader = ClosedReader

WriterStep ==
    \/ Submit \/ Ingest \/ Retire \/ Rehash \/ SetDurations
    \/ WriteShard \/ FillShard \/ ShardsDone \/ WriteManifest \/ RenameCurrent
    \/ CollectRoots \/ CollectGenerations \/ CollectShards \/ Reopen \/ Stop

ReaderStep == ReadCurrent \/ ReadManifest \/ OpenShard \/ ReaderDone

Next == WriterStep \/ ReaderStep

Spec == Init /\ [][Next]_vars

-----------------------------------------------------------------------------
(* Properties.                                                             *)

\* Every variable of the store root, the writer and the reader has its type.
TypeOK ==
    /\ current \in Names \union {None}
    /\ DOMAIN generations \subseteq Names
    /\ \A g \in DOMAIN generations : generations[g] \in Manifest
    /\ shards \subseteq ShardFile
    /\ temps \subseteq ShardFile
    /\ rollback \in Names \union {None}
    /\ overlooked \subseteq Names
    /\ pc \in {"idle", "open", "shards", "fill", "publish", "rename", "sync", "gc_generations",
               "gc_shards", "reopen"}
    /\ opened \in Manifest \union {None}
    /\ changes \subseteq GroupMember
    /\ target \in Manifest \union {None}
    /\ todo \subseteq Numbers
    /\ previous \in Names \union {None}
    /\ retained \subseteq ShardFile
    /\ reply \in {"none", "ok", "bad_request", "store_missing", "internal", "already_exists"}
    /\ requests \in 0 .. MaxRequests
    /\ reader.pc \in {"idle", "manifest", "shards", "open", "failed"}
    /\ reader.next \in Numbers
    /\ reader.age \in 0 .. 2

\* ARCHITECTURE.md: "CURRENT is replaced atomically only after every shard and
\* the new manifest have been synced".  Whatever the writer is in the middle
\* of, and wherever it was stopped, the published generation can be opened,
\* unless the collection of garbage could not read its manifest.
PublishedIsComplete == current \notin overlooked \union {None} => Complete(current)

\* DECISIONS.md keeps "CURRENT and its immediate predecessor": the generation
\* the present one replaced can still be opened, as a rollback needs it to,
\* unless the writer could not read CURRENT or that generation's manifest.
RollbackIsComplete == rollback \notin overlooked \union {None} => Complete(rollback)

\* A reader that has read CURRENT without a lock can finish its open although
\* one publication, with its garbage collection, overtakes it; again unless
\* that collection could not read the manifest of the reader's generation.
ReaderSurvivesOnePublication ==
    reader.pc = "failed" => reader.age = 2 \/ reader.name \in overlooked

\* After a publication generations/ and shards/ hold at most two generations
\* and their shard files and nothing else, whatever earlier failures left
\* there (and provided that files can be removed).
DiskIsBounded ==
    pc = "reopen" =>
        /\ DOMAIN generations \subseteq {current, rollback} \ {None}
        /\ shards \subseteq UNION { { generations[g].files[n] : n \in Numbers } :
                                       g \in DOMAIN generations }
        /\ temps = {}

HashesOf(resources) ==
    UNION { { r.hash.prints[i].hash : i \in 1 .. Postings(r) } : r \in resources }

\* What a lookup has to find, read from the manifest alone.
Near(info, probe) ==
    { [keys |-> {info.key}, t |-> info.hash.prints[i].t, hash |-> info.hash.prints[i].hash] :
        i \in { i \in 1 .. Postings(info) :
                   info.hash.prints[i].hash \in probe - QueryRange .. probe + QueryRange } }

\* The shard files of a generation that can be opened and its manifest agree:
\* a lookup returns the postings of exactly the resources that are stored, and
\* attributes each to the right one, through every replacement, retirement,
\* reuse of ids and reuse of files.
LookupIsExact ==
    current # None =>
        LET manifest == generations[current]
        IN  \A probe \in HashesOf(UNION { generations[g].resources : g \in DOMAIN generations }) :
                Lookup(manifest, probe) = UNION { Near(r, probe) : r \in manifest.resources }

\* Reading a resource back fails or returns its own prints, never another's:
\* the id check of Shard::forward turns a misplaced range into an error.
ForwardNeverLies ==
    current # None =>
        \A r \in generations[current].resources :
            Readable(generations[current], r) => Stored(generations[current], r) = r.hash.prints

-----------------------------------------------------------------------------
(* What the code does not keep, each checked by a run of its own.          *)

\* ARCHITECTURE.md: "The forward range for each resource is recorded in the
\* manifest".  Every stored resource can be read back.
EveryResourceIsReadable ==
    current # None =>
        \A r \in generations[current].resources : Readable(generations[current], r)

\* DECISIONS.md: "Corrupt or incomplete unpublished files are harmless".  No
\* request fails because of what an interrupted one left behind.
LeftoversAreHarmless == reply # "already_exists"

\* DECISIONS.md: "retain CURRENT and its immediate predecessor; remove older
\* manifests and shard files referenced by neither".  A collection takes no
\* shard file of the generation that CURRENT names.
CollectorSparesCurrent == current # None => Complete(current)

-----------------------------------------------------------------------------
(* Refinement: the catalog is what the manifest named in CURRENT lists.    *)

CatalogView ==
    IF current = None THEN [k \in {} |-> None]
    ELSE [k \in KeysOf(generations[current]) |->
            LET r == InfoOf(generations[current], k)
            IN  [id |-> r.id, duration |-> r.duration, prints |-> r.hash.prints]]

PhaseView ==
    CASE pc = "idle" -> "idle"
      [] pc \in {"open", "shards", "fill", "publish", "rename"} -> "pending"
      [] OTHER -> "done"

\* The file a stopped request tripped over is no concern of the contract.
ReplyView == IF reply = "already_exists" THEN "internal" ELSE reply

Contract == INSTANCE Catalog WITH
    catalog <- CatalogView, version <- current,
    identified <- (current # None => current.profile), phase <- PhaseView, reply <- ReplyView,
    FitsExtent <- DurationFits

\* Every request takes effect as a whole in one step, or not at all: a refused
\* one changes nothing, a failed or killed one is wholly in or wholly out, and
\* an ok answers only what was published or already so.
ImplementsCatalog == Contract!Spec
=============================================================================
