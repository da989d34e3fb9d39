---------------------------- MODULE Refingerprint ----------------------------
(***************************************************************************)
(* resident refingerprint (resident/src/refingerprint.rs): a batch that    *)
(* extracts every audio file of a manifest into a dump directory, on a     *)
(* rayon pool of --jobs threads, and that is run again after a kill, an    *)
(* error or a repaired audio file.                                         *)
(*                                                                         *)
(* A thread that waits for a band of its file, while another thread maps   *)
(* that band, takes other files of the batch on top of it.  One process    *)
(* at a time uses the directory; a kill leaves the files as they are.      *)
(***************************************************************************)
EXTENDS Naturals, FiniteSets, Sequences, SequencesExt

CONSTANTS
    Ids,        \* the line numbers a manifest may have
    Manifests,  \* the manifests a run may be given: line number -> [key, audio]
    Legible,    \* the keys that a line of a metadata file can hold
    Audio,      \* the audio files
    Threads,    \* the threads of the pool, --jobs of them
    MaxRuns,    \* bound on the runs of a behaviour
    None        \* an absent file

ASSUME IdsAssumption == Ids \subseteq Nat \ {0} /\ IsFiniteSet(Ids)
ASSUME ManifestsAssumption ==
    \A m \in Manifests :
        /\ DOMAIN m \subseteq Ids
        /\ \A i \in DOMAIN m : m[i] = [key |-> m[i].key, audio |-> m[i].audio] /\ m[i].audio \in Audio
ASSUME NoneAssumption ==
    /\ None \notin Manifests /\ None \notin Audio /\ None \notin Ids
    /\ \A m \in Manifests : \A i \in DOMAIN m :
          None # m[i] /\ None # [key |-> m[i].key, prints |-> m[i].audio]
ASSUME ThreadsAssumption == IsFiniteSet(Threads) /\ Threads # {}
ASSUME MaxRunsAssumption == MaxRuns \in Nat

VARIABLES
    marker,     \* the manifest that REFINGERPRINT_MANIFEST.sha256 digests, or None
    prints,     \* line -> the audio whose prints its .tdb holds, or None
    metas,      \* line -> its metadata file, or None
    failures,   \* the lines of failures.jsonl, or None
    partials,   \* the *.partial files
    decodable,  \* the audio files that ffmpeg can decode
    pc,         \* where the process is, "idle" when there is none
    manifest,   \* the manifest it was given
    phase,      \* line -> how far this process is with it
    stack,      \* thread -> the lines it works on, the running one last
    helping,    \* thread -> the line whose bands it maps for another, or None
    status,     \* how the last run ended
    runs        \* how many runs there have been

Phases == {"none", "queued", "decode", "bands", "prints", "metadata", "sync", "done", "failed",
           "error"}

disk == <<marker, prints, metas, failures, partials>>
pool == <<phase, stack, helping>>
vars == <<disk, decodable, pc, manifest, pool, status, runs>>

Partial(file, i) == [file |-> file, line |-> i]
MarkerPartial == Partial("marker", 0)
FailuresPartial == Partial("failures", 0)

\* Mutation: the lines of the metadata file are swapped.
SwappedMeta(i) == [key |-> manifest[i].audio, prints |-> manifest[i].key]

Meta(i) == [key |-> manifest[i].key, prints |-> manifest[i].audio]

-----------------------------------------------------------------------------
(* Starting: the marker, then the scan of what earlier runs completed.     *)

Start ==
    /\ pc = "idle"
    /\ runs < MaxRuns
    /\ manifest' \in Manifests
    /\ runs' = runs + 1
    /\ pc' = "pin"
    /\ status' = "none"
    /\ UNCHANGED <<disk, decodable, pool>>

Exited(how) ==
    /\ pc' = "idle"
    /\ status' = how
    /\ manifest' = None
    /\ phase' = [i \in Ids |-> "none"]
    /\ stack' = [t \in Threads |-> <<>>]
    /\ helping' = [t \in Threads |-> None]
    /\ UNCHANGED <<decodable, runs>>

\* Mutation: the marker is written whatever it says.
PinAlways ==
    /\ pc = "pin"
    /\ partials' = partials \union {MarkerPartial}
    /\ pc' = "bind"
    /\ UNCHANGED <<marker, prints, metas, failures, decodable, manifest, pool, status, runs>>

PinManifest ==
    /\ pc = "pin"
    /\ \/ /\ marker = None
          /\ partials' = partials \union {MarkerPartial}
          /\ pc' = "bind"
          /\ UNCHANGED <<marker, prints, metas, failures, decodable, manifest, pool, status, runs>>
       \/ /\ marker = manifest
          /\ pc' = "scan"
          /\ UNCHANGED <<disk, decodable, manifest, pool, status, runs>>
       \/ /\ marker \notin {None, manifest}
          /\ Exited("foreign")
          /\ UNCHANGED disk

Bind ==
    /\ pc = "bind"
    /\ marker' = manifest
    /\ partials' = partials \ {MarkerPartial}
    /\ pc' = "scan"
    /\ UNCHANGED <<prints, metas, failures, decodable, manifest, pool, status, runs>>

\* completed: the metadata is the marker, and what it says must hold.
Valid(i) ==
    /\ prints[i] # None
    /\ metas[i].key \in Legible
    /\ metas[i].key = manifest[i].key
    /\ prints[i] = metas[i].prints

\* Nothing is written by the scan and nobody else writes: it is one step.
Scan ==
    /\ pc = "scan"
    /\ IF \E i \in DOMAIN manifest : metas[i] # None /\ ~Valid(i)
       THEN Exited("invalid") /\ UNCHANGED disk
       ELSE /\ phase' = [i \in Ids |->
                           IF i \in DOMAIN manifest /\ metas[i] = None THEN "queued" ELSE "none"]
            /\ pc' = "work"
            /\ UNCHANGED <<disk, decodable, manifest, stack, helping, status, runs>>

-----------------------------------------------------------------------------
(* The pool.                                                               *)

Busy(t) == stack[t] # <<>>
Running(t, i) == Busy(t) /\ helping[t] = None /\ Last(stack[t]) = i
At(t, i, p) == Running(t, i) /\ phase[i] = p

\* Some of the bands of line i are with another thread.
Helped(i) == \E t \in Threads : helping[t] = i

\* Idle, or waiting for bands that another thread has.
Free(t) ==
    /\ pc = "work"
    /\ helping[t] = None
    /\ Busy(t) => phase[Last(stack[t])] = "bands" /\ Helped(Last(stack[t]))

Pop(t) == stack' = [stack EXCEPT ![t] = Front(@)]
Goto(i, p) == phase' = [phase EXCEPT ![i] = p]

\* process_one: the partial is created, or emptied, before ffmpeg starts.
Take(t, i) ==
    /\ Free(t)
    /\ phase[i] = "queued"
    /\ stack' = [stack EXCEPT ![t] = Append(@, i)]
    /\ partials' = partials \union {Partial("tdb", i)}
    /\ Goto(i, "decode")
    /\ UNCHANGED <<marker, prints, metas, failures, decodable, pc, manifest, helping, status, runs>>

\* A file shorter than a frame has no bands to map.  Any file may fail once:
\* ffmpeg cannot be started, or is killed.  The partial of one that fails is
\* removed, and an error of the removal is ignored.
Decode(t, i) ==
    /\ At(t, i, "decode")
    /\ \/ /\ manifest[i].audio \in decodable
          /\ phase' \in { [phase EXCEPT ![i] = p] : p \in {"bands", "prints"} }
          /\ UNCHANGED <<partials, stack>>
       \/ /\ partials' \in {partials, partials \ {Partial("tdb", i)}}
          /\ Goto(i, "failed")
          /\ Pop(t)
    /\ UNCHANGED <<marker, prints, metas, failures, decodable, pc, manifest, helping, status, runs>>

Help(t, i) ==
    /\ Free(t)
    /\ phase[i] = "bands"
    /\ i \notin ToSet(stack[t])
    /\ helping' = [helping EXCEPT ![t] = i]
    /\ UNCHANGED <<disk, decodable, pc, manifest, phase, stack, status, runs>>

FinishHelp(t) ==
    /\ helping[t] # None
    /\ helping' = [helping EXCEPT ![t] = None]
    /\ UNCHANGED <<disk, decodable, pc, manifest, phase, stack, status, runs>>

\* Mutation: the metadata is published before the prints.
MetadataFirst(p) ==
    CASE p = "bands" -> "metadata" [] p = "metadata" -> "prints" [] p = "prints" -> "sync"

Following(p) ==
    CASE p = "bands" -> "prints" [] p = "prints" -> "metadata" [] p = "metadata" -> "sync"

MapBands(t, i) ==
    /\ At(t, i, "bands")
    /\ ~Helped(i)
    /\ Goto(i, Following("bands"))
    /\ UNCHANGED <<disk, decodable, pc, manifest, stack, helping, status, runs>>

\* Mutation: the partial is copied to its name.
CopyPrints(t, i) ==
    /\ At(t, i, "prints")
    /\ prints' = [prints EXCEPT ![i] = manifest[i].audio]
    /\ Goto(i, Following("prints"))
    /\ UNCHANGED <<marker, metas, failures, partials, decodable, pc, manifest, stack, helping,
                   status, runs>>

\* The partial is flushed and synced, then renamed.
PublishPrints(t, i) ==
    /\ At(t, i, "prints")
    /\ prints' = [prints EXCEPT ![i] = manifest[i].audio]
    /\ partials' = partials \ {Partial("tdb", i)}
    /\ Goto(i, Following("prints"))
    /\ UNCHANGED <<marker, metas, failures, decodable, pc, manifest, stack, helping, status, runs>>

\* atomic_write leaves its own partial when it is interrupted; one that is
\* there already is emptied and written anew.
WriteMetadata(t, i) ==
    /\ At(t, i, "metadata")
    /\ Partial("meta", i) \notin partials
    /\ partials' = partials \union {Partial("meta", i)}
    /\ UNCHANGED <<marker, prints, metas, failures, decodable, pc, manifest, pool, status, runs>>

PublishMetadata(t, i) ==
    /\ At(t, i, "metadata")
    /\ Partial("meta", i) \in partials
    /\ metas' = [metas EXCEPT ![i] = Meta(i)]
    /\ partials' = partials \ {Partial("meta", i)}
    /\ Goto(i, Following("metadata"))
    /\ UNCHANGED <<marker, prints, failures, decodable, pc, manifest, stack, helping, status, runs>>

SyncDirectory(t, i) ==
    /\ At(t, i, "sync")
    /\ Goto(i, "done")
    /\ Pop(t)
    /\ UNCHANGED <<disk, decodable, pc, manifest, helping, status, runs>>

\* An I/O error, or an error of the extractor that is not the file's fault.
\* The other lines are worked off all the same.
Break(t, i) ==
    /\ Running(t, i)
    /\ phase[i] = "bands" => ~Helped(i)
    /\ Goto(i, "error")
    /\ Pop(t)
    /\ UNCHANGED <<disk, decodable, pc, manifest, helping, status, runs>>

-----------------------------------------------------------------------------
(* Ending.                                                                 *)

Pending == { i \in Ids : phase[i] \notin {"none", "done", "failed", "error"} }
Failed == { i \in Ids : phase[i] = "failed" }

\* Mutation: an error is not looked at before the failures are written.
CollectAll ==
    /\ pc = "work"
    /\ Pending = {}
    /\ \A t \in Threads : helping[t] = None
    /\ partials' = partials \union {FailuresPartial}
    /\ pc' = "report"
    /\ UNCHANGED <<marker, prints, metas, failures, decodable, manifest, pool, status, runs>>

Collect ==
    /\ pc = "work"
    /\ Pending = {}
    /\ \A t \in Threads : helping[t] = None
    /\ IF \E i \in Ids : phase[i] = "error"
       THEN Exited("error") /\ UNCHANGED disk
       ELSE /\ partials' = partials \union {FailuresPartial}
            /\ pc' = "report"
            /\ UNCHANGED <<marker, prints, metas, failures, decodable, manifest, pool, status, runs>>

WriteFailures ==
    /\ pc = "report"
    /\ failures' = Failed
    /\ partials' = partials \ {FailuresPartial}
    /\ Exited("ok")
    /\ UNCHANGED <<marker, prints, metas>>

\* A kill, or an error of a step outside the pool.
Kill ==
    /\ pc # "idle"
    /\ Exited("killed")
    /\ UNCHANGED disk

\* Between runs somebody repairs an audio file.
Repair ==
    /\ pc = "idle"
    /\ \E a \in Audio \ decodable : decodable' = decodable \union {a}
    /\ UNCHANGED <<disk, pc, manifest, pool, status, runs>>

-----------------------------------------------------------------------------
Init ==
    /\ marker = None
    /\ prints = [i \in Ids |-> None]
    /\ metas = [i \in Ids |-> None]
    /\ failures = None
    /\ partials = {}
    /\ decodable \in SUBSET Audio
    /\ pc = "idle"
    /\ manifest = None
    /\ phase = [i \in Ids |-> "none"]
    /\ stack = [t \in Threads |-> <<>>]
    /\ helping = [t \in Threads |-> None]
    /\ status = "none"
    /\ runs = 0

ProcessOne(t, i) ==
    \/ Take(t, i) \/ Decode(t, i) \/ Help(t, i) \/ MapBands(t, i) \/ PublishPrints(t, i)
    \/ WriteMetadata(t, i) \/ PublishMetadata(t, i) \/ SyncDirectory(t, i) \/ Break(t, i)

Next ==
    \/ Start \/ PinManifest \/ Bind \/ Scan \/ Collect \/ WriteFailures \/ Kill \/ Repair
    \/ \E t \in Threads : FinishHelp(t) \/ \E i \in Ids : ProcessOne(t, i)

Spec == Init /\ [][Next]_vars

-----------------------------------------------------------------------------
(* Properties.                                                             *)

Metas == UNION { { [key |-> m[i].key, prints |-> m[i].audio] : i \in DOMAIN m } : m \in Manifests }

\* Every variable of the directory and of the process has its type.
TypeOK ==
    /\ marker \in Manifests \union {None}
    /\ prints \in [Ids -> Audio \union {None}]
    /\ metas \in [Ids -> Metas \union {None}]
    /\ failures \in (SUBSET Ids) \union {None}
    /\ partials \subseteq [file: {"marker", "tdb", "meta", "failures"}, line: Ids \union {0}]
    /\ decodable \subseteq Audio
    /\ pc \in {"idle", "pin", "bind", "scan", "work", "report"}
    /\ manifest \in Manifests \union {None}
    /\ phase \in [Ids -> Phases]
    /\ stack \in [Threads -> Seq(Ids)]
    /\ helping \in [Threads -> Ids \union {None}]
    /\ status \in {"none", "ok", "error", "killed", "foreign", "invalid"}
    /\ runs \in 0 .. MaxRuns

\* ARCHITECTURE.md: "making metadata the completion marker".  Wherever a run is
\* killed, a metadata file stands for prints that are there, and are the ones
\* it declares.
MetadataMeansComplete ==
    \A i \in Ids : metas[i] # None => prints[i] = metas[i].prints

\* README.md: "refingerprint is resumable".  No run is turned away by what an
\* earlier run of the same manifest left in the directory, unless the manifest
\* has a key that a line of a metadata file cannot hold.
ResumeIsAccepted ==
    status = "invalid" => \E i \in DOMAIN marker : marker[i].key \notin Legible

\* A run that ended well leaves every line of the manifest completed or listed
\* as a failure, and no temporary, of its own or of a killed run, except of a
\* line that it lists as a failure.
FinishedRunIsClean ==
    status = "ok" =>
        /\ \A file \in partials : file.line \in failures
        /\ \A i \in DOMAIN marker : metas[i] # None \/ i \in failures

\* SPEC.md: "--jobs is a hard extraction concurrency bound".
JobsBoundExtractions ==
    Cardinality({ i \in Ids : \E t \in Threads : i \in ToSet(stack[t]) }) <= Cardinality(Threads)

-----------------------------------------------------------------------------
(* Refinement.                                                             *)

Produced(i) ==
    IF metas[i] = None THEN None ELSE [key |-> metas[i].key, audio |-> prints[i]]

Contract == INSTANCE Batch WITH
    bound <- marker, done <- [i \in Ids |-> Produced(i)], report <- failures

\* Through kills, errors and repeated runs the directory stays with its first
\* manifest, each resource is produced once and never changes, and the report
\* names exactly what is missing.
ImplementsBatch == Contract!Spec
=============================================================================
